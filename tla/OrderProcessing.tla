--------------------------- MODULE OrderProcessing ---------------------------
(***************************************************************************)
(* The order processing pipeline of internal/app/service/order.go: one     *)
(* goroutine runs WorkerLoop, which polls the database for NEW orders,     *)
(* marks each PROCESSING and sends it on a bounded channel; a pool of      *)
(* goroutines runs Worker, which asks the accrual system about an order    *)
(* and stores the outcome, and reports errors on an unbuffered channel     *)
(* that only WorkerLoop reads.                                             *)
(*                                                                         *)
(* One database statement or transaction is one step: nothing in this      *)
(* component reads another's uncommitted rows.  The context of the loop is *)
(* context.Background() (server.go:61), so the ctx.Done() branches of both *)
(* select statements are never taken and have no action here.              *)
(***************************************************************************)
EXTENDS Naturals, Sequences, FiniteSets

CONSTANTS
    MaxOrders,        \* bound: how many orders clients upload
    Workers,          \* the Worker goroutines (config WorkersNumber)
    BufferSize,       \* capacity of ordersChannel (config DefaultChannelsBufferSize)
    Replies,          \* which kinds of answers the accrual system gives
    FaultKinds,       \* which ways a database call fails
    MaxLoopFaults,    \* bound: failed database calls of WorkerLoop
    MaxWorkerFaults,  \* bound: failed database calls of the workers
    MaxCrashes        \* bound: deaths of the process

(***************************************************************************)
(* What AccrualRepository.GetOrder returns.  "ERROR" is every error that   *)
(* is not ErrOrderNotRegistered (429, 500, another code, no connection),   *)
(* "OTHER" an unknown status string, "NO_RETRY_AFTER" a 429 answer without *)
(* the header, on which GetOrder panics.                                   *)
(***************************************************************************)
Verdicts == {"PROCESSED", "INVALID"}
PendingReplies == {"NOT_REGISTERED", "REGISTERED", "PROCESSING"}
FailedReplies == {"ERROR", "OTHER", "NO_RETRY_AFTER"}

(***************************************************************************)
(* A call that fails as "failed" left the database unchanged; one that     *)
(* fails as "unknown" took effect, and the answer was lost on the way.     *)
(***************************************************************************)
ASSUME ConstantsAssumption ==
    /\ MaxOrders \in Nat
    /\ BufferSize \in Nat
    /\ IsFiniteSet(Workers)
    /\ Replies \subseteq Verdicts \cup PendingReplies \cup FailedReplies
    /\ FaultKinds \subseteq {"failed", "unknown"}
    /\ MaxLoopFaults \in Nat
    /\ MaxWorkerFaults \in Nat
    /\ MaxCrashes \in Nat

Orders == 1 .. MaxOrders    \* order.id; ascending is also ORDER BY created_at
NoOrder == 0

VARIABLES
    status,        \* table "order": the status of each row, "ABSENT" without a row
    accrual,       \* table "accrual": the orders that have a row (order_id is UNIQUE)
    credits,       \* how many times an order's amount was added to its owner's balance
    verdict,       \* what the accrual system has decided about each order
    loopPc,        \* where WorkerLoop is
    batch,         \* what is left of the orders it read, the current one included
    channel,       \* ordersChannel
    workerPc,      \* where each Worker is
    held,          \* the order a Worker is handling
    reply,         \* the answer it got about that order
    loopFaults, workerFaults, crashes

database == <<status, accrual, credits>>
loopVars == <<loopPc, batch>>
workerVars == <<workerPc, held, reply>>
bounds == <<loopFaults, workerFaults, crashes>>
vars == <<status, accrual, credits, verdict, loopPc, batch, channel,
          workerPc, held, reply, loopFaults, workerFaults, crashes>>

------------------------------------------------------------------------------
Init ==
    /\ status = [o \in Orders |-> "ABSENT"]
    /\ accrual = {}
    /\ credits = [o \in Orders |-> 0]
    /\ verdict = [o \in Orders |-> "PENDING"]
    /\ loopPc = "select"
    /\ batch = {}
    /\ channel = <<>>
    /\ workerPc = [w \in Workers |-> "receive"]
    /\ held = [w \in Workers |-> NoOrder]
    /\ reply = [w \in Workers |-> "NONE"]
    /\ loopFaults = 0
    /\ workerFaults = 0
    /\ crashes = 0

(***************************************************************************)
(* The outcomes of one database call of the loop or of a worker, counted   *)
(* against the bound of its kind.                                          *)
(***************************************************************************)
LoopCall(outcome) ==
    \/ outcome = "ok" /\ UNCHANGED loopFaults
    \/ /\ outcome \in FaultKinds
       /\ loopFaults < MaxLoopFaults
       /\ loopFaults' = loopFaults + 1

WorkerCall(outcome) ==
    \/ outcome = "ok" /\ UNCHANGED workerFaults
    \/ /\ outcome \in FaultKinds
       /\ workerFaults < MaxWorkerFaults
       /\ workerFaults' = workerFaults + 1

Outcomes == {"ok", "failed", "unknown"}

(***************************************************************************)
(* OrderRepository.UpdateOrderStatus: UPDATE ... SET status WHERE id, with *)
(* no condition on the status the row had.                                 *)
(***************************************************************************)
SetStatus(o, s, outcome) ==
    /\ status' = IF outcome = "failed" THEN status ELSE [status EXCEPT ![o] = s]
    /\ UNCHANGED <<accrual, credits>>

------------------------------------------------------------------------------
(***************************************************************************)
(* The environment: clients upload orders (a new row is NEW by the DEFAULT *)
(* of its column), and the accrual system decides about them, once.        *)
(***************************************************************************)
Upload(o) ==
    /\ loopPc # "down"
    /\ status[o] = "ABSENT"
    /\ \A p \in Orders : p < o => status[p] # "ABSENT"
    /\ status' = [status EXCEPT ![o] = "NEW"]
    /\ UNCHANGED <<accrual, credits, verdict, loopVars, channel, workerVars, bounds>>

Decide(o) ==
    /\ status[o] # "ABSENT"
    /\ verdict[o] = "PENDING"
    /\ \E v \in Verdicts \cap Replies : verdict' = [verdict EXCEPT ![o] = v]
    /\ UNCHANGED <<database, loopVars, channel, workerVars, bounds>>

------------------------------------------------------------------------------
(***************************************************************************)
(* WorkerLoop.  Its select has a default, so it reads errorsChannel when a *)
(* Worker is blocked sending on it and goes on to poll the database        *)
(* otherwise; a Worker may come to the channel before the poll is done.    *)
(***************************************************************************)
Reporting(w) == workerPc[w] = "report"

ReceiveError(w) ==
    /\ loopPc = "select"
    /\ Reporting(w)
    /\ workerPc' = [workerPc EXCEPT ![w] = "receive"]
    /\ UNCHANGED <<database, verdict, loopVars, channel, held, reply, bounds>>

Default ==
    /\ loopPc = "select"
    /\ \A w \in Workers : ~Reporting(w)
    /\ loopPc' = "poll"
    /\ UNCHANGED <<database, verdict, batch, channel, workerVars, bounds>>

\* Mutant: "nothing to do" ends the loop.
GetOrdersForProcessing_StopsWhenIdle ==
    /\ loopPc = "poll"
    /\ batch' = {o \in Orders : status[o] = "NEW"}
    /\ loopPc' = IF batch' = {} THEN "stopped" ELSE "mark"
    /\ UNCHANGED <<database, verdict, channel, workerVars, bounds>>

\* Mutant: the poll also picks up the orders another pass left in PROCESSING.
GetOrdersForProcessing_AlsoProcessing ==
    /\ loopPc = "poll"
    /\ batch' = {o \in Orders : status[o] \in {"NEW", "PROCESSING"}}
    /\ loopPc' = IF batch' = {} THEN "sleep" ELSE "mark"
    /\ UNCHANGED <<database, verdict, channel, workerVars, bounds>>

(***************************************************************************)
(* The batches OrderRepository.ReadByStatus may return.  It does not look  *)
(* at rows.Err() after its loop: when the connection is lost while the     *)
(* rows are fetched, it returns those it got, the oldest, and no error.    *)
(***************************************************************************)
NewOrders == {o \in Orders : status[o] = "NEW"}
ReadByStatus(outcome) ==
    IF outcome = "ok" THEN {NewOrders}
    ELSE {{p \in NewOrders : p <= o} : o \in NewOrders}

GetOrdersForProcessing ==
    /\ loopPc = "poll"
    /\ \E outcome \in Outcomes :
        /\ LoopCall(outcome)
        /\ \/ /\ batch' \in ReadByStatus(outcome)
              /\ loopPc' = IF batch' = {} THEN "sleep" ELSE "mark"
           \/ /\ outcome # "ok"
              /\ batch' = {}
              /\ loopPc' = "stopped"
    /\ UNCHANGED <<database, verdict, channel, workerVars, workerFaults, crashes>>

\* The order of the batch the range loop is at (ORDER BY created_at).
Oldest(o) == o \in batch /\ \A p \in batch : o <= p

\* Mutant: the order is sent without being marked.
MarkProcessing_Skipped ==
    /\ loopPc = "mark"
    /\ loopPc' = "send"
    /\ UNCHANGED <<database, batch, verdict, channel, workerVars, bounds>>

MarkProcessing ==
    /\ loopPc = "mark"
    /\ \E o \in Orders, outcome \in Outcomes :
        /\ Oldest(o)
        /\ LoopCall(outcome)
        /\ SetStatus(o, "PROCESSING", outcome)
        /\ IF outcome = "ok"
           THEN loopPc' = "send" /\ UNCHANGED batch
           ELSE loopPc' = "stopped" /\ batch' = {}
    /\ UNCHANGED <<verdict, channel, workerVars, workerFaults, crashes>>

AdvanceBatch(o) ==
    /\ batch' = batch \ {o}
    /\ loopPc' = IF batch' = {} THEN "sleep" ELSE "mark"

\* Mutant: the send does not wait for room.
SendOrder_NeverBlocks(o) ==
    /\ loopPc = "send"
    /\ Oldest(o)
    /\ channel' = Append(channel, o)
    /\ AdvanceBatch(o)
    /\ UNCHANGED <<database, verdict, workerVars, bounds>>

SendOrder(o) ==
    /\ loopPc = "send"
    /\ Oldest(o)
    /\ Len(channel) < BufferSize
    /\ channel' = Append(channel, o)
    /\ AdvanceBatch(o)
    /\ UNCHANGED <<database, verdict, workerVars, bounds>>

\* A send to a waiting receiver hands the value over without using the buffer.
HandOver(o, w) ==
    /\ loopPc = "send"
    /\ Oldest(o)
    /\ channel = <<>>
    /\ workerPc[w] = "receive"
    /\ workerPc' = [workerPc EXCEPT ![w] = "request"]
    /\ held' = [held EXCEPT ![w] = o]
    /\ AdvanceBatch(o)
    /\ UNCHANGED <<database, verdict, channel, reply, bounds>>

Sleep ==
    /\ loopPc = "sleep"
    /\ loopPc' = "select"
    /\ UNCHANGED <<database, verdict, batch, channel, workerVars, bounds>>

------------------------------------------------------------------------------
(***************************************************************************)
(* Worker and OrderService.UpdateOrderStatus.                              *)
(***************************************************************************)
ReceiveOrder(w) ==
    /\ workerPc[w] = "receive"
    /\ channel # <<>>
    /\ channel' = Tail(channel)
    /\ held' = [held EXCEPT ![w] = Head(channel)]
    /\ workerPc' = [workerPc EXCEPT ![w] = "request"]
    /\ UNCHANGED <<database, verdict, loopVars, reply, bounds>>

\* What the accrual system may answer about an order.
PossibleReplies(o) ==
    Replies \cap (FailedReplies \cup
        IF verdict[o] = "PENDING" THEN PendingReplies ELSE {verdict[o]})

\* The worker is done with its order and is next at pc.
Release(w, pc) ==
    /\ workerPc' = [workerPc EXCEPT ![w] = pc]
    /\ held' = [held EXCEPT ![w] = NoOrder]
    /\ reply' = [reply EXCEPT ![w] = "NONE"]

\* Mutant: a body without a known status is taken for a finished calculation.
GetOrder_DefaultProcessed(w) ==
    /\ workerPc[w] = "request"
    /\ \E r \in PossibleReplies(held[w]) \ {"NO_RETRY_AFTER", "REGISTERED"} :
        reply' = [reply EXCEPT ![w] = IF r = "OTHER" THEN "PROCESSED" ELSE r]
    /\ workerPc' = [workerPc EXCEPT ![w] = "store"]
    /\ UNCHANGED <<database, verdict, loopVars, channel, held, bounds>>

(***************************************************************************)
(* The call of GetOrder, and the switch over its answer.  The case of      *)
(* REGISTERED has an empty body, and a Go case does not fall through: the  *)
(* worker returns without touching the order.                              *)
(***************************************************************************)
GetOrder(w) ==
    /\ workerPc[w] = "request"
    /\ \E r \in PossibleReplies(held[w]) \ {"NO_RETRY_AFTER"} :
        IF r = "REGISTERED"
        THEN Release(w, "receive")
        ELSE /\ workerPc' = [workerPc EXCEPT ![w] = "store"]
             /\ reply' = [reply EXCEPT ![w] = r]
             /\ UNCHANGED held
    /\ UNCHANGED <<database, verdict, loopVars, channel, bounds>>

\* The status UpdateOrderStatus writes for an answer other than PROCESSED.
StatusFor(r) == IF r \in {"NOT_REGISTERED", "INVALID"} THEN "INVALID" ELSE "NEW"

\* Mutant: the accrual table has no UNIQUE order_id.
PasteAccrual_NotUnique(o, outcome) ==
    IF outcome = "failed"
    THEN UNCHANGED database
    ELSE /\ status' = [status EXCEPT ![o] = "PROCESSED"]
         /\ accrual' = accrual \cup {o}
         /\ credits' = [credits EXCEPT ![o] = @ + 1]

\* Mutant: the balance is updated before the transaction, in a statement of its own.
PasteAccrual_BalanceApart(o, outcome) ==
    /\ credits' = [credits EXCEPT ![o] = @ + 1]
    /\ IF outcome = "failed"
       THEN UNCHANGED <<status, accrual>>
       ELSE /\ o \notin accrual
            /\ status' = [status EXCEPT ![o] = "PROCESSED"]
            /\ accrual' = accrual \cup {o}

\* Mutant: a failing INSERT does not roll the status back.
PasteAccrual_NoRollback(o, outcome) ==
    IF outcome = "failed"
    THEN /\ status' = [status EXCEPT ![o] = "PROCESSED"]
         /\ UNCHANGED <<accrual, credits>>
    ELSE /\ status' = [status EXCEPT ![o] = "PROCESSED"]
         /\ o \notin accrual
         /\ accrual' = accrual \cup {o}
         /\ credits' = [credits EXCEPT ![o] = @ + 1]

(***************************************************************************)
(* OrderRepository.UpdateOrderAndPasteAccrual: one transaction that sets   *)
(* the status, inserts the accrual row and adds to the balance.            *)
(***************************************************************************)
PasteAccrual(o, outcome) ==
    IF outcome = "failed"
    THEN UNCHANGED database
    ELSE /\ o \notin accrual
         /\ status' = [status EXCEPT ![o] = "PROCESSED"]
         /\ accrual' = accrual \cup {o}
         /\ credits' = [credits EXCEPT ![o] = @ + 1]

\* The INSERT violates UNIQUE order_id: rolled back, whatever the connection does.
DuplicateAccrual(o, outcome) ==
    /\ o \in accrual
    /\ outcome = "failed"
    /\ UNCHANGED <<database, workerFaults>>

\* Mutant: the answer PROCESSING leaves the order alone, as REGISTERED does.
StoreReply_IgnoresProcessing(w) ==
    /\ workerPc[w] = "store"
    /\ IF reply[w] = "PROCESSED"
       THEN PasteAccrual(held[w], "ok")
       ELSE SetStatus(held[w], IF reply[w] = "PROCESSING" THEN status[held[w]]
                               ELSE StatusFor(reply[w]), "ok")
    /\ Release(w, "receive")
    /\ UNCHANGED <<verdict, loopVars, channel, bounds>>

\* Mutant: the success path of a case lacks its "return nil".
StoreReply_NoReturn(w) ==
    /\ workerPc[w] = "store"
    /\ IF reply[w] = "PROCESSED"
       THEN PasteAccrual(held[w], "ok")
       ELSE SetStatus(held[w], StatusFor(reply[w]), "ok")
    /\ workerPc' = [workerPc EXCEPT ![w] = "fallback"]
    /\ UNCHANGED <<verdict, loopVars, channel, held, reply, bounds>>

StoreReply(w) ==
    /\ workerPc[w] = "store"
    /\ \E outcome \in Outcomes :
        /\ \/ /\ reply[w] = "PROCESSED"
              /\ \/ PasteAccrual(held[w], outcome) /\ WorkerCall(outcome)
                 \/ DuplicateAccrual(held[w], outcome)
           \/ /\ reply[w] # "PROCESSED"
              /\ SetStatus(held[w], StatusFor(reply[w]), outcome)
              /\ WorkerCall(outcome)
        /\ IF outcome = "ok" THEN Release(w, "receive")
           ELSE IF reply[w] \in Verdicts
           THEN /\ workerPc' = [workerPc EXCEPT ![w] = "fallback"]
                /\ UNCHANGED <<held, reply>>
           ELSE Release(w, "failed")
    /\ UNCHANGED <<verdict, loopVars, channel, loopFaults, crashes>>

(***************************************************************************)
(* After a failed store of a verdict the worker sets the order back to     *)
(* NEW; it reports an error whether or not that succeeds.                  *)
(***************************************************************************)
ReturnToNew(w) ==
    /\ workerPc[w] = "fallback"
    /\ \E outcome \in Outcomes :
        /\ WorkerCall(outcome)
        /\ SetStatus(held[w], "NEW", outcome)
    /\ Release(w, "failed")
    /\ UNCHANGED <<verdict, loopVars, channel, loopFaults, crashes>>

\* UpdateOrderStatus has returned an error, and the worker comes to errorsChannel.
Report(w) ==
    /\ workerPc[w] = "failed"
    /\ workerPc' = [workerPc EXCEPT ![w] = "report"]
    /\ UNCHANGED <<database, verdict, loopVars, channel, held, reply, bounds>>

------------------------------------------------------------------------------
(***************************************************************************)
(* The process dies: killed, by logger.Log.Fatal in a request, or because  *)
(* GetOrder indexes a missing Retry-After header (a panic in a goroutine   *)
(* nobody recovers).  Only the database survives.                          *)
(***************************************************************************)
Die ==
    /\ crashes < MaxCrashes
    /\ crashes' = crashes + 1
    /\ loopPc' = "down"
    /\ batch' = {}
    /\ channel' = <<>>
    /\ workerPc' = [w \in Workers |-> "down"]
    /\ held' = [w \in Workers |-> NoOrder]
    /\ reply' = [w \in Workers |-> "NONE"]
    /\ UNCHANGED <<database, verdict, loopFaults, workerFaults>>

Crash == loopPc # "down" /\ Die

Panic(w) ==
    /\ workerPc[w] = "request"
    /\ "NO_RETRY_AFTER" \in PossibleReplies(held[w])
    /\ Die

Restart ==
    /\ loopPc = "down"
    /\ loopPc' = "select"
    /\ workerPc' = [w \in Workers |-> "receive"]
    /\ UNCHANGED <<database, verdict, batch, channel, held, reply, bounds>>

------------------------------------------------------------------------------
LoopStep ==
    \/ \E w \in Workers : ReceiveError(w)
    \/ Default
    \/ GetOrdersForProcessing
    \/ MarkProcessing
    \/ \E o \in Orders : SendOrder(o)
    \/ \E o \in Orders, w \in Workers : HandOver(o, w)
    \/ Sleep

WorkerStep(w) ==
    ReceiveOrder(w) \/ GetOrder(w) \/ StoreReply(w) \/ ReturnToNew(w) \/ Report(w)

Next ==
    \/ \E o \in Orders : Upload(o) \/ Decide(o)
    \/ LoopStep
    \/ \E w \in Workers : WorkerStep(w) \/ Panic(w)
    \/ Crash
    \/ Restart

Spec == Init /\ [][Next]_vars

(***************************************************************************)
(* The Go scheduler runs every goroutine that can run, the restarted       *)
(* process is started again, and an order that is asked about again and    *)
(* again is some time answered with the decision taken on it: outages and  *)
(* rate limits of the accrual system end.                                  *)
(***************************************************************************)
LearnVerdict(o) ==
    \E w \in Workers :
        /\ held[w] = o
        /\ GetOrder(w)
        /\ reply'[w] \in Verdicts

Fairness ==
    /\ WF_vars(LoopStep)
    /\ \A w \in Workers : WF_vars(WorkerStep(w))
    /\ \A o \in Orders : SF_vars(LearnVerdict(o))
    /\ WF_vars(Restart)

FairSpec == Spec /\ Fairness

------------------------------------------------------------------------------
Statuses == {"ABSENT", "NEW", "PROCESSING", "PROCESSED", "INVALID"}
LoopPcs == {"select", "poll", "mark", "send", "sleep", "stopped", "down"}
WorkerPcs == {"receive", "request", "store", "fallback", "failed", "report", "down"}

Busy(w) == workerPc[w] \in {"request", "store", "fallback"}
Queued == {channel[i] : i \in 1 .. Len(channel)}

(***************************************************************************)
(* Type invariant: the ranges of the variables, the capacity of the        *)
(* channel, an order in hand exactly where the code of Worker has one, and *)
(* a batch only within the range loop.                                     *)
(***************************************************************************)
TypeOK ==
    /\ status \in [Orders -> Statuses]
    /\ accrual \in SUBSET Orders
    /\ credits \in [Orders -> Nat]
    /\ verdict \in [Orders -> Verdicts \cup {"PENDING"}]
    /\ loopPc \in LoopPcs
    /\ batch \in SUBSET Orders
    /\ channel \in Seq(Orders)
    /\ Len(channel) <= BufferSize
    /\ workerPc \in [Workers -> WorkerPcs]
    /\ held \in [Workers -> Orders \cup {NoOrder}]
    /\ \A w \in Workers : held[w] # NoOrder <=> Busy(w)
    /\ loopPc \notin {"mark", "send"} => batch = {}
    /\ reply \in [Workers -> Verdicts \cup PendingReplies \cup FailedReplies \cup {"NONE"}]
    /\ loopFaults \in 0 .. MaxLoopFaults
    /\ workerFaults \in 0 .. MaxWorkerFaults
    /\ crashes \in 0 .. MaxCrashes

(***************************************************************************)
(* An order in processing is in one place: it is queued at most once, one  *)
(* worker at most handles it, and it is neither in two of the batch, the   *)
(* channel and a worker.  The code has no lock or claim on an order: this  *)
(* rests on polling only NEW rows and on marking a row before sending it.  *)
(***************************************************************************)
SingleCustody ==
    /\ \A i, j \in 1 .. Len(channel) : channel[i] = channel[j] => i = j
    /\ \A v, w \in Workers : Busy(v) /\ Busy(w) /\ held[v] = held[w] => v = w
    /\ \A w \in Workers : Busy(w) => held[w] \notin Queued \cup batch
    /\ Queued \cap batch = {}

(***************************************************************************)
(* The rows of the orders on their way agree with where they are: nobody   *)
(* changes the status of an order behind the back of the batch, the        *)
(* channel or the worker that has it.                                      *)
(***************************************************************************)
StatusFollowsCustody ==
    /\ \A o \in Queued : status[o] = "PROCESSING"
    /\ \A w \in Workers : workerPc[w] \in {"request", "store"} => status[held[w]] = "PROCESSING"
    /\ \A w \in Workers : workerPc[w] = "fallback" => status[held[w]] \notin {"ABSENT", "NEW"}
    /\ \A o \in batch :
        status[o] = IF loopPc = "send" /\ Oldest(o) THEN "PROCESSING" ELSE "NEW"

(***************************************************************************)
(* The answer a worker is about to store was not overtaken since it was    *)
(* given: a verdict it holds is the accrual system's verdict on its order, *)
(* and it stores something only when there is something to store.          *)
(***************************************************************************)
StoresTheVerdict ==
    \A w \in Workers : workerPc[w] \in {"store", "fallback"} =>
        /\ reply[w] \notin {"NONE", "REGISTERED", "NO_RETRY_AFTER"}
        /\ reply[w] \in Verdicts => verdict[held[w]] = reply[w]

(***************************************************************************)
(* The points of an order are added to the balance once and only with an   *)
(* accrual row, whatever calls fail or get lost and however often the      *)
(* order is processed again.                                               *)
(***************************************************************************)
CreditedOnce == \A o \in Orders : credits[o] = IF o \in accrual THEN 1 ELSE 0

(***************************************************************************)
(* A client that sees PROCESSED has the points: the three statements of    *)
(* UpdateOrderAndPasteAccrual take effect together or not at all.          *)
(***************************************************************************)
ProcessedIsCredited ==
    \A o \in Orders : status[o] = "PROCESSED" =>
        credits[o] = 1 /\ verdict[o] = "PROCESSED"

(***************************************************************************)
(* PROCESSED and INVALID are final for the client who polls the list of    *)
(* orders.  Only the worker that stored such a status can take the order   *)
(* back to NEW, and only when an answer of the database was lost, so that  *)
(* the worker takes for failed what was stored.                            *)
(***************************************************************************)
LostAnswer == "unknown" \in FaultKinds /\ workerFaults > 0

FinalStatusSticks ==
    [][\A o \in Orders : status[o] \in Verdicts /\ status'[o] # status[o] =>
            /\ LostAnswer
            /\ \E w \in Workers : workerPc[w] = "fallback" /\ held[w] = o]_vars

(***************************************************************************)
(* The loop marks PROCESSING only what is NEW at that moment, although it  *)
(* read the batch earlier and may have been blocked on the channel since.  *)
(***************************************************************************)
MarksOnlyNew ==
    [][\A o \in Orders : status'[o] = "PROCESSING" => status[o] \in {"NEW", "PROCESSING"}]_vars

(***************************************************************************)
(* Every NEW order is some time taken into processing: the loop goes on    *)
(* polling, until a call of its own to the database fails and ends it.     *)
(***************************************************************************)
GaveUp == loopPc = "stopped" /\ loopFaults > 0

NewIsPickedUp ==
    \A o \in Orders : status[o] = "NEW" ~> status[o] # "NEW" \/ GaveUp

(***************************************************************************)
(* Every order the accrual system grants points for is credited            *)
(* (SPECIFICATION.md:16).                                                  *)
(***************************************************************************)
EveryRewardIsCredited == \A o \in Orders : verdict[o] = "PROCESSED" ~> credits[o] = 1

(***************************************************************************)
(* The row is PROCESSING, and neither the loop, nor the channel, nor a     *)
(* worker has the order: the poll, which reads NEW rows only, will not     *)
(* find it again.                                                          *)
(***************************************************************************)
Forgotten(o) ==
    /\ status[o] = "PROCESSING"
    /\ o \notin batch \cup Queued
    /\ \A w \in Workers : held[w] # o

(***************************************************************************)
(* The only way to lose the points of a granted order while the loop runs: *)
(* a failed call or the death of the process leaves the row PROCESSING     *)
(* when nobody has the order in hand any more.  A reply that has to be     *)
(* asked for again, an error that is reported, a full channel and a failed *)
(* accrual transaction only delay them.                                    *)
(***************************************************************************)
Orphaned(o) == Forgotten(o) /\ loopFaults + workerFaults + crashes > 0

CreditedOrOrphaned ==
    \A o \in Orders : verdict[o] = "PROCESSED" ~>
        credits[o] = 1 \/ Orphaned(o) \/ GaveUp

------------------------------------------------------------------------------
(***************************************************************************)
(* The pipeline implements what it promises the owner of an order.         *)
(***************************************************************************)
Reward == INSTANCE RewardOnce WITH
    accepted <- {o \in Orders : status[o] # "ABSENT"},
    granted <- {o \in Orders : verdict[o] = "PROCESSED"},
    points <- credits

(***************************************************************************)
(* Every behaviour of the pipeline is one of the abstract account of       *)
(* rewards: a step of it accepts an order, learns of a grant, credits one  *)
(* granted order that was not credited before, or changes nothing there.   *)
(***************************************************************************)
RewardSpec == Reward!Spec
==============================================================================
