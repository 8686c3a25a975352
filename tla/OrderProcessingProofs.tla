------------------------ MODULE OrderProcessingProofs ------------------------
(***************************************************************************)
(* Theorems about OrderProcessing, for any number of orders and workers,   *)
(* any channel capacity and any bounds on failures and crashes.            *)
(***************************************************************************)
EXTENDS OrderProcessing, FiniteSetTheorems, TLAPS

(***************************************************************************)
(* The goroutines die and are started again together: what makes the type  *)
(* invariant inductive across Restart.                                     *)
(***************************************************************************)
DownTogether == \A w \in Workers : workerPc[w] = "down" <=> loopPc = "down"

TypeInv == TypeOK /\ DownTogether

------------------------------------------------------------------------------
\* A step that changes nothing preserves the type invariant.
LEMMA TypeStutter == TypeInv /\ UNCHANGED vars => TypeInv'
  BY DEF TypeInv, TypeOK, DownTogether, Busy, vars

\* The outcomes of a call keep the counters of failures within their bounds.
LEMMA CallsCounted ==
    ASSUME NEW outcome
    PROVE  /\ loopFaults \in 0 .. MaxLoopFaults /\ LoopCall(outcome)
                => loopFaults' \in 0 .. MaxLoopFaults
           /\ workerFaults \in 0 .. MaxWorkerFaults /\ WorkerCall(outcome)
                => workerFaults' \in 0 .. MaxWorkerFaults
  BY ConstantsAssumption DEF ConstantsAssumption, LoopCall, WorkerCall

\* Setting the status of an order keeps the database well typed.
LEMMA SetStatusType ==
    ASSUME NEW o \in Orders, NEW s \in Statuses, NEW outcome,
           status \in [Orders -> Statuses], accrual \in SUBSET Orders,
           credits \in [Orders -> Nat], SetStatus(o, s, outcome)
    PROVE  /\ status' \in [Orders -> Statuses]
           /\ accrual' \in SUBSET Orders
           /\ credits' \in [Orders -> Nat]
  BY DEF SetStatus

\* So does storing an accrual.
LEMMA PasteAccrualType ==
    ASSUME NEW o \in Orders, NEW outcome,
           status \in [Orders -> Statuses], accrual \in SUBSET Orders,
           credits \in [Orders -> Nat],
           PasteAccrual(o, outcome) \/ DuplicateAccrual(o, outcome)
    PROVE  /\ status' \in [Orders -> Statuses]
           /\ accrual' \in SUBSET Orders
           /\ credits' \in [Orders -> Nat]
  BY DEF PasteAccrual, DuplicateAccrual, database, Statuses

\* The environment preserves the type invariant.
LEMMA TypeEnvironment ==
    ASSUME TypeInv, NEW o \in Orders, Upload(o) \/ Decide(o)
    PROVE  TypeInv'
<1>1. CASE Upload(o)
  BY <1>1 DEF TypeInv, TypeOK, DownTogether, Busy, Upload, Statuses,
              loopVars, workerVars, bounds
<1>2. CASE Decide(o)
  BY <1>2 DEF TypeInv, TypeOK, DownTogether, Busy, Decide, Verdicts,
              database, loopVars, workerVars, bounds
<1>3. QED  BY <1>1, <1>2

\* The steps of the loop preserve the type invariant.
LEMMA TypeLoop ==
    ASSUME TypeInv, LoopStep
    PROVE  TypeInv'
<1>1. ASSUME NEW w \in Workers, ReceiveError(w)
      PROVE  TypeInv'
  BY <1>1 DEF TypeInv, TypeOK, DownTogether, Busy, ReceiveError, Reporting, WorkerPcs,
              database, loopVars, bounds
<1>2. CASE GetOrdersForProcessing
  <2>1. PICK outcome \in Outcomes :
          /\ LoopCall(outcome)
          /\ batch' \subseteq Orders
          /\ loopPc' \in {"stopped", "sleep", "mark"}
          /\ loopPc' # "mark" => batch' = {}
    BY <1>2 DEF GetOrdersForProcessing, ReadByStatus, NewOrders
  <2>2. loopFaults' \in 0 .. MaxLoopFaults
    BY <2>1, CallsCounted DEF TypeInv, TypeOK
  <2>3. QED
    BY <1>2, <2>1, <2>2 DEF TypeInv, TypeOK, DownTogether, Busy, GetOrdersForProcessing,
                            LoopPcs, database, workerVars
<1>3. CASE MarkProcessing
  <2>1. PICK o \in Orders, outcome \in Outcomes :
          /\ LoopCall(outcome)
          /\ SetStatus(o, "PROCESSING", outcome)
          /\ IF outcome = "ok"
             THEN loopPc' = "send" /\ UNCHANGED batch
             ELSE loopPc' = "stopped" /\ batch' = {}
    BY <1>3 DEF MarkProcessing
  <2>2. loopFaults' \in 0 .. MaxLoopFaults
    BY <2>1, CallsCounted DEF TypeInv, TypeOK
  <2>3. /\ status' \in [Orders -> Statuses]
        /\ accrual' \in SUBSET Orders
        /\ credits' \in [Orders -> Nat]
    BY <2>1, SetStatusType DEF TypeInv, TypeOK, Statuses
  <2>4. QED
    BY <1>3, <2>1, <2>2, <2>3 DEF TypeInv, TypeOK, DownTogether, Busy, MarkProcessing,
                                  LoopPcs, workerVars
<1>4. ASSUME NEW o \in Orders, SendOrder(o)
      PROVE  TypeInv'
  <2>1. /\ channel' \in Seq(Orders)
        /\ Len(channel') <= BufferSize
    BY <1>4, ConstantsAssumption DEF TypeInv, TypeOK, SendOrder, ConstantsAssumption
  <2>2. QED
    BY <1>4, <2>1 DEF TypeInv, TypeOK, DownTogether, Busy, SendOrder, AdvanceBatch, LoopPcs,
                      database, workerVars, bounds
<1>5. ASSUME NEW o \in Orders, NEW w \in Workers, HandOver(o, w)
      PROVE  TypeInv'
  BY <1>5 DEF TypeInv, TypeOK, DownTogether, Busy, HandOver, AdvanceBatch, LoopPcs, WorkerPcs,
              Orders, NoOrder, database, bounds
<1>6. CASE Default \/ Sleep
  BY <1>6 DEF TypeInv, TypeOK, DownTogether, Busy, Default, Sleep, LoopPcs, database,
              workerVars, bounds
<1>7. QED
  BY <1>1, <1>2, <1>3, <1>4, <1>5, <1>6 DEF LoopStep

\* The answers of the accrual system are answers.
LEMMA RepliesType ==
    ASSUME NEW o, NEW r \in PossibleReplies(o)
    PROVE  r \in Verdicts \cup PendingReplies \cup FailedReplies
  BY ConstantsAssumption DEF PossibleReplies, ConstantsAssumption

\* A worker that is done with its order has none in hand.
LEMMA ReleaseType ==
    ASSUME TypeInv, NEW w \in Workers, workerPc[w] # "down",
           Release(w, "receive") \/ Release(w, "failed")
    PROVE  /\ workerPc' \in [Workers -> WorkerPcs]
           /\ held' \in [Workers -> Orders \cup {NoOrder}]
           /\ reply' \in [Workers -> Verdicts \cup PendingReplies \cup FailedReplies \cup {"NONE"}]
           /\ \A v \in Workers : held'[v] # NoOrder <=> Busy(v)'
           /\ \A v \in Workers : workerPc'[v] = "down" <=> workerPc[v] = "down"
  BY DEF TypeInv, TypeOK, Busy, Release, WorkerPcs

\* The steps of a worker preserve the type invariant.
LEMMA TypeWorker ==
    ASSUME TypeInv, NEW w \in Workers, WorkerStep(w)
    PROVE  TypeInv'
<1>1. CASE ReceiveOrder(w)
  <2>1. /\ channel' \in Seq(Orders)
        /\ Len(channel') <= BufferSize
        /\ Head(channel) \in Orders
    BY <1>1, ConstantsAssumption DEF TypeInv, TypeOK, ReceiveOrder, ConstantsAssumption
  <2>2. /\ workerPc' \in [Workers -> WorkerPcs]
        /\ held' \in [Workers -> Orders \cup {NoOrder}]
        /\ \A v \in Workers : workerPc'[v] = "down" <=> workerPc[v] = "down"
    BY <1>1, <2>1 DEF TypeInv, TypeOK, ReceiveOrder, WorkerPcs
  <2>3. \A v \in Workers : held'[v] # NoOrder <=> Busy(v)'
    BY <1>1, <2>1 DEF TypeInv, TypeOK, Busy, ReceiveOrder, Orders, NoOrder
  <2>4. QED
    BY <1>1, <2>1, <2>2, <2>3 DEF TypeInv, TypeOK, DownTogether, ReceiveOrder,
                                  database, loopVars, bounds
<1>2. CASE GetOrder(w)
  <2>1. PICK r \in PossibleReplies(held[w]) :
          IF r = "REGISTERED"
          THEN Release(w, "receive")
          ELSE /\ workerPc' = [workerPc EXCEPT ![w] = "store"]
               /\ reply' = [reply EXCEPT ![w] = r]
               /\ UNCHANGED held
    BY <1>2 DEF GetOrder
  <2>2. r \in Verdicts \cup PendingReplies \cup FailedReplies
    BY <2>1, RepliesType
  <2>3. CASE r = "REGISTERED"
    <3>1. Release(w, "receive")
      BY <2>1, <2>3
    <3>2. QED
      BY <1>2, <3>1, ReleaseType DEF TypeInv, TypeOK, DownTogether, GetOrder,
                                     database, loopVars, bounds
  <2>4. CASE r # "REGISTERED"
    <3>1. /\ workerPc' = [workerPc EXCEPT ![w] = "store"]
          /\ reply' = [reply EXCEPT ![w] = r]
          /\ UNCHANGED held
      BY <2>1, <2>4
    <3>2. QED
      BY <1>2, <2>2, <3>1 DEF TypeInv, TypeOK, DownTogether, Busy, GetOrder, WorkerPcs,
                              database, loopVars, bounds
  <2>5. QED  BY <2>3, <2>4
<1>3. CASE StoreReply(w)
  <2>1. PICK outcome \in Outcomes :
        /\ \/ /\ reply[w] = "PROCESSED"
              /\ \/ PasteAccrual(held[w], outcome) /\ WorkerCall(outcome)
                 \/ DuplicateAccrual(held[w], outcome)
           \/ /\ reply[w] # "PROCESSED"
              /\ SetStatus(held[w], StatusFor(reply[w]), outcome)
              /\ WorkerCall(outcome)
        /\ IF outcome = "ok" THEN Release(w, "receive")
           ELSE IF reply[w] \in Verdicts
           THEN /\ workerPc' = [workerPc EXCEPT ![w] = "fallback"]
                /\ UNCHANGED <<held, reply>>
           ELSE Release(w, "failed")
    BY <1>3 DEF StoreReply
  <2>2. held[w] \in Orders
    BY <1>3 DEF TypeInv, TypeOK, Busy, StoreReply
  <2>3. /\ status' \in [Orders -> Statuses]
        /\ accrual' \in SUBSET Orders
        /\ credits' \in [Orders -> Nat]
    BY <2>1, <2>2, SetStatusType, PasteAccrualType DEF TypeInv, TypeOK, StatusFor, Statuses
  <2>4. workerFaults' \in 0 .. MaxWorkerFaults
    BY <2>1, CallsCounted DEF TypeInv, TypeOK, DuplicateAccrual
  <2>5. /\ workerPc' \in [Workers -> WorkerPcs]
        /\ held' \in [Workers -> Orders \cup {NoOrder}]
        /\ reply' \in [Workers -> Verdicts \cup PendingReplies \cup FailedReplies \cup {"NONE"}]
        /\ \A v \in Workers : held'[v] # NoOrder <=> Busy(v)'
        /\ \A v \in Workers : workerPc'[v] = "down" <=> workerPc[v] = "down"
    <3>1. CASE Release(w, "receive") \/ Release(w, "failed")
      BY <1>3, <3>1, ReleaseType DEF TypeInv, TypeOK, StoreReply
    <3>2. CASE workerPc' = [workerPc EXCEPT ![w] = "fallback"] /\ UNCHANGED <<held, reply>>
      BY <1>3, <3>2 DEF TypeInv, TypeOK, Busy, StoreReply, WorkerPcs
    <3>3. QED  BY <2>1, <3>1, <3>2
  <2>6. QED
    BY <1>3, <2>3, <2>4, <2>5 DEF TypeInv, TypeOK, DownTogether, StoreReply, loopVars
<1>4. CASE ReturnToNew(w)
  <2>1. PICK outcome \in Outcomes : WorkerCall(outcome) /\ SetStatus(held[w], "NEW", outcome)
    BY <1>4 DEF ReturnToNew
  <2>2. held[w] \in Orders
    BY <1>4 DEF TypeInv, TypeOK, Busy, ReturnToNew
  <2>3. /\ status' \in [Orders -> Statuses]
        /\ accrual' \in SUBSET Orders
        /\ credits' \in [Orders -> Nat]
    BY <2>1, <2>2, SetStatusType DEF TypeInv, TypeOK, Statuses
  <2>4. workerFaults' \in 0 .. MaxWorkerFaults
    BY <2>1, CallsCounted DEF TypeInv, TypeOK
  <2>5. QED
    BY <1>4, <2>3, <2>4 DEF TypeInv, TypeOK, DownTogether, Busy, ReturnToNew, Release,
                            WorkerPcs, NoOrder, loopVars
<1>5. CASE Report(w)
  BY <1>5 DEF TypeInv, TypeOK, DownTogether, Busy, Report, WorkerPcs, database, loopVars, bounds
<1>6. QED
  BY <1>1, <1>2, <1>3, <1>4, <1>5 DEF WorkerStep

\* The death of the process preserves the type invariant, and so does its restart.
LEMMA TypeCrash ==
    ASSUME TypeInv, Die \/ Restart
    PROVE  TypeInv'
<1>1. CASE Die
  BY <1>1, ConstantsAssumption DEF TypeInv, TypeOK, DownTogether, Busy, Die, ConstantsAssumption,
              LoopPcs, WorkerPcs, NoOrder, database
<1>2. CASE Restart
  BY <1>2 DEF TypeInv, TypeOK, DownTogether, Busy, Restart, LoopPcs, WorkerPcs, database, bounds
<1>3. QED  BY <1>1, <1>2

\* The strengthened type invariant holds in every state.
LEMMA TypeInvariant == Spec => []TypeInv
<1>1. Init => TypeInv
  BY ConstantsAssumption DEF ConstantsAssumption, Init, TypeInv, TypeOK, DownTogether, Busy,
     Statuses, LoopPcs, WorkerPcs, NoOrder
<1>2. TypeInv /\ [Next]_vars => TypeInv'
  BY TypeStutter, TypeEnvironment, TypeLoop, TypeWorker, TypeCrash DEF Next, Crash, Panic
<1>3. QED  BY <1>1, <1>2, PTL DEF Spec

(***************************************************************************)
(* The variables of the pipeline keep their types, the channel its         *)
(* capacity, and a worker has an order in hand exactly between receiving   *)
(* it and being done with it.                                              *)
(***************************************************************************)
THEOREM TypeCorrect == Spec => []TypeOK
<1>1. TypeInv => TypeOK
  BY DEF TypeInv
<1>2. QED  BY <1>1, TypeInvariant, PTL

------------------------------------------------------------------------------
(***************************************************************************)
(* Custody: the batch, the channel and the workers have disjoint sets of   *)
(* orders, and the rows of these orders say so.  The two invariants need   *)
(* each other: the poll takes NEW rows only, and it is because the rows of *)
(* all the orders on their way are not NEW that it takes no order twice.   *)
(***************************************************************************)
Custody == SingleCustody /\ StatusFollowsCustody

\* A step that touches no order on its way preserves custody.
LEMMA CustodyUntouched ==
    ASSUME TypeInv, Custody, UNCHANGED <<channel, loopPc, batch>>,
           \A w \in Workers :
               \/ workerPc'[w] \notin {"request", "store", "fallback"}
               \/ workerPc'[w] = workerPc[w] /\ held'[w] = held[w],
           \A o \in Orders : status[o] # "ABSENT" => status'[o] = status[o]
    PROVE  Custody'
<1>1. \A w \in Workers : Busy(w) => held[w] \in Orders
  BY DEF TypeInv, TypeOK, Busy
<1>2. /\ Queued \subseteq Orders
      /\ batch \subseteq Orders
  BY DEF TypeInv, TypeOK, Queued
<1>3. SingleCustody'
  BY DEF Custody, SingleCustody, Queued, Busy
<1>4. StatusFollowsCustody'
  BY <1>1, <1>2 DEF Custody, StatusFollowsCustody, Queued, Busy, Oldest
<1>5. QED  BY <1>3, <1>4 DEF Custody

(***************************************************************************)
(* A worker that sets the status of the order it holds disturbs no other   *)
(* custody: nobody else has that order.                                    *)
(***************************************************************************)
LEMMA CustodyOfWorker ==
    ASSUME TypeInv, Custody, UNCHANGED <<channel, loopPc, batch>>,
           NEW w \in Workers, Busy(w),
           \A v \in Workers \ {w} : workerPc'[v] = workerPc[v] /\ held'[v] = held[v],
           Busy(w)' => held'[w] = held[w],
           \A o \in Orders \ {held[w]} : status'[o] = status[o],
           workerPc'[w] \in {"request", "store"} => status'[held[w]] = "PROCESSING",
           workerPc'[w] = "fallback" => status'[held[w]] \notin {"ABSENT", "NEW"}
    PROVE  Custody'
<1>1. \A v \in Workers : Busy(v) => held[v] \in Orders
  BY DEF TypeInv, TypeOK, Busy
<1>2. /\ Queued \subseteq Orders
      /\ batch \subseteq Orders
  BY DEF TypeInv, TypeOK, Queued
<1>3. \A v \in Workers : Busy(v)' => Busy(v) /\ held'[v] = held[v]
  BY DEF Busy
<1>4. SingleCustody'
  BY <1>3 DEF Custody, SingleCustody, Queued
<1>5. held[w] \notin Queued \cup batch
  BY DEF Custody, SingleCustody
<1>6. \A v \in Workers \ {w} : Busy(v) => held[v] # held[w]
  BY DEF Custody, SingleCustody
<1>7. /\ \A o \in Queued' : status'[o] = "PROCESSING"
      /\ \A o \in batch' :
            status'[o] = IF loopPc' = "send" /\ Oldest(o)' THEN "PROCESSING" ELSE "NEW"
  BY <1>2, <1>5 DEF Custody, StatusFollowsCustody, Queued, Oldest
<1>8. \A v \in Workers :
        /\ workerPc'[v] \in {"request", "store"} => status'[held'[v]] = "PROCESSING"
        /\ workerPc'[v] = "fallback" => status'[held'[v]] \notin {"ABSENT", "NEW"}
  <2>1. TAKE v \in Workers
  <2>2. CASE v = w
    BY <2>2 DEF Busy
  <2>3. CASE v # w
    BY <2>3, <1>1, <1>6 DEF Custody, StatusFollowsCustody, Busy
  <2>4. QED  BY <2>2, <2>3
<1>9. QED  BY <1>4, <1>7, <1>8 DEF Custody, StatusFollowsCustody

\* Polling preserves custody: it takes orders that nobody has.
LEMMA CustodyPoll ==
    ASSUME TypeInv, Custody, GetOrdersForProcessing
    PROVE  Custody'
<1>1. /\ UNCHANGED <<status, channel, workerPc, held>>
      /\ \A o \in batch' : status[o] = "NEW"
      /\ loopPc' # "send"
  BY DEF GetOrdersForProcessing, ReadByStatus, NewOrders, database, workerVars
<1>2. \A o \in batch' : o \notin Queued /\ \A w \in Workers : Busy(w) => held[w] # o
  BY <1>1 DEF Custody, StatusFollowsCustody, Busy
<1>3. SingleCustody'
  BY <1>1, <1>2 DEF Custody, SingleCustody, Queued, Busy
<1>4. StatusFollowsCustody'
  BY <1>1 DEF Custody, StatusFollowsCustody, Queued, Busy
<1>5. QED  BY <1>3, <1>4 DEF Custody

\* Marking the oldest order of the batch changes a row that nobody else has.
LEMMA CustodyMark ==
    ASSUME TypeInv, Custody, MarkProcessing
    PROVE  Custody'
<1>1. PICK o \in Orders, outcome \in Outcomes :
        /\ Oldest(o)
        /\ SetStatus(o, "PROCESSING", outcome)
        /\ IF outcome = "ok"
           THEN loopPc' = "send" /\ UNCHANGED batch
           ELSE loopPc' = "stopped" /\ batch' = {}
  BY DEF MarkProcessing
<1>2. UNCHANGED <<channel, workerPc, held>>
  BY DEF MarkProcessing, workerVars
<1>3. /\ o \in batch
      /\ o \notin Queued
      /\ \A w \in Workers : Busy(w) => held[w] # o
  BY <1>1 DEF Oldest, Custody, SingleCustody
<1>4. /\ \A p \in Orders \ {o} : status'[p] = status[p]
      /\ outcome = "ok" => status'[o] = "PROCESSING"
  BY <1>1 DEF SetStatus, TypeInv, TypeOK
<1>5. /\ Queued \subseteq Orders
      /\ batch \subseteq Orders
      /\ \A w \in Workers : Busy(w) => held[w] \in Orders
  BY DEF TypeInv, TypeOK, Queued, Busy
<1>6. SingleCustody'
  BY <1>1, <1>2 DEF Custody, SingleCustody, Queued, Busy
<1>7. /\ \A p \in Queued' : status'[p] = "PROCESSING"
      /\ \A w \in Workers :
            /\ workerPc'[w] \in {"request", "store"} => status'[held'[w]] = "PROCESSING"
            /\ workerPc'[w] = "fallback" => status'[held'[w]] \notin {"ABSENT", "NEW"}
  BY <1>2, <1>3, <1>4, <1>5 DEF Custody, StatusFollowsCustody, Queued, Busy
<1>8. \A p \in batch' :
        status'[p] = IF loopPc' = "send" /\ Oldest(p)' THEN "PROCESSING" ELSE "NEW"
  <2>1. SUFFICES ASSUME outcome = "ok", NEW p \in batch
                 PROVE  status'[p] = IF Oldest(p) THEN "PROCESSING" ELSE "NEW"
    BY <1>1 DEF Oldest
  <2>2. status[p] = "NEW"
    BY DEF MarkProcessing, Custody, StatusFollowsCustody
  <2>3. Oldest(p) <=> p = o
    BY <1>1, <1>5 DEF Oldest, Orders
  <2>4. QED  BY <1>4, <1>5, <2>1, <2>2, <2>3
<1>9. QED  BY <1>6, <1>7, <1>8 DEF Custody, StatusFollowsCustody

\* The orders on the channel after a send and after a receipt.
LEMMA QueuedAppend ==
    ASSUME channel \in Seq(Orders), NEW o \in Orders, channel' = Append(channel, o)
    PROVE  /\ Queued' = Queued \cup {o}
           /\ Len(channel') = Len(channel) + 1
           /\ \A i \in 1 .. Len(channel) : channel'[i] = channel[i]
           /\ channel'[Len(channel) + 1] = o
  BY DEF Queued

LEMMA QueuedTail ==
    ASSUME channel \in Seq(Orders), channel # <<>>, channel' = Tail(channel)
    PROVE  /\ Len(channel') = Len(channel) - 1
           /\ Len(channel) >= 1
           /\ Head(channel) = channel[1]
           /\ \A i \in 1 .. Len(channel') : channel'[i] = channel[i + 1]
           /\ Head(channel) \in Queued
           /\ Queued' \subseteq Queued
  BY DEF Queued

\* The rest of the batch, once the loop has sent its oldest order.
LEMMA CustodyAdvance ==
    ASSUME TypeInv, Custody, NEW o \in Orders, loopPc = "send", Oldest(o), AdvanceBatch(o)
    PROVE  /\ batch' = batch \ {o}
           /\ loopPc' # "send"
           /\ \A p \in batch' : status[p] = "NEW"
           /\ status[o] = "PROCESSING"
           /\ o \notin Queued
           /\ \A w \in Workers : Busy(w) => held[w] # o
<1>1. \A p \in batch : Oldest(p) <=> p = o
  BY DEF Oldest, Orders, TypeInv, TypeOK
<1>2. QED
  BY <1>1 DEF AdvanceBatch, Oldest, Custody, SingleCustody, StatusFollowsCustody

\* Sending the marked order moves it from the batch to the channel.
LEMMA CustodySend ==
    ASSUME TypeInv, Custody, NEW o \in Orders, SendOrder(o)
    PROVE  Custody'
<1>1. /\ UNCHANGED <<status, workerPc, held>>
      /\ channel \in Seq(Orders)
      /\ channel' = Append(channel, o)
  BY DEF SendOrder, database, workerVars, TypeInv, TypeOK
<1>2. /\ batch' = batch \ {o}
      /\ loopPc' # "send"
      /\ \A p \in batch' : status[p] = "NEW"
      /\ status[o] = "PROCESSING"
      /\ o \notin Queued
      /\ \A w \in Workers : Busy(w) => held[w] # o
  BY CustodyAdvance DEF SendOrder
<1>3. /\ Queued' = Queued \cup {o}
      /\ Len(channel') = Len(channel) + 1
      /\ \A i \in 1 .. Len(channel) : channel'[i] = channel[i]
      /\ channel'[Len(channel) + 1] = o
  BY <1>1, QueuedAppend
<1>4. \A i, j \in 1 .. Len(channel') : channel'[i] = channel'[j] => i = j
  <2>1. \A i \in 1 .. Len(channel) : channel[i] # o
    BY <1>2 DEF Queued
  <2>2. Len(channel) \in Nat
    BY <1>1
  <2>3. QED  BY <1>3, <2>1, <2>2 DEF Custody, SingleCustody
<1>5. SingleCustody'
  BY <1>1, <1>2, <1>3, <1>4 DEF Custody, SingleCustody, Busy
<1>6. StatusFollowsCustody'
  BY <1>1, <1>2, <1>3 DEF Custody, StatusFollowsCustody
<1>7. QED  BY <1>5, <1>6 DEF Custody

\* So does handing it over, from the batch to the worker.
LEMMA CustodyHandOver ==
    ASSUME TypeInv, Custody, NEW o \in Orders, NEW w \in Workers, HandOver(o, w)
    PROVE  Custody'
<1>1. /\ UNCHANGED <<status, channel>>
      /\ workerPc' = [workerPc EXCEPT ![w] = "request"]
      /\ held' = [held EXCEPT ![w] = o]
      /\ ~Busy(w)
  BY DEF HandOver, database, Busy
<1>2. /\ batch' = batch \ {o}
      /\ loopPc' # "send"
      /\ \A p \in batch' : status[p] = "NEW"
      /\ status[o] = "PROCESSING"
      /\ o \notin Queued
      /\ \A v \in Workers : Busy(v) => held[v] # o
  BY CustodyAdvance DEF HandOver
<1>3. /\ held'[w] = o /\ workerPc'[w] = "request"
      /\ \A v \in Workers \ {w} : workerPc'[v] = workerPc[v] /\ held'[v] = held[v]
  BY <1>1 DEF TypeInv, TypeOK
<1>4. SingleCustody'
  BY <1>1, <1>2, <1>3 DEF Custody, SingleCustody, Queued, Busy
<1>5. StatusFollowsCustody'
  BY <1>1, <1>2, <1>3 DEF Custody, StatusFollowsCustody, Queued
<1>6. QED  BY <1>4, <1>5 DEF Custody

\* Receiving moves the first order of the channel to the worker.
LEMMA CustodyReceive ==
    ASSUME TypeInv, Custody, NEW w \in Workers, ReceiveOrder(w)
    PROVE  Custody'
<1>1. /\ UNCHANGED <<status, loopPc, batch>>
      /\ workerPc' = [workerPc EXCEPT ![w] = "request"]
      /\ held' = [held EXCEPT ![w] = Head(channel)]
      /\ ~Busy(w)
  BY DEF ReceiveOrder, database, loopVars, Busy
<1>2. /\ Len(channel') = Len(channel) - 1
      /\ Len(channel) >= 1
      /\ Len(channel) \in Nat
      /\ Head(channel) = channel[1]
      /\ \A i \in 1 .. Len(channel') : channel'[i] = channel[i + 1]
      /\ Head(channel) \in Queued
      /\ Queued' \subseteq Queued
  BY QueuedTail DEF ReceiveOrder, TypeInv, TypeOK
<1>3. /\ held'[w] = Head(channel) /\ workerPc'[w] = "request"
      /\ \A v \in Workers \ {w} : workerPc'[v] = workerPc[v] /\ held'[v] = held[v]
  BY <1>1 DEF TypeInv, TypeOK
<1>4. /\ \A i, j \in 1 .. Len(channel') : channel'[i] = channel'[j] => i = j
      /\ Head(channel) \notin Queued'
  BY <1>2 DEF Custody, SingleCustody, Queued
<1>5. /\ \A v \in Workers : Busy(v) => held[v] # Head(channel)
      /\ Head(channel) \notin batch
      /\ status[Head(channel)] = "PROCESSING"
  BY <1>2 DEF Custody, SingleCustody, StatusFollowsCustody
<1>6. SingleCustody'
  BY <1>1, <1>2, <1>3, <1>4, <1>5 DEF Custody, SingleCustody, Busy
<1>7. StatusFollowsCustody'
  BY <1>1, <1>2, <1>3, <1>5 DEF Custody, StatusFollowsCustody, Oldest
<1>8. QED  BY <1>6, <1>7 DEF Custody

\* The answer changes no row; the worker keeps its order or lets go of it.
LEMMA CustodyGetOrder ==
    ASSUME TypeInv, Custody, NEW w \in Workers, GetOrder(w)
    PROVE  Custody'
<1>1. /\ UNCHANGED <<status, channel, loopPc, batch>>
      /\ workerPc[w] = "request"
      /\ \A v \in Workers \ {w} : workerPc'[v] = workerPc[v] /\ held'[v] = held[v]
      /\ workerPc'[w] \in {"receive", "store"}
      /\ workerPc'[w] = "store" => held'[w] = held[w]
  BY DEF GetOrder, Release, TypeInv, TypeOK, database, loopVars
<1>2. status[held[w]] = "PROCESSING"
  BY <1>1 DEF Custody, StatusFollowsCustody
<1>3. QED  BY <1>1, <1>2, CustodyOfWorker DEF Busy

\* What storing an answer does to the rows and to the worker.
LEMMA StoreReplyEffect ==
    ASSUME TypeInv, NEW w \in Workers, StoreReply(w)
    PROVE  /\ UNCHANGED <<verdict, channel, loopPc, batch>>
           /\ workerPc[w] = "store"
           /\ held[w] \in Orders
           /\ \A v \in Workers \ {w} :
                workerPc'[v] = workerPc[v] /\ held'[v] = held[v] /\ reply'[v] = reply[v]
           /\ workerPc'[w] \in {"receive", "fallback", "failed"}
           /\ workerPc'[w] = "fallback" =>
                held'[w] = held[w] /\ reply'[w] = reply[w] /\ reply[w] \in Verdicts
           /\ \A o \in Orders \ {held[w]} : status'[o] = status[o]
           /\ status'[held[w]] = status[held[w]] \/
                status'[held[w]] = IF reply[w] = "PROCESSED" THEN "PROCESSED"
                                   ELSE StatusFor(reply[w])
<1>1. PICK outcome \in Outcomes :
        /\ \/ /\ reply[w] = "PROCESSED"
              /\ \/ PasteAccrual(held[w], outcome)
                 \/ DuplicateAccrual(held[w], outcome)
           \/ /\ reply[w] # "PROCESSED"
              /\ SetStatus(held[w], StatusFor(reply[w]), outcome)
        /\ \/ Release(w, "receive")
           \/ /\ reply[w] \in Verdicts
              /\ workerPc' = [workerPc EXCEPT ![w] = "fallback"]
              /\ UNCHANGED <<held, reply>>
           \/ Release(w, "failed")
  BY DEF StoreReply
<1>2. /\ UNCHANGED <<verdict, channel, loopPc, batch>>
      /\ workerPc[w] = "store"
  BY DEF StoreReply, loopVars
<1>3. held[w] \in Orders
  BY <1>2 DEF TypeInv, TypeOK, Busy
<1>4. /\ \A o \in Orders \ {held[w]} : status'[o] = status[o]
      /\ status'[held[w]] = status[held[w]] \/
           status'[held[w]] = IF reply[w] = "PROCESSED" THEN "PROCESSED"
                              ELSE StatusFor(reply[w])
  BY <1>1, <1>3 DEF SetStatus, PasteAccrual, DuplicateAccrual, database, TypeInv, TypeOK
<1>5. QED
  BY <1>1, <1>2, <1>3, <1>4 DEF Release, TypeInv, TypeOK

\* Storing the answer sets the row of the worker's own order, and never to NEW
\* when the worker keeps the order.
LEMMA CustodyStoreReply ==
    ASSUME TypeInv, Custody, NEW w \in Workers, StoreReply(w)
    PROVE  Custody'
<1>1. status[held[w]] = "PROCESSING"
  BY StoreReplyEffect DEF Custody, StatusFollowsCustody
<1>2. workerPc'[w] = "fallback" => status'[held[w]] \notin {"ABSENT", "NEW"}
  BY <1>1, StoreReplyEffect DEF StatusFor, Verdicts
<1>3. QED  BY <1>2, StoreReplyEffect, CustodyOfWorker DEF Busy

\* What returning an order to NEW does.
LEMMA ReturnToNewEffect ==
    ASSUME TypeInv, NEW w \in Workers, ReturnToNew(w)
    PROVE  /\ UNCHANGED <<accrual, credits, verdict, channel, loopPc, batch>>
           /\ workerPc[w] = "fallback"
           /\ held[w] \in Orders
           /\ \A v \in Workers \ {w} :
                workerPc'[v] = workerPc[v] /\ held'[v] = held[v] /\ reply'[v] = reply[v]
           /\ workerPc'[w] = "failed"
           /\ \A o \in Orders \ {held[w]} : status'[o] = status[o]
           /\ status'[held[w]] \in {status[held[w]], "NEW"}
<1>1. held[w] \in Orders
  BY DEF ReturnToNew, TypeInv, TypeOK, Busy
<1>2. QED
  BY <1>1 DEF ReturnToNew, SetStatus, Release, TypeInv, TypeOK, loopVars

\* Returning the order to NEW ends the worker's custody in the same step.
LEMMA CustodyReturnToNew ==
    ASSUME TypeInv, Custody, NEW w \in Workers, ReturnToNew(w)
    PROVE  Custody'
  BY ReturnToNewEffect, CustodyOfWorker DEF Busy

\* A process that dies leaves no order in custody.
LEMMA CustodyCrash ==
    ASSUME TypeInv, Custody, Die \/ Restart
    PROVE  Custody'
<1>1. CASE Die
  BY <1>1 DEF Die, Custody, SingleCustody, StatusFollowsCustody, Busy, Queued
<1>2. CASE Restart
  <2>1. /\ \A w \in Workers : workerPc'[w] = "receive"
        /\ batch = {}
    BY <1>2 DEF Restart, TypeInv, TypeOK
  <2>2. UNCHANGED <<status, batch, channel, held>>
    BY <1>2 DEF Restart, database
  <2>3. QED
    BY <2>1, <2>2 DEF Custody, SingleCustody, StatusFollowsCustody, Busy, Queued
<1>3. QED  BY <1>1, <1>2

\* Every step preserves custody.
LEMMA CustodyStep ==
    ASSUME TypeInv, Custody, [Next]_vars
    PROVE  Custody'
<1>1. ASSUME NEW o \in Orders, Upload(o)
      PROVE  Custody'
  BY <1>1, CustodyUntouched DEF Upload, loopVars, workerVars, TypeInv, TypeOK
<1>2. ASSUME NEW o \in Orders, Decide(o)
      PROVE  Custody'
  BY <1>2, CustodyUntouched DEF Decide, database, loopVars, workerVars
<1>3. ASSUME NEW w \in Workers, ReceiveError(w)
      PROVE  Custody'
  BY <1>3, CustodyUntouched DEF ReceiveError, database, loopVars, TypeInv, TypeOK
<1>4. CASE Default \/ Sleep
  BY <1>4 DEF Default, Sleep, database, workerVars, Custody, SingleCustody, StatusFollowsCustody,
              Busy, Queued
<1>5. CASE LoopStep
  BY <1>3, <1>4, <1>5, CustodyPoll, CustodyMark, CustodySend, CustodyHandOver DEF LoopStep
<1>6. ASSUME NEW w \in Workers, WorkerStep(w)
      PROVE  Custody'
  <2>1. CASE Report(w)
    BY <2>1, CustodyUntouched DEF Report, database, loopVars, TypeInv, TypeOK
  <2>2. QED
    BY <1>6, <2>1, CustodyReceive, CustodyGetOrder, CustodyStoreReply, CustodyReturnToNew
       DEF WorkerStep
<1>7. CASE UNCHANGED vars
  BY <1>7, CustodyUntouched DEF vars
<1>8. QED
  BY <1>1, <1>2, <1>5, <1>6, <1>7, CustodyCrash DEF Next, Crash, Panic

\* No order is on its way at the start.
LEMMA CustodyInit == Init => Custody
  BY DEF Init, Custody, SingleCustody, StatusFollowsCustody, Busy, Queued

(***************************************************************************)
(* An order in processing is in one place, and its row agrees with where   *)
(* it is: no lock is needed on an order, with any number of workers, with  *)
(* failed calls, lost answers, crashes and restarts.                       *)
(***************************************************************************)
THEOREM CustodyCorrect == Spec => [](SingleCustody /\ StatusFollowsCustody)
<1>1. TypeInv /\ Custody /\ [Next]_vars => Custody'
  BY CustodyStep
<1>2. Spec => []Custody
  BY <1>1, CustodyInit, TypeInvariant, PTL DEF Spec
<1>3. Custody => SingleCustody /\ StatusFollowsCustody
  BY DEF Custody
<1>4. QED  BY <1>2, <1>3, PTL

(***************************************************************************)
(* Nobody changes the status of an order behind the back of the batch, the *)
(* channel or the worker that has it: a queued order is PROCESSING in the  *)
(* table, and so is the one a worker asks about or is about to store.      *)
(***************************************************************************)
THEOREM StatusFollowsCustodyCorrect == Spec => []StatusFollowsCustody
BY CustodyCorrect, PTL

------------------------------------------------------------------------------
(***************************************************************************)
(* Rewards.                                                                *)
(***************************************************************************)

\* What a step may do to the rows of accrual and to the credits: a worker that
\* stores PROCESSED credits its order, if it has no accrual; other steps do nothing.
LEMMA CreditSteps ==
    ASSUME TypeInv, [Next]_vars
    PROVE  \/ UNCHANGED <<accrual, credits>>
           \/ \E w \in Workers :
                /\ StoreReply(w)
                /\ reply[w] = "PROCESSED"
                /\ held[w] \in Orders \ accrual
                /\ status' = [status EXCEPT ![held[w]] = "PROCESSED"]
                /\ accrual' = accrual \cup {held[w]}
                /\ credits' = [credits EXCEPT ![held[w]] = @ + 1]
<1>1. ASSUME NEW w \in Workers, StoreReply(w)
      PROVE  \/ UNCHANGED <<accrual, credits>>
             \/ /\ reply[w] = "PROCESSED"
                /\ held[w] \in Orders \ accrual
                /\ status' = [status EXCEPT ![held[w]] = "PROCESSED"]
                /\ accrual' = accrual \cup {held[w]}
                /\ credits' = [credits EXCEPT ![held[w]] = @ + 1]
  <2>1. held[w] \in Orders
    BY <1>1, StoreReplyEffect
  <2>2. QED
    BY <1>1, <2>1 DEF StoreReply, PasteAccrual, DuplicateAccrual, SetStatus, database
<1>2. ASSUME NEW w \in Workers, WorkerStep(w), ~StoreReply(w)
      PROVE  UNCHANGED <<accrual, credits>>
  BY <1>2 DEF WorkerStep, ReceiveOrder, GetOrder, Report, ReturnToNew, SetStatus, database
<1>3. ASSUME LoopStep
      PROVE  UNCHANGED <<accrual, credits>>
  BY <1>3 DEF LoopStep, ReceiveError, Default, GetOrdersForProcessing, MarkProcessing, SetStatus,
              SendOrder, HandOver, Sleep, database
<1>4. ASSUME NEW o \in Orders, Upload(o) \/ Decide(o)
      PROVE  UNCHANGED <<accrual, credits>>
  BY <1>4 DEF Upload, Decide, database
<1>5. ASSUME Die \/ Restart \/ UNCHANGED vars
      PROVE  UNCHANGED <<accrual, credits>>
  BY <1>5 DEF Die, Restart, database, vars
<1>6. QED
  BY <1>1, <1>2, <1>3, <1>4, <1>5 DEF Next, Crash, Panic

\* A verdict, once made, does not change, and only the accrual system makes one.
LEMMA VerdictSteps ==
    ASSUME TypeInv, [Next]_vars
    PROVE  \/ UNCHANGED verdict
           \/ \E o \in Orders : Decide(o)
  BY DEF Next, Upload, LoopStep, ReceiveError, Default, GetOrdersForProcessing, MarkProcessing,
         SendOrder, HandOver, Sleep, WorkerStep, ReceiveOrder, GetOrder, Report, StoreReply,
         ReturnToNew, Crash, Panic, Die, Restart, vars

LEMMA VerdictStays ==
    ASSUME TypeInv, [Next]_vars, NEW o \in Orders, verdict[o] # "PENDING"
    PROVE  verdict'[o] = verdict[o]
  BY VerdictSteps DEF Decide, TypeInv, TypeOK

\* A step in which nobody comes to store an answer preserves StoresTheVerdict.
LEMMA StoresKept ==
    ASSUME TypeInv, StoresTheVerdict, [Next]_vars,
           \A w \in Workers : workerPc'[w] \in {"store", "fallback"} =>
               /\ workerPc[w] \in {"store", "fallback"}
               /\ held'[w] = held[w]
               /\ reply'[w] = reply[w]
    PROVE  StoresTheVerdict'
<1>1. SUFFICES ASSUME NEW w \in Workers, workerPc'[w] \in {"store", "fallback"}
               PROVE  /\ reply[w] \notin {"NONE", "REGISTERED", "NO_RETRY_AFTER"}
                      /\ reply[w] \in Verdicts => verdict'[held[w]] = reply[w]
  BY DEF StoresTheVerdict
<1>2. /\ reply[w] \notin {"NONE", "REGISTERED", "NO_RETRY_AFTER"}
      /\ reply[w] \in Verdicts => verdict[held[w]] = reply[w]
      /\ held[w] \in Orders
  BY <1>1 DEF StoresTheVerdict, TypeInv, TypeOK, Busy
<1>3. QED  BY <1>2, VerdictStays DEF Verdicts

\* GetOrder returns the verdict on the order it asks about, or none.
LEMMA StoresAnswer ==
    ASSUME TypeInv, StoresTheVerdict, NEW w \in Workers, GetOrder(w)
    PROVE  StoresTheVerdict'
<1>1. /\ held[w] \in Orders
      /\ UNCHANGED verdict
      /\ workerPc[w] = "request"
  BY DEF GetOrder, TypeInv, TypeOK, Busy
<1>2. PICK r \in PossibleReplies(held[w]) \ {"NO_RETRY_AFTER"} :
        IF r = "REGISTERED"
        THEN Release(w, "receive")
        ELSE /\ workerPc' = [workerPc EXCEPT ![w] = "store"]
             /\ reply' = [reply EXCEPT ![w] = r]
             /\ UNCHANGED held
  BY DEF GetOrder
<1>3. r \in Verdicts => verdict[held[w]] = r
  BY <1>2 DEF PossibleReplies, Verdicts, PendingReplies, FailedReplies
<1>4. r # "NONE"
  BY <1>1, <1>2 DEF PossibleReplies, Verdicts, PendingReplies, FailedReplies, TypeInv, TypeOK
<1>5. QED
  BY <1>1, <1>2, <1>3, <1>4 DEF StoresTheVerdict, Release, TypeInv, TypeOK

\* Every step preserves StoresTheVerdict.
LEMMA StoresStep ==
    ASSUME TypeInv, StoresTheVerdict, [Next]_vars
    PROVE  StoresTheVerdict'
<1>1. ASSUME NEW w \in Workers, ReceiveOrder(w) \/ StoreReply(w) \/ ReturnToNew(w) \/ Report(w)
      PROVE  StoresTheVerdict'
  <2>1. \A v \in Workers : workerPc'[v] \in {"store", "fallback"} =>
            /\ workerPc[v] \in {"store", "fallback"}
            /\ held'[v] = held[v]
            /\ reply'[v] = reply[v]
    <3>1. CASE ReceiveOrder(w) \/ Report(w)
      BY <3>1 DEF ReceiveOrder, Report, TypeInv, TypeOK
    <3>2. CASE StoreReply(w)
      BY <3>2, StoreReplyEffect
    <3>3. CASE ReturnToNew(w)
      BY <3>3, ReturnToNewEffect
    <3>4. QED  BY <1>1, <3>1, <3>2, <3>3
  <2>2. QED  BY <2>1, StoresKept
<1>2. ASSUME LoopStep \/ UNCHANGED vars \/ Die \/ Restart
             \/ \E o \in Orders : Upload(o) \/ Decide(o)
      PROVE  StoresTheVerdict'
  <2>1. \A v \in Workers : workerPc'[v] \in {"store", "fallback"} =>
            /\ workerPc[v] \in {"store", "fallback"}
            /\ held'[v] = held[v]
            /\ reply'[v] = reply[v]
    BY <1>2 DEF LoopStep, ReceiveError, Default, GetOrdersForProcessing, MarkProcessing,
                SendOrder, HandOver, Sleep, Upload, Decide, Die, Restart, workerVars, vars,
                TypeInv, TypeOK
  <2>2. QED  BY <2>1, StoresKept
<1>3. QED
  BY <1>1, <1>2, StoresAnswer DEF Next, WorkerStep, Crash, Panic

(***************************************************************************)
(* A worker that is about to store a verdict, or failed to, has the        *)
(* accrual system's verdict on the order it holds.                         *)
(***************************************************************************)
THEOREM StoresTheVerdictCorrect == Spec => []StoresTheVerdict
<1>1. Init => StoresTheVerdict
  BY DEF Init, StoresTheVerdict
<1>2. TypeInv /\ StoresTheVerdict /\ [Next]_vars => StoresTheVerdict'
  BY StoresStep
<1>3. QED  BY <1>1, <1>2, TypeInvariant, PTL DEF Spec

\* Every step preserves CreditedOnce.
LEMMA CreditedOnceStep ==
    ASSUME TypeInv, CreditedOnce, [Next]_vars
    PROVE  CreditedOnce'
  BY CreditSteps DEF CreditedOnce, TypeInv, TypeOK

(***************************************************************************)
(* The points of an order are credited at most once, together with its     *)
(* accrual row, for any number of workers, failures, lost answers and      *)
(* crashes, and although an order may be processed many times.             *)
(***************************************************************************)
THEOREM CreditedOnceCorrect == Spec => []CreditedOnce
<1>1. Init => CreditedOnce
  BY DEF Init, CreditedOnce
<1>2. TypeInv /\ CreditedOnce /\ [Next]_vars => CreditedOnce'
  BY CreditedOnceStep
<1>3. QED  BY <1>1, <1>2, TypeInvariant, PTL DEF Spec

\* A step that makes an order PROCESSED is the one that credits it.
LEMMA BecomesProcessed ==
    ASSUME TypeInv, [Next]_vars, NEW o \in Orders,
           status[o] # "PROCESSED", status'[o] = "PROCESSED"
    PROVE  o \in accrual' /\ \E w \in Workers : StoreReply(w) /\ reply[w] = "PROCESSED" /\ held[w] = o
<1>1. ASSUME NEW w \in Workers, StoreReply(w)
      PROVE  o \in accrual' /\ reply[w] = "PROCESSED" /\ held[w] = o
  BY <1>1, StoreReplyEffect
     DEF StoreReply, PasteAccrual, DuplicateAccrual, SetStatus, StatusFor, database
<1>2. ASSUME NEW w \in Workers, ReturnToNew(w)
      PROVE  FALSE
  BY <1>2, ReturnToNewEffect
<1>3. \/ LoopStep \/ Die \/ Restart \/ UNCHANGED vars
      \/ \E w \in Workers : ReceiveOrder(w) \/ GetOrder(w) \/ Report(w)
      \/ \E p \in Orders : Upload(p) \/ Decide(p)
      => FALSE
  BY DEF LoopStep, ReceiveError, Default, GetOrdersForProcessing, MarkProcessing, SetStatus,
         SendOrder, HandOver, Sleep, Die, Restart, ReceiveOrder, GetOrder, Report, Upload,
         Decide, database, vars, TypeInv, TypeOK
<1>4. QED
  BY <1>1, <1>2, <1>3 DEF Next, WorkerStep, Crash, Panic

(***************************************************************************)
(* What is PROCESSED, or has an accrual, has the verdict PROCESSED and its *)
(* points.                                                                 *)
(***************************************************************************)
AccrualInv ==
    /\ \A o \in accrual : verdict[o] = "PROCESSED"
    /\ \A o \in Orders : status[o] = "PROCESSED" => o \in accrual

\* Every step preserves it.
LEMMA AccrualStep ==
    ASSUME TypeInv, StoresTheVerdict, AccrualInv, [Next]_vars
    PROVE  AccrualInv'
<1>1. accrual \subseteq Orders
  BY DEF TypeInv, TypeOK
<1>2. \A o \in (Orders \cap accrual') \ accrual : verdict[o] = "PROCESSED"
  <2>1. ASSUME NEW w \in Workers, StoreReply(w), reply[w] = "PROCESSED"
        PROVE  verdict[held[w]] = "PROCESSED"
    BY <2>1 DEF StoreReply, StoresTheVerdict, Verdicts
  <2>2. QED  BY <2>1, CreditSteps
<1>3. accrual \subseteq accrual' /\ accrual' \subseteq Orders
  BY <1>1, CreditSteps
<1>4. \A o \in accrual' : verdict'[o] = "PROCESSED"
  BY <1>2, <1>3, VerdictStays DEF AccrualInv
<1>5. \A o \in Orders : status'[o] = "PROCESSED" => o \in accrual'
  BY <1>3, BecomesProcessed DEF AccrualInv
<1>6. QED  BY <1>4, <1>5 DEF AccrualInv

LEMMA AccrualInvariant == Spec => []AccrualInv
<1>1. Init => AccrualInv
  BY DEF Init, AccrualInv
<1>2. TypeInv /\ StoresTheVerdict /\ AccrualInv /\ [Next]_vars => AccrualInv'
  BY AccrualStep
<1>3. QED  BY <1>1, <1>2, TypeInvariant, StoresTheVerdictCorrect, PTL DEF Spec

(***************************************************************************)
(* A client that sees PROCESSED has the points of the order, and the       *)
(* accrual system granted them.                                            *)
(***************************************************************************)
THEOREM ProcessedIsCreditedCorrect == Spec => []ProcessedIsCredited
<1>1. CreditedOnce /\ AccrualInv => ProcessedIsCredited
  BY DEF CreditedOnce, AccrualInv, ProcessedIsCredited
<1>2. QED  BY <1>1, CreditedOnceCorrect, AccrualInvariant, PTL

------------------------------------------------------------------------------
(***************************************************************************)
(* The history of an order's status.                                       *)
(***************************************************************************)

\* Who changes the status of an order, and from what.
LEMMA StatusSteps ==
    ASSUME TypeInv, Custody, [Next]_vars, NEW o \in Orders, status'[o] # status[o]
    PROVE  \/ Upload(o) /\ status[o] = "ABSENT" /\ status'[o] = "NEW"
           \/ status[o] = "NEW" /\ status'[o] = "PROCESSING"
           \/ status[o] = "PROCESSING" /\ status'[o] \in {"NEW", "PROCESSED", "INVALID"}
           \/ /\ status'[o] = "NEW"
              /\ \E w \in Workers : workerPc[w] = "fallback" /\ held[w] = o
<1>1. ASSUME NEW p \in Orders, Upload(p)
      PROVE  Upload(o) /\ status[o] = "ABSENT" /\ status'[o] = "NEW"
  <2>1. p = o
    BY <1>1 DEF Upload, TypeInv, TypeOK
  <2>2. QED  BY <1>1, <2>1 DEF Upload, TypeInv, TypeOK
<1>2. ASSUME MarkProcessing
      PROVE  status[o] = "NEW" /\ status'[o] = "PROCESSING"
  <2>1. PICK p \in Orders, outcome \in Outcomes :
          Oldest(p) /\ SetStatus(p, "PROCESSING", outcome)
    BY <1>2 DEF MarkProcessing
  <2>2. p = o /\ status'[o] = "PROCESSING"
    BY <2>1 DEF SetStatus, TypeInv, TypeOK
  <2>3. status[o] = "NEW"
    BY <1>2, <2>1, <2>2 DEF MarkProcessing, Oldest, Custody, StatusFollowsCustody
  <2>4. QED  BY <2>2, <2>3
<1>3. ASSUME NEW w \in Workers, StoreReply(w)
      PROVE  status[o] = "PROCESSING" /\ status'[o] \in {"NEW", "PROCESSED", "INVALID"}
  <2>1. held[w] = o /\ status'[o] \in {"NEW", "PROCESSED", "INVALID"}
    BY <1>3, StoreReplyEffect DEF StatusFor
  <2>2. status[o] = "PROCESSING"
    BY <1>3, <2>1 DEF StoreReply, Custody, StatusFollowsCustody
  <2>3. QED  BY <2>1, <2>2
<1>4. ASSUME NEW w \in Workers, ReturnToNew(w)
      PROVE  status'[o] = "NEW" /\ workerPc[w] = "fallback" /\ held[w] = o
  BY <1>4, ReturnToNewEffect
<1>5. \/ LoopStep /\ ~MarkProcessing
      \/ Die \/ Restart \/ UNCHANGED vars
      \/ \E w \in Workers : ReceiveOrder(w) \/ GetOrder(w) \/ Report(w)
      \/ \E p \in Orders : Decide(p)
      => FALSE
  BY DEF LoopStep, ReceiveError, Default, GetOrdersForProcessing, SendOrder, HandOver, Sleep,
         Die, Restart, ReceiveOrder, GetOrder, Report, Decide, database, vars
<1>6. QED
  BY <1>1, <1>2, <1>3, <1>4, <1>5 DEF Next, LoopStep, WorkerStep, Crash, Panic

\* Only an upload makes a row.
LEMMA AbsentStays ==
    ASSUME TypeInv, Custody, [Next]_vars, NEW o \in Orders, status[o] = "ABSENT", ~Upload(o)
    PROVE  status'[o] = "ABSENT"
  BY StatusSteps DEF Custody, StatusFollowsCustody

(***************************************************************************)
(* The loop marks PROCESSING only rows that are NEW when it does, however  *)
(* long ago it read them.                                                  *)
(***************************************************************************)
THEOREM MarksOnlyNewCorrect == Spec => MarksOnlyNew
<1>1. TypeInv /\ Custody /\ [Next]_vars =>
        [\A o \in Orders : status'[o] = "PROCESSING" => status[o] \in {"NEW", "PROCESSING"}]_vars
  BY StatusSteps
<1>2. Custody <=> SingleCustody /\ StatusFollowsCustody
  BY DEF Custody
<1>3. QED  BY <1>1, <1>2, TypeInvariant, CustodyCorrect, PTL DEF Spec, MarksOnlyNew

(***************************************************************************)
(* Unless an answer of the database was lost, an order a worker failed to  *)
(* store is still PROCESSING when the worker returns it to NEW.            *)
(***************************************************************************)
FallbackIsProcessing ==
    \A w \in Workers : workerPc[w] = "fallback" => status[held[w]] = "PROCESSING" \/ LostAnswer

\* A fault that happened is never forgotten.
LEMMA FaultsAreCounted ==
    ASSUME TypeInv, [Next]_vars, LostAnswer
    PROVE  LostAnswer'
<1>1. workerFaults \in Nat
  BY ConstantsAssumption DEF TypeInv, TypeOK, ConstantsAssumption
<1>2. workerFaults' = workerFaults \/ workerFaults' = workerFaults + 1
  <2>1. ASSUME NEW w \in Workers, StoreReply(w) \/ ReturnToNew(w)
        PROVE  workerFaults' = workerFaults \/ workerFaults' = workerFaults + 1
    BY <2>1 DEF StoreReply, DuplicateAccrual, ReturnToNew, WorkerCall
  <2>2. ASSUME NEW w \in Workers, ReceiveOrder(w) \/ GetOrder(w) \/ Report(w)
        PROVE  UNCHANGED workerFaults
    BY <2>2 DEF ReceiveOrder, GetOrder, Report, bounds
  <2>3. ASSUME LoopStep
        PROVE  UNCHANGED workerFaults
    BY <2>3 DEF LoopStep, ReceiveError, Default, GetOrdersForProcessing, MarkProcessing,
                SendOrder, HandOver, Sleep, bounds
  <2>4. QED
    BY <2>1, <2>2, <2>3 DEF Next, WorkerStep, Upload, Decide, Crash, Panic, Die, Restart,
                            bounds, vars
<1>3. QED  BY <1>1, <1>2 DEF LostAnswer

LEMMA FallbackStep ==
    ASSUME TypeInv, Custody, FallbackIsProcessing, [Next]_vars
    PROVE  FallbackIsProcessing'
<1>1. SUFFICES ASSUME NEW w \in Workers, workerPc'[w] = "fallback", ~LostAnswer, ~LostAnswer'
               PROVE  status'[held'[w]] = "PROCESSING"
  BY FaultsAreCounted DEF FallbackIsProcessing
<1>2. CASE StoreReply(w)
  <2>1. /\ workerPc[w] = "store"
        /\ held'[w] = held[w]
        /\ status[held[w]] = "PROCESSING"
    BY <1>1, <1>2, StoreReplyEffect DEF Custody, StatusFollowsCustody
  <2>2. status' = status
    <3>1. PICK outcome \in Outcomes :
          /\ \/ PasteAccrual(held[w], outcome) /\ WorkerCall(outcome)
             \/ DuplicateAccrual(held[w], outcome)
             \/ SetStatus(held[w], StatusFor(reply[w]), outcome) /\ WorkerCall(outcome)
          /\ outcome = "ok" => Release(w, "receive")
      BY <1>2 DEF StoreReply
    <3>2. outcome # "ok"
      BY <1>1, <3>1 DEF Release, TypeInv, TypeOK
    <3>3. outcome = "failed"
      <4>1. SUFFICES ASSUME outcome = "unknown"
                     PROVE  FALSE
        BY <3>2 DEF Outcomes
      <4>2. /\ "unknown" \in FaultKinds
            /\ workerFaults' = workerFaults + 1
        BY <3>1, <4>1 DEF WorkerCall, DuplicateAccrual
      <4>3. QED
        BY <1>1, <4>2, ConstantsAssumption DEF LostAnswer, TypeInv, TypeOK, ConstantsAssumption
    <3>4. QED  BY <3>1, <3>3 DEF PasteAccrual, DuplicateAccrual, SetStatus, database
  <2>3. QED  BY <2>1, <2>2
<1>3. CASE ~StoreReply(w)
  <2>1. workerPc[w] = "fallback" /\ held'[w] = held[w]
    <3>1. ASSUME NEW v \in Workers, StoreReply(v)
          PROVE  workerPc[w] = "fallback" /\ held'[w] = held[w]
      BY <1>1, <1>3, <3>1, StoreReplyEffect
    <3>2. ASSUME NEW v \in Workers, ReturnToNew(v)
          PROVE  workerPc[w] = "fallback" /\ held'[w] = held[w]
      BY <1>1, <3>2, ReturnToNewEffect
    <3>3. ASSUME NEW v \in Workers, ReceiveOrder(v) \/ GetOrder(v) \/ Report(v)
          PROVE  workerPc[w] = "fallback" /\ held'[w] = held[w]
      BY <1>1, <3>3 DEF ReceiveOrder, GetOrder, Report, Release, TypeInv, TypeOK
    <3>4. LoopStep \/ Die \/ Restart \/ UNCHANGED vars \/ (\E o \in Orders : Upload(o) \/ Decide(o))
            => workerPc[w] = "fallback" /\ held'[w] = held[w]
      BY <1>1 DEF LoopStep, ReceiveError, Default, GetOrdersForProcessing, MarkProcessing,
                  SendOrder, HandOver, Sleep, Upload, Decide, Die, Restart, workerVars, vars,
                  TypeInv, TypeOK
    <3>5. QED  BY <3>1, <3>2, <3>3, <3>4 DEF Next, WorkerStep, Crash, Panic
  <2>2. held[w] \in Orders /\ status[held[w]] = "PROCESSING"
    BY <1>1, <2>1 DEF FallbackIsProcessing, TypeInv, TypeOK, Busy
  <2>3. ASSUME status'[held[w]] # "PROCESSING"
        PROVE  FALSE
    <3>1. ASSUME NEW v \in Workers, StoreReply(v) \/ ReturnToNew(v)
          PROVE  held[v] = held[w] /\ v # w
      BY <1>1, <1>3, <2>2, <2>3, <3>1, StoreReplyEffect, ReturnToNewEffect
    <3>2. \A v \in Workers : Busy(v) /\ v # w => held[v] # held[w]
      BY <2>1 DEF Custody, SingleCustody, Busy
    <3>3. \A v \in Workers : ~StoreReply(v) /\ ~ReturnToNew(v)
      BY <3>1, <3>2 DEF StoreReply, ReturnToNew, Busy
    <3>4. \/ LoopStep \/ Die \/ Restart \/ UNCHANGED vars
          \/ \E v \in Workers : ReceiveOrder(v) \/ GetOrder(v) \/ Report(v)
          \/ \E p \in Orders : Upload(p) \/ Decide(p)
          => status'[held[w]] = "PROCESSING"
      BY <2>2 DEF LoopStep, ReceiveError, Default, GetOrdersForProcessing, MarkProcessing,
             SetStatus, SendOrder, HandOver, Sleep, Die, Restart, ReceiveOrder, GetOrder,
             Report, Upload, Decide, database, vars, TypeInv, TypeOK
    <3>5. QED  BY <2>3, <3>3, <3>4 DEF Next, WorkerStep, Crash, Panic
  <2>4. QED  BY <2>1, <2>3
<1>4. QED  BY <1>2, <1>3

(***************************************************************************)
(* PROCESSED and INVALID are final, unless an answer of the database is    *)
(* lost: a worker returns to NEW only what it failed to store.             *)
(***************************************************************************)
THEOREM FinalStatusSticksCorrect == Spec => FinalStatusSticks
<1>1. Init => FallbackIsProcessing
  BY DEF Init, FallbackIsProcessing
<1>2. TypeInv /\ Custody /\ FallbackIsProcessing /\ [Next]_vars => FallbackIsProcessing'
  BY FallbackStep
<1>3. TypeInv /\ Custody /\ FallbackIsProcessing /\ [Next]_vars =>
        [\A o \in Orders : status[o] \in Verdicts /\ status'[o] # status[o] =>
            /\ LostAnswer
            /\ \E w \in Workers : workerPc[w] = "fallback" /\ held[w] = o]_vars
  BY StatusSteps DEF FallbackIsProcessing, Verdicts
<1>4. Custody <=> SingleCustody /\ StatusFollowsCustody
  BY DEF Custody
<1>5. QED
  BY <1>1, <1>2, <1>3, <1>4, TypeInvariant, CustodyCorrect, PTL DEF Spec, FinalStatusSticks

------------------------------------------------------------------------------
(***************************************************************************)
(* A forgotten order is forgotten for ever.                                *)
(***************************************************************************)

\* No worker comes to hold an order but from the channel or from the batch.
LEMMA ForgottenNotTaken ==
    ASSUME TypeInv, [Next]_vars, NEW o \in Orders, Forgotten(o)
    PROVE  \A w \in Workers : held'[w] # o
<1>1. ASSUME NEW w \in Workers, ReceiveOrder(w)
      PROVE  \A v \in Workers : held'[v] # o
  <2>1. Head(channel) # o
    BY <1>1, QueuedTail DEF ReceiveOrder, Forgotten, TypeInv, TypeOK
  <2>2. QED  BY <1>1, <2>1 DEF ReceiveOrder, Forgotten, TypeInv, TypeOK
<1>2. ASSUME NEW p \in Orders, NEW w \in Workers, HandOver(p, w)
      PROVE  \A v \in Workers : held'[v] # o
  BY <1>2 DEF HandOver, Oldest, Forgotten, TypeInv, TypeOK
<1>3. ASSUME NEW w \in Workers, GetOrder(w)
      PROVE  \A v \in Workers : held'[v] # o
  BY <1>3 DEF GetOrder, Release, Forgotten, TypeInv, TypeOK, Orders, NoOrder
<1>4. ASSUME NEW w \in Workers, StoreReply(w) \/ ReturnToNew(w)
      PROVE  \A v \in Workers : held'[v] # o
  BY <1>4 DEF StoreReply, ReturnToNew, Release, Forgotten, TypeInv, TypeOK, Orders, NoOrder
<1>5. ASSUME Die
      PROVE  \A v \in Workers : held'[v] # o
  BY <1>5 DEF Die, Orders, NoOrder
<1>6. \/ LoopStep /\ ~(\E p \in Orders, w \in Workers : HandOver(p, w))
      \/ Restart \/ UNCHANGED vars
      \/ \E w \in Workers : Report(w)
      \/ \E p \in Orders : Upload(p) \/ Decide(p)
      => held' = held
  BY DEF LoopStep, ReceiveError, Default, GetOrdersForProcessing, MarkProcessing, SendOrder,
         Sleep, Restart, Report, Upload, Decide, workerVars, vars
<1>7. QED
  BY <1>1, <1>2, <1>3, <1>4, <1>5, <1>6 DEF Forgotten, Next, LoopStep, WorkerStep, Crash, Panic

\* The poll reads rows that are NEW, and the channel is filled from the batch.
LEMMA ForgottenNotSent ==
    ASSUME TypeInv, [Next]_vars, NEW o \in Orders, Forgotten(o)
    PROVE  o \notin batch' \cup Queued'
<1>1. CASE GetOrdersForProcessing
  BY <1>1 DEF GetOrdersForProcessing, ReadByStatus, NewOrders, Forgotten, Queued
<1>2. ASSUME NEW p \in Orders, SendOrder(p)
      PROVE  o \notin batch' \cup Queued'
  <2>1. Queued' = Queued \cup {p}
    BY <1>2, QueuedAppend DEF SendOrder, TypeInv, TypeOK
  <2>2. QED  BY <1>2, <2>1 DEF SendOrder, AdvanceBatch, Oldest, Forgotten
<1>3. ASSUME NEW w \in Workers, ReceiveOrder(w)
      PROVE  o \notin batch' \cup Queued'
  <2>1. Queued' \subseteq Queued
    BY <1>3, QueuedTail DEF ReceiveOrder, TypeInv, TypeOK
  <2>2. QED  BY <1>3, <2>1 DEF ReceiveOrder, loopVars, Forgotten
<1>4. CASE Die
  BY <1>4 DEF Die, Queued
<1>5. ASSUME NEW p \in Orders, NEW w \in Workers, HandOver(p, w)
      PROVE  o \notin batch' \cup Queued'
  BY <1>5 DEF HandOver, AdvanceBatch, Forgotten, Queued
<1>6. CASE MarkProcessing
  BY <1>6 DEF MarkProcessing, Forgotten, Queued
<1>7. ASSUME \/ Default \/ Sleep \/ Restart \/ UNCHANGED vars
             \/ \E w \in Workers : ReceiveError(w) \/ GetOrder(w) \/ StoreReply(w)
                                  \/ ReturnToNew(w) \/ Report(w)
             \/ \E p \in Orders : Upload(p) \/ Decide(p)
      PROVE  o \notin batch' \cup Queued'
  <2>1. UNCHANGED <<batch, channel>>
    BY <1>7 DEF Default, Sleep, Restart, ReceiveError, GetOrder, StoreReply, ReturnToNew, Report,
                Upload, Decide, loopVars, workerVars, vars
  <2>2. QED  BY <2>1 DEF Forgotten, Queued
<1>8. QED
  BY <1>1, <1>2, <1>3, <1>4, <1>5, <1>6, <1>7 DEF Next, LoopStep, WorkerStep, Crash, Panic

\* Only a worker that holds an order takes its row out of PROCESSING.
LEMMA ForgottenStep ==
    ASSUME TypeInv, Custody, [Next]_vars, NEW o \in Orders, Forgotten(o)
    PROVE  Forgotten(o)' /\ credits'[o] = credits[o]
<1>1. \A w \in Workers : held[w] # o
  BY DEF Forgotten
<1>2. \A w \in Workers : ~StoreReply(w) \/ status'[o] = status[o]
  BY <1>1, StoreReplyEffect
<1>3. \A w \in Workers : ~ReturnToNew(w) \/ status'[o] = status[o]
  BY <1>1, ReturnToNewEffect
<1>4. ASSUME status'[o] # "PROCESSING"
      PROVE  FALSE
  <2>1. \A w \in Workers : ~StoreReply(w) /\ ~ReturnToNew(w)
    BY <1>2, <1>3, <1>4 DEF Forgotten
  <2>2. \/ LoopStep \/ Die \/ Restart \/ UNCHANGED vars
        \/ \E w \in Workers : ReceiveOrder(w) \/ GetOrder(w) \/ Report(w)
        \/ \E p \in Orders : Upload(p) \/ Decide(p)
        => status'[o] = "PROCESSING"
    BY DEF LoopStep, ReceiveError, Default, GetOrdersForProcessing, MarkProcessing, SetStatus,
           SendOrder, HandOver, Sleep, Die, Restart, ReceiveOrder, GetOrder, Report, Upload,
           Decide, database, vars, TypeInv, TypeOK, Forgotten
  <2>3. QED  BY <1>4, <2>1, <2>2 DEF Next, WorkerStep, Crash, Panic
<1>5. credits'[o] = credits[o]
  BY <1>1, CreditSteps DEF TypeInv, TypeOK
<1>6. Forgotten(o)'
  BY <1>4, ForgottenNotTaken, ForgottenNotSent DEF Forgotten
<1>7. QED  BY <1>5, <1>6

(***************************************************************************)
(* An order whose row is PROCESSING while nobody has it in hand stays so,  *)
(* and its owner's points stay what they were, whatever the accrual system *)
(* answers and however often the process is restarted: WorkerLoop polls    *)
(* NEW rows only, at its start as well.  It is why a REGISTERED answer, or *)
(* a death of the process, loses an order and not only delays it.          *)
(***************************************************************************)
THEOREM ForgottenForEver ==
    ASSUME NEW o \in Orders, NEW points
    PROVE  Spec => [](Forgotten(o) /\ credits[o] = points
                        => [](Forgotten(o) /\ credits[o] = points))
<1> DEFINE Lost == Forgotten(o) /\ credits[o] = points
<1>1. TypeInv /\ Custody /\ Lost /\ [Next]_vars => Lost'
  BY ForgottenStep
<1>2. Custody <=> SingleCustody /\ StatusFollowsCustody
  BY DEF Custody
<1> HIDE DEF Lost
<1>3. Spec => [](Lost => []Lost)
  BY <1>1, <1>2, TypeInvariant, CustodyCorrect, PTL DEF Spec
<1>4. QED  BY <1>3 DEF Lost

------------------------------------------------------------------------------
(***************************************************************************)
(* What it takes to forget an order.                                       *)
(***************************************************************************)
Failed == loopFaults + workerFaults + crashes > 0

InHand(o) == o \in batch \cup Queued \/ \E w \in Workers : held[w] = o

\* The row of an order that nobody has in hand is not PROCESSING.
NoneForgotten == \A o \in Orders : status[o] = "PROCESSING" => InHand(o)

\* The counters of what failed only grow.
LEMMA FailuresCounted ==
    ASSUME TypeInv, [Next]_vars
    PROVE  /\ loopFaults \in Nat /\ workerFaults \in Nat /\ crashes \in Nat
           /\ loopFaults' \in Nat /\ workerFaults' \in Nat /\ crashes' \in Nat
           /\ loopFaults' >= loopFaults /\ workerFaults' >= workerFaults /\ crashes' >= crashes
<1>1. loopFaults \in Nat /\ workerFaults \in Nat /\ crashes \in Nat
  BY ConstantsAssumption DEF TypeInv, TypeOK, ConstantsAssumption
<1>2. loopFaults' = loopFaults \/ loopFaults' = loopFaults + 1
  <2>1. ASSUME LoopStep
        PROVE  loopFaults' = loopFaults \/ loopFaults' = loopFaults + 1
    BY <2>1 DEF LoopStep, ReceiveError, Default, GetOrdersForProcessing, MarkProcessing,
                LoopCall, SendOrder, HandOver, Sleep, bounds
  <2>2. ~LoopStep => UNCHANGED loopFaults
    BY DEF Next, WorkerStep, ReceiveOrder, GetOrder, Report, StoreReply, ReturnToNew, Upload,
           Decide, Crash, Panic, Die, Restart, bounds, vars
  <2>3. QED  BY <2>1, <2>2
<1>3. workerFaults' = workerFaults \/ workerFaults' = workerFaults + 1
  <2>1. ASSUME NEW w \in Workers, StoreReply(w) \/ ReturnToNew(w)
        PROVE  workerFaults' = workerFaults \/ workerFaults' = workerFaults + 1
    BY <2>1 DEF StoreReply, DuplicateAccrual, ReturnToNew, WorkerCall
  <2>2. (\A w \in Workers : ~StoreReply(w) /\ ~ReturnToNew(w)) => UNCHANGED workerFaults
    BY DEF Next, LoopStep, ReceiveError, Default, GetOrdersForProcessing, MarkProcessing,
           SendOrder, HandOver, Sleep, WorkerStep, ReceiveOrder, GetOrder, Report, Upload,
           Decide, Crash, Panic, Die, Restart, bounds, vars
  <2>3. QED  BY <2>1, <2>2
<1>4. crashes' = crashes \/ crashes' = crashes + 1
  <2>1. Die => crashes' = crashes + 1
    BY DEF Die
  <2>2. ~Die => UNCHANGED crashes
    BY DEF Next, LoopStep, ReceiveError, Default, GetOrdersForProcessing, MarkProcessing,
           SendOrder, HandOver, Sleep, WorkerStep, ReceiveOrder, GetOrder, Report, StoreReply,
           ReturnToNew, Upload, Decide, Crash, Panic, Restart, bounds, vars
  <2>3. QED  BY <2>1, <2>2
<1>5. QED  BY <1>1, <1>2, <1>3, <1>4

\* A worker that lets go of an order has set its row, if no call failed and the
\* answer was not REGISTERED.
LEMMA LetsGo ==
    ASSUME TypeInv, NoneForgotten, NEW w \in Workers, GetOrder(w) \/ StoreReply(w) \/ ReturnToNew(w),
           "REGISTERED" \notin Replies, UNCHANGED workerFaults,
           NEW o \in Orders, status'[o] = "PROCESSING"
    PROVE  InHand(o)'
<1>1. UNCHANGED <<batch, channel>> /\ held[w] \in Orders /\ Busy(w) /\ workerFaults \in Nat
  BY ConstantsAssumption DEF GetOrder, StoreReply, ReturnToNew, loopVars, TypeInv, TypeOK, Busy,
                             ConstantsAssumption
<1>2. CASE GetOrder(w)
  <2>1. UNCHANGED <<held, status>>
    BY <1>2 DEF GetOrder, PossibleReplies, database
  <2>2. QED  BY <1>1, <2>1 DEF NoneForgotten, InHand, Queued
<1>3. ASSUME StoreReply(w) \/ ReturnToNew(w), o # held[w]
      PROVE  InHand(o)'
  <2>1. status'[o] = status[o]
    BY <1>3, StoreReplyEffect, ReturnToNewEffect
  <2>2. \A v \in Workers : held[v] = o => held'[v] = o
    <3>1. \A v \in Workers \ {w} : held'[v] = held[v]
      BY <1>3, StoreReplyEffect, ReturnToNewEffect
    <3>2. QED  BY <1>3, <3>1
  <2>3. QED  BY <1>1, <2>1, <2>2 DEF NoneForgotten, InHand, Queued
<1>4. ASSUME StoreReply(w), o = held[w]
      PROVE  InHand(o)'
  <2>1. PICK outcome \in Outcomes :
        /\ \/ /\ reply[w] = "PROCESSED"
              /\ \/ PasteAccrual(held[w], outcome) /\ WorkerCall(outcome)
                 \/ DuplicateAccrual(held[w], outcome)
           \/ /\ reply[w] # "PROCESSED"
              /\ SetStatus(held[w], StatusFor(reply[w]), outcome)
              /\ WorkerCall(outcome)
        /\ IF outcome = "ok" THEN Release(w, "receive")
           ELSE IF reply[w] \in Verdicts
           THEN /\ workerPc' = [workerPc EXCEPT ![w] = "fallback"]
                /\ UNCHANGED <<held, reply>>
           ELSE Release(w, "failed")
    BY <1>4 DEF StoreReply
  <2>2. CASE UNCHANGED held
    BY <1>4, <2>2 DEF InHand
  <2>3. CASE outcome = "ok"
    <3>1. status' = [status EXCEPT ![o] = IF reply[w] = "PROCESSED" THEN "PROCESSED"
                                          ELSE StatusFor(reply[w])]
      BY <1>4, <2>1, <2>3 DEF SetStatus, PasteAccrual, DuplicateAccrual
    <3>2. status'[o] # "PROCESSING"
      BY <3>1 DEF StatusFor, TypeInv, TypeOK
    <3>3. QED  BY <3>2
  <2>4. CASE outcome # "ok" /\ reply[w] \notin Verdicts
    <3>1. WorkerCall(outcome)
      BY <2>1, <2>4 DEF Verdicts
    <3>2. workerFaults' = workerFaults + 1
      BY <3>1, <2>4 DEF WorkerCall
    <3>3. QED  BY <1>1, <3>2
  <2>5. QED  BY <2>1, <2>2, <2>3, <2>4
<1>5. ASSUME ReturnToNew(w), o = held[w]
      PROVE  InHand(o)'
  <2>1. PICK outcome \in Outcomes : WorkerCall(outcome) /\ SetStatus(held[w], "NEW", outcome)
    BY <1>5 DEF ReturnToNew
  <2>2. outcome = "ok"
    BY <1>1, <2>1 DEF WorkerCall
  <2>3. status'[o] = "NEW"
    BY <1>5, <2>1, <2>2 DEF SetStatus, TypeInv, TypeOK
  <2>4. QED  BY <2>3
<1>6. QED  BY <1>2, <1>3, <1>4, <1>5

\* The loop and a receiving worker pass an order on, if no call fails.
LEMMA PassedOn ==
    ASSUME TypeInv, NoneForgotten, LoopStep \/ \E w \in Workers : ReceiveOrder(w),
           UNCHANGED loopFaults, NEW o \in Orders, status'[o] = "PROCESSING"
    PROVE  InHand(o)'
<1>1. CASE MarkProcessing
  <2>1. PICK p \in Orders, outcome \in Outcomes :
          /\ Oldest(p) /\ LoopCall(outcome) /\ SetStatus(p, "PROCESSING", outcome)
          /\ outcome = "ok" => UNCHANGED batch
    BY <1>1 DEF MarkProcessing
  <2>2. outcome = "ok" /\ UNCHANGED <<batch, channel, held>>
    BY <1>1, <2>1, ConstantsAssumption
       DEF MarkProcessing, LoopCall, TypeInv, TypeOK, ConstantsAssumption, workerVars
  <2>3. o = p \/ status[o] = "PROCESSING"
    BY <2>1 DEF SetStatus, TypeInv, TypeOK
  <2>4. QED  BY <2>1, <2>2, <2>3 DEF NoneForgotten, InHand, Queued, Oldest
<1>2. CASE GetOrdersForProcessing
  <2>1. batch = {} /\ UNCHANGED <<channel, held, status>>
    BY <1>2 DEF GetOrdersForProcessing, TypeInv, TypeOK, workerVars, database
  <2>2. QED  BY <2>1 DEF NoneForgotten, InHand, Queued
<1>3. ASSUME NEW p \in Orders, SendOrder(p)
      PROVE  InHand(o)'
  <2>1. Queued' = Queued \cup {p}
    BY <1>3, QueuedAppend DEF SendOrder, TypeInv, TypeOK
  <2>2. batch' = batch \ {p} /\ UNCHANGED <<held, status>>
    BY <1>3 DEF SendOrder, AdvanceBatch, workerVars, database
  <2>3. QED  BY <2>1, <2>2 DEF NoneForgotten, InHand
<1>4. ASSUME NEW p \in Orders, NEW w \in Workers, HandOver(p, w)
      PROVE  InHand(o)'
  <2>1. /\ batch' = batch \ {p} /\ UNCHANGED <<channel, status>>
        /\ held' = [held EXCEPT ![w] = p] /\ held[w] = NoOrder
    BY <1>4 DEF HandOver, AdvanceBatch, database, TypeInv, TypeOK, Busy
  <2>2. held'[w] = p /\ \A v \in Workers : held[v] = o => held'[v] = o
    BY <2>1 DEF TypeInv, TypeOK, Orders, NoOrder
  <2>3. QED  BY <2>1, <2>2 DEF NoneForgotten, InHand, Queued
<1>5. ASSUME NEW w \in Workers, ReceiveOrder(w)
      PROVE  InHand(o)'
  <2>1. /\ UNCHANGED <<batch, status>> /\ held' = [held EXCEPT ![w] = Head(channel)]
        /\ held[w] = NoOrder
    BY <1>5 DEF ReceiveOrder, database, loopVars, TypeInv, TypeOK, Busy
  <2>2. held'[w] = Head(channel) /\ \A v \in Workers : held[v] = o => held'[v] = o
    BY <2>1 DEF TypeInv, TypeOK, Orders, NoOrder
  <2>3. Queued \subseteq Queued' \cup {Head(channel)}
    <3>1. channel \in Seq(Orders) /\ channel # <<>> /\ channel' = Tail(channel)
      BY <1>5 DEF ReceiveOrder, TypeInv, TypeOK
    <3>2. SUFFICES ASSUME NEW i \in 1 .. Len(channel), i # 1
                   PROVE  channel[i] \in Queued'
      BY <3>1 DEF Queued
    <3>3. i - 1 \in 1 .. Len(channel') /\ channel'[i - 1] = channel[i]
      BY <3>1, <3>2
    <3>4. QED  BY <3>3 DEF Queued
  <2>4. QED  BY <2>1, <2>2, <2>3 DEF NoneForgotten, InHand
<1>6. ASSUME Default \/ Sleep \/ \E w \in Workers : ReceiveError(w)
      PROVE  InHand(o)'
  <2>1. UNCHANGED <<batch, channel, held, status>>
    BY <1>6 DEF Default, Sleep, ReceiveError, database, loopVars, workerVars
  <2>2. QED  BY <2>1 DEF NoneForgotten, InHand, Queued
<1>7. QED  BY <1>1, <1>2, <1>3, <1>4, <1>5, <1>6 DEF LoopStep

\* Every step without a failure keeps the orders in processing in hand.
LEMMA NoneForgottenStep ==
    ASSUME "REGISTERED" \notin Replies, TypeInv, Failed \/ NoneForgotten, [Next]_vars
    PROVE  (Failed \/ NoneForgotten)'
<1>1. SUFFICES ASSUME NoneForgotten, ~Failed', NEW o \in Orders, status'[o] = "PROCESSING"
               PROVE  InHand(o)'
  BY FailuresCounted DEF Failed, NoneForgotten
<1>2. UNCHANGED <<loopFaults, workerFaults, crashes>>
  BY <1>1, FailuresCounted DEF Failed
<1>3. ~Die
  BY <1>2, FailuresCounted DEF Die
<1>4. CASE LoopStep \/ \E w \in Workers : ReceiveOrder(w)
  BY <1>1, <1>2, <1>4, PassedOn
<1>5. CASE \E w \in Workers : GetOrder(w) \/ StoreReply(w) \/ ReturnToNew(w)
  BY <1>1, <1>2, <1>5, LetsGo
<1>6. CASE \/ Restart \/ UNCHANGED vars
           \/ \E w \in Workers : Report(w)
           \/ \E p \in Orders : Upload(p) \/ Decide(p)
  <2>1. UNCHANGED <<batch, channel, held>> /\ status[o] = "PROCESSING"
    BY <1>1, <1>6 DEF Restart, Report, Upload, Decide, database, loopVars, workerVars, vars,
                      TypeInv, TypeOK
  <2>2. QED  BY <1>1, <2>1 DEF NoneForgotten, InHand, Queued
<1>7. QED
  BY <1>3, <1>4, <1>5, <1>6 DEF Next, WorkerStep, Crash, Panic

(***************************************************************************)
(* An order is forgotten only for one of two reasons: the accrual system   *)
(* may answer REGISTERED, or a call to the database has failed or the      *)
(* process has died, and then Orphaned counts it.  Nothing else, no error  *)
(* of the accrual system, full channel or second accrual, loses an order.  *)
(***************************************************************************)
THEOREM ForgottenIsOrphaned ==
    ASSUME "REGISTERED" \notin Replies
    PROVE  Spec => [](\A o \in Orders : Forgotten(o) => Orphaned(o))
<1>1. Init => Failed \/ NoneForgotten
  BY DEF Init, NoneForgotten
<1>2. TypeInv /\ (Failed \/ NoneForgotten) /\ [Next]_vars => (Failed \/ NoneForgotten)'
  BY NoneForgottenStep
<1>3. Failed \/ NoneForgotten => \A o \in Orders : Forgotten(o) => Orphaned(o)
  BY DEF Failed, NoneForgotten, InHand, Forgotten, Orphaned
<1>4. QED  BY <1>1, <1>2, <1>3, TypeInvariant, PTL DEF Spec

------------------------------------------------------------------------------
(***************************************************************************)
(* The loop that waits for room on the channel.                            *)
(***************************************************************************)
InProcessing == {o \in Orders : status[o] = "PROCESSING"}

\* The order the loop sends is the oldest of what is left of its batch.
SendsOldest == loopPc = "send" => \E o \in Orders : Oldest(o)

\* Every step preserves SendsOldest.
LEMMA SendsOldestStep ==
    ASSUME TypeInv, SendsOldest, [Next]_vars
    PROVE  SendsOldest'
<1>1. CASE MarkProcessing
  BY <1>1 DEF MarkProcessing, SendsOldest, Oldest
<1>2. CASE GetOrdersForProcessing
  BY <1>2 DEF GetOrdersForProcessing, SendsOldest
<1>3. ASSUME NEW o \in Orders, SendOrder(o) \/ \E w \in Workers : HandOver(o, w)
      PROVE  SendsOldest'
  BY <1>3 DEF SendOrder, HandOver, AdvanceBatch, SendsOldest
<1>4. CASE Default \/ Sleep \/ Die \/ Restart
  BY <1>4 DEF Default, Sleep, Die, Restart, SendsOldest
<1>5. ASSUME \/ UNCHANGED vars
             \/ \E w \in Workers : ReceiveError(w) \/ WorkerStep(w)
             \/ \E o \in Orders : Upload(o) \/ Decide(o)
      PROVE  SendsOldest'
  <2>1. UNCHANGED <<loopPc, batch>>
    BY <1>5 DEF ReceiveError, WorkerStep, ReceiveOrder, GetOrder, Report, StoreReply,
                ReturnToNew, Upload, Decide, loopVars, vars
  <2>2. QED  BY <2>1 DEF SendsOldest, Oldest
<1>6. QED
  BY <1>1, <1>2, <1>3, <1>4, <1>5 DEF Next, LoopStep, Crash, Panic

LEMMA SendsOldestCorrect == Spec => []SendsOldest
<1>1. Init => SendsOldest
  BY DEF Init, SendsOldest
<1>2. TypeInv /\ SendsOldest /\ [Next]_vars => SendsOldest'
  BY SendsOldestStep
<1>3. QED  BY <1>1, <1>2, TypeInvariant, PTL DEF Spec

\* The order to be sent and those on the channel are different orders in processing.
LEMMA SentAndQueued ==
    ASSUME TypeInv, Custody, SendsOldest, loopPc = "send"
    PROVE  /\ Len(channel) < Cardinality(InProcessing)
           /\ Cardinality(InProcessing) <= MaxOrders
<1>1. PICK o \in Orders : Oldest(o)
  BY DEF SendsOldest
<1>2. o \in InProcessing \ Queued
  BY <1>1 DEF Oldest, InProcessing, Custody, SingleCustody, StatusFollowsCustody
<1>3. /\ IsFiniteSet(InProcessing)
      /\ Cardinality(InProcessing) \in Nat
      /\ Cardinality(InProcessing) <= MaxOrders
  <2>1. IsFiniteSet(Orders) /\ Cardinality(Orders) = MaxOrders
    BY ConstantsAssumption, FS_Interval DEF ConstantsAssumption, Orders
  <2>2. InProcessing \in SUBSET Orders
    BY DEF InProcessing
  <2>3. QED  BY <2>1, <2>2, FS_Subset, FS_CardinalityType
<1> DEFINE Others == InProcessing \ {o}
           Places == 1 .. Len(channel)
<1>4. IsFiniteSet(Others) /\ Cardinality(Others) = Cardinality(InProcessing) - 1
  BY <1>2, <1>3, FS_RemoveElement
<1>5. Len(channel) \in Nat /\ DOMAIN channel = Places /\ channel = [i \in Places |-> channel[i]]
  BY DEF TypeInv, TypeOK
<1>6. \A i \in Places : channel[i] \in Others
  BY <1>2 DEF Queued, Custody, StatusFollowsCustody, InProcessing, TypeInv, TypeOK
<1>7. channel \in Injection(Places, Others)
  BY <1>5, <1>6 DEF Injection, IsInjective, Custody, SingleCustody
<1>8. Cardinality(Places) = Len(channel)
  <2>1. Len(channel) \in Nat
    BY <1>5
  <2>2. Cardinality(1 .. Len(channel)) = IF 1 > Len(channel) THEN 0 ELSE Len(channel) - 1 + 1
    BY <2>1, FS_Interval
  <2>3. QED  BY <2>1, <2>2
<1>9. Cardinality(Places) <= Cardinality(Others)
  <2> HIDE DEF Others, Places
  <2>1. QED  BY <1>4, <1>7, FS_Injection
<1>10. QED  BY <1>3, <1>4, <1>5, <1>8, <1>9

(***************************************************************************)
(* When WorkerLoop waits for room on ordersChannel, the table has more     *)
(* orders PROCESSING than the channel has places: the number of orders     *)
(* under way at a time is what a full channel, and the circular wait that  *)
(* may follow, depends on.                                                 *)
(***************************************************************************)
THEOREM FullChannelTakesOrders ==
    Spec => [](loopPc = "send" /\ ~(Len(channel) < BufferSize)
                 => Cardinality(InProcessing) > BufferSize)
<1>1. TypeInv /\ Custody /\ SendsOldest =>
        (loopPc = "send" /\ ~(Len(channel) < BufferSize) => Cardinality(InProcessing) > BufferSize)
  <2>1. SUFFICES ASSUME TypeInv, Custody, SendsOldest, loopPc = "send", ~(Len(channel) < BufferSize)
                 PROVE  Cardinality(InProcessing) > BufferSize
    OBVIOUS
  <2>2. Len(channel) = BufferSize
    BY <2>1, ConstantsAssumption DEF TypeInv, TypeOK, ConstantsAssumption
  <2>3. QED  BY <2>1, <2>2, SentAndQueued
<1>2. Custody <=> SingleCustody /\ StatusFollowsCustody
  BY DEF Custody
<1>3. QED  BY <1>1, <1>2, TypeInvariant, CustodyCorrect, SendsOldestCorrect, PTL

(***************************************************************************)
(* A channel with a place for every order there is never makes WorkerLoop  *)
(* wait, so that it always comes back to read errorsChannel: the circular  *)
(* wait takes more orders than DefaultChannelsBufferSize.                  *)
(***************************************************************************)
THEOREM SendFindsRoom ==
    ASSUME BufferSize >= MaxOrders
    PROVE  Spec => [](loopPc = "send" => Len(channel) < BufferSize)
<1>1. TypeInv /\ Custody /\ SendsOldest => (loopPc = "send" => Len(channel) < BufferSize)
  <2>1. SUFFICES ASSUME TypeInv, Custody, SendsOldest, loopPc = "send"
                 PROVE  Len(channel) < BufferSize
    OBVIOUS
  <2>2. /\ Len(channel) \in Nat
        /\ Cardinality(InProcessing) \in Nat
    <3>1. IsFiniteSet(Orders) /\ InProcessing \in SUBSET Orders
      BY ConstantsAssumption, FS_Interval DEF ConstantsAssumption, Orders, InProcessing
    <3>2. QED  BY <2>1, <3>1, FS_Subset, FS_CardinalityType DEF TypeInv, TypeOK
  <2>3. QED  BY <2>1, <2>2, SentAndQueued, ConstantsAssumption DEF ConstantsAssumption
<1>2. Custody <=> SingleCustody /\ StatusFollowsCustody
  BY DEF Custody
<1>3. QED  BY <1>1, <1>2, TypeInvariant, CustodyCorrect, SendsOldestCorrect, PTL

(***************************************************************************)
(* The loop waits for room on the channel that only a Worker makes, and    *)
(* every Worker waits to report an error that only the loop reads.         *)
(***************************************************************************)
CircularWait ==
    /\ loopPc = "send"
    /\ Len(channel) = BufferSize
    /\ \A w \in Workers : Reporting(w)

(***************************************************************************)
(* A circular wait lasts until the process dies: meanwhile no order moves, *)
(* whatever is uploaded and whatever the accrual system decides.           *)
(***************************************************************************)
THEOREM CircularWaitIsForEver ==
    Spec => [][CircularWait /\ loopPc' # "down" =>
                 /\ CircularWait'
                 /\ UNCHANGED <<batch, channel, held, accrual, credits>>
                 /\ \A o \in Orders : status[o] # "ABSENT" => status'[o] = status[o]]_vars
<1>1. ASSUME TypeInv, CircularWait, [Next]_vars, loopPc' # "down"
      PROVE  /\ CircularWait'
             /\ UNCHANGED <<batch, channel, held, accrual, credits>>
             /\ \A o \in Orders : status[o] # "ABSENT" => status'[o] = status[o]
  <2>1. ~LoopStep
    BY <1>1, ConstantsAssumption
       DEF LoopStep, CircularWait, Reporting, ReceiveError, Default, GetOrdersForProcessing,
           MarkProcessing, SendOrder, HandOver, Sleep, ConstantsAssumption
  <2>2. \A w \in Workers : ~WorkerStep(w)
    BY <1>1 DEF CircularWait, Reporting, WorkerStep, ReceiveOrder, GetOrder, Report, StoreReply,
                ReturnToNew
  <2>3. ~Die /\ ~Restart
    BY <1>1 DEF Die, Restart, CircularWait
  <2>4. (\E o \in Orders : Upload(o) \/ Decide(o)) \/ UNCHANGED vars
    BY <1>1, <2>1, <2>2, <2>3 DEF Next, Crash, Panic
  <2>5. QED
    BY <1>1, <2>4 DEF Upload, Decide, CircularWait, Reporting, database, loopVars, workerVars,
                      vars, TypeInv, TypeOK
<1>2. TypeInv /\ [Next]_vars =>
        [CircularWait /\ loopPc' # "down" =>
            /\ CircularWait'
            /\ UNCHANGED <<batch, channel, held, accrual, credits>>
            /\ \A o \in Orders : status[o] # "ABSENT" => status'[o] = status[o]]_vars
  BY <1>1
<1>3. QED  BY <1>2, TypeInvariant, PTL DEF Spec

------------------------------------------------------------------------------
(***************************************************************************)
(* The pipeline implements RewardOnce.                                     *)
(***************************************************************************)

\* The start of the pipeline is the start of the promise.
LEMMA RewardInit == Init => Reward!Init
  BY DEF Init, Reward!Init

\* Every step of the pipeline is a step of the promise, or changes nothing there.
LEMMA RewardStep ==
    ASSUME TypeInv, Custody, StoresTheVerdict, CreditedOnce, [Next]_vars
    PROVE  [Reward!Next]_(Reward!vars)
<1> DEFINE Accepted == {o \in Orders : status[o] # "ABSENT"}
           Granted == {o \in Orders : verdict[o] = "PROCESSED"}
<1>1. ASSUME NEW o \in Orders, Upload(o)
      PROVE  Reward!Accept(o)
  BY <1>1 DEF Upload, Reward!Accept, TypeInv, TypeOK
<1>2. ASSUME NEW o \in Orders, Decide(o)
      PROVE  Reward!Grant(o) \/ UNCHANGED <<Accepted, Granted, credits>>
  <2>1. /\ UNCHANGED <<status, credits>>
        /\ o \in Accepted \ Granted
        /\ verdict' = [verdict EXCEPT ![o] = "PROCESSED"]
             \/ verdict' = [verdict EXCEPT ![o] = "INVALID"]
    BY <1>2 DEF Decide, Verdicts, database
  <2>2. CASE verdict' = [verdict EXCEPT ![o] = "PROCESSED"]
    BY <2>1, <2>2 DEF Reward!Grant, TypeInv, TypeOK
  <2>3. CASE verdict' = [verdict EXCEPT ![o] = "INVALID"]
    BY <2>1, <2>3 DEF TypeInv, TypeOK
  <2>4. QED  BY <2>1, <2>2, <2>3
<1>3. ASSUME NEW w \in Workers, StoreReply(w), reply[w] = "PROCESSED",
             held[w] \in Orders \ accrual,
             status' = [status EXCEPT ![held[w]] = "PROCESSED"],
             credits' = [credits EXCEPT ![held[w]] = @ + 1]
      PROVE  Reward!Credit(held[w])
  <2>1. held[w] \in Granted /\ credits[held[w]] = 0
    BY <1>3 DEF StoreReply, StoresTheVerdict, Verdicts, CreditedOnce
  <2>2. UNCHANGED verdict /\ status[held[w]] = "PROCESSING"
    BY <1>3 DEF StoreReply, Custody, StatusFollowsCustody
  <2>3. Accepted' = Accepted
    BY <1>3, <2>2 DEF TypeInv, TypeOK
  <2>4. QED
    BY <1>3, <2>1, <2>2, <2>3 DEF Reward!Credit, TypeInv, TypeOK
<1>4. ASSUME ~(\E o \in Orders : Upload(o) \/ Decide(o)), UNCHANGED credits
      PROVE  UNCHANGED <<Accepted, Granted, credits>>
  <2>1. UNCHANGED verdict
    BY <1>4, VerdictSteps
  <2>2. \A o \in Orders : status[o] = "ABSENT" <=> status'[o] = "ABSENT"
    <3>1. \A o \in Orders : status[o] = "ABSENT" => status'[o] = "ABSENT"
      BY <1>4, AbsentStays
    <3>2. \A w \in Workers : workerPc[w] = "fallback" => status[held[w]] # "ABSENT"
      BY DEF Custody, StatusFollowsCustody
    <3>3. \A o \in Orders : status'[o] = "ABSENT" => status[o] = "ABSENT"
      BY StatusSteps
    <3>4. QED  BY <3>1, <3>3
  <2>3. QED  BY <1>4, <2>1, <2>2
<1>5. QED
  BY <1>1, <1>2, <1>3, <1>4, CreditSteps DEF Reward!Next, Reward!vars

(***************************************************************************)
(* The pipeline credits an order at most once, only after the accrual      *)
(* system granted it points, and only an order that was accepted: every    *)
(* behaviour of it is a behaviour of RewardOnce.                           *)
(***************************************************************************)
THEOREM RewardImplemented == Spec => RewardSpec
<1>1. TypeInv /\ Custody /\ StoresTheVerdict /\ CreditedOnce /\ [Next]_vars
        => [Reward!Next]_(Reward!vars)
  BY RewardStep
<1>2. Custody <=> SingleCustody /\ StatusFollowsCustody
  BY DEF Custody
<1>3. QED
  BY <1>1, <1>2, RewardInit, TypeInvariant, CustodyCorrect, StoresTheVerdictCorrect,
     CreditedOnceCorrect, PTL DEF Spec, RewardSpec, Reward!Spec
==============================================================================
