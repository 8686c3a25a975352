-------------------------------- MODULE Server --------------------------------
(***************************************************************************)
(* The process: the order pipeline and the withdrawals, which run beside   *)
(* each other in server.go and meet in two places.  The last statement of  *)
(* an accrual transaction adds to the balance row that withdrawals lock.   *)
(* And they die together: a Fatal in a request ends the loop and the       *)
(* workers, a panic of a worker ends the requests.                         *)
(*                                                                         *)
(* The two halves are the modules OrderProcessing and Ledger over the      *)
(* variables of this one; a step here is a step of one of them, or one of  *)
(* each where they meet.                                                   *)
(***************************************************************************)
EXTENDS Integers, Sequences, FiniteSets, Functions

CONSTANTS
    MaxOrders, Workers, BufferSize, Replies, FaultKinds,
    MaxLoopFaults, MaxWorkerFaults, MaxCrashes,
    Users, Numbers, Requests, Amounts, Rewards,
    MaxEarnings, MaxFaults, MaxDisconnects, MaxKills, NoRequest,
    Owner,     \* order.user_id: whose an order is
    Points     \* the accrual the external system grants for an order

Orders == 1 .. MaxOrders

VARIABLES
    status, accrual, credits, verdict, loopPc, batch, channel, workerPc, held, reply,
    loopFaults, workerFaults, crashes,
    balance, withdrawn, earned, withdrawal, up, pc, ask, seen, open, gone, answer,
    earnings, faults, disconnects, kills

pipelineVars == <<status, accrual, credits, verdict, loopPc, batch, channel, workerPc,
                  held, reply, loopFaults, workerFaults, crashes>>
ledgerVars == <<balance, withdrawn, earned, withdrawal, up, pc, ask, seen, open, gone,
                answer, earnings, faults, disconnects, kills>>
vars == <<pipelineVars, ledgerVars>>

Pipeline == INSTANCE OrderProcessing
Withdrawals == INSTANCE Ledger

\* The assumptions of the two halves, and a bound that lets every order be credited.
ASSUME ServerAssumption ==
    /\ Pipeline!ConstantsAssumption
    /\ Withdrawals!LedgerAssumption
    /\ Owner \in [Orders -> Users]
    /\ Points \in [Orders -> Rewards]
    /\ MaxEarnings >= MaxOrders

Init == Pipeline!Init /\ Withdrawals!Init

------------------------------------------------------------------------------
\* Uploads, decisions of the accrual system, the loop, and what else a worker does.
LoopStep == Pipeline!LoopStep /\ UNCHANGED ledgerVars

Arrive ==
    /\ \E o \in Orders : Pipeline!Upload(o) \/ Pipeline!Decide(o)
    /\ UNCHANGED ledgerVars

\* Mutant: the balance is updated in a transaction of its own, which can fail.
Credit_Apart(w, o) ==
    /\ held[w] = o
    /\ Pipeline!StoreReply(w)
    /\ accrual' # accrual
    /\ Withdrawals!Earn(Owner[o], Points[o]) \/ UNCHANGED ledgerVars

\* Mutant: the UPDATE of the balance has lost its WHERE user_id.
Credit_AnyUser(w, o) ==
    /\ held[w] = o
    /\ Pipeline!StoreReply(w)
    /\ accrual' # accrual
    /\ \E u \in Users : Withdrawals!Earn(u, Points[o])

\* Mutant: a row that is locked is not waited for, and the worker gives the order up.
Credit_NoWait(w, o) ==
    /\ held[w] = o
    /\ IF Withdrawals!RowIsFree(Owner[o])
       THEN /\ Pipeline!StoreReply(w)
            /\ accrual' # accrual
            /\ Withdrawals!Earn(Owner[o], Points[o])
       ELSE /\ workerPc[w] = "store"
            /\ Pipeline!Release(w, "receive")
            /\ UNCHANGED <<status, accrual, credits, verdict, loopPc, batch, channel,
                           loopFaults, workerFaults, crashes, ledgerVars>>

(***************************************************************************)
(* The commit of an accrual: the row in table accrual and the points on    *)
(* the balance of the owner, in one transaction.  Its UPDATE of the        *)
(* balance waits while a withdrawal of the owner holds the row.            *)
(***************************************************************************)
Credit(w, o) ==
    /\ held[w] = o
    /\ Pipeline!StoreReply(w)
    /\ accrual' # accrual
    /\ Withdrawals!Earn(Owner[o], Points[o])

WorkerStep(w) ==
    \/ /\ Pipeline!WorkerStep(w)
       /\ accrual' = accrual
       /\ UNCHANGED ledgerVars
    \/ \E o \in Orders : Credit(w, o)

------------------------------------------------------------------------------
\* Mutant: Fatal ends the requests only.
Survives_Exit == UNCHANGED pipelineVars

\* A step of the ledger that ends the process ends the pipeline too.
Survives == IF up' THEN UNCHANGED pipelineVars ELSE Pipeline!Crash

RequestStep(r) == Withdrawals!RequestStep(r) /\ Survives

AwaitDone(r) == Withdrawals!AwaitDone(r) /\ UNCHANGED pipelineVars

ListStep == Withdrawals!ListFails /\ Survives

ClientStep(r) ==
    /\ Withdrawals!Begin(r) \/ Withdrawals!Disconnect(r)
    /\ UNCHANGED pipelineVars

------------------------------------------------------------------------------
\* The process is killed, or a worker panics.
Die ==
    /\ Pipeline!Crash \/ \E w \in Workers : Pipeline!Panic(w)
    /\ Withdrawals!Crash

Restart == Pipeline!Restart /\ Withdrawals!Restart

Next ==
    \/ LoopStep
    \/ Arrive
    \/ \E w \in Workers : WorkerStep(w)
    \/ \E r \in Requests : RequestStep(r) \/ AwaitDone(r) \/ ClientStep(r)
    \/ ListStep
    \/ Die
    \/ Restart

Spec == Init /\ [][Next]_vars

(***************************************************************************)
(* Every goroutine that can run runs: the fairness of the two halves.      *)
(***************************************************************************)
LearnVerdict(o) ==
    /\ Pipeline!LearnVerdict(o)
    /\ UNCHANGED ledgerVars

Fairness ==
    /\ WF_vars(LoopStep)
    /\ \A w \in Workers : WF_vars(WorkerStep(w))
    /\ \A o \in Orders : SF_vars(LearnVerdict(o))
    /\ \A r \in Requests : WF_vars(RequestStep(r)) /\ WF_vars(AwaitDone(r))
    /\ WF_vars(Restart)

FairSpec == Spec /\ Fairness

------------------------------------------------------------------------------
(***************************************************************************)
(* The types of the two halves, which live and die together.               *)
(***************************************************************************)
TypeOK ==
    /\ Pipeline!TypeOK
    /\ Withdrawals!TypeOK
    /\ up <=> loopPc # "down"

(***************************************************************************)
(* OrderRepository.ReadAllByUserID, one SELECT: the orders a list may show *)
(* with points.  The join finds the accrual of an order whatever its       *)
(* status, the rows come newest first, and rows.Err() is not looked at     *)
(* after the loop: a lost connection cuts the list short without an error. *)
(***************************************************************************)
ReadAllByUserID(u) ==
    LET all == {o \in accrual : Owner[o] = u}
    IN  {{p \in all : p >= o} : o \in Orders} \cup {{}}

(***************************************************************************)
(* The books of the two halves balance: what a user earned is the sum of   *)
(* the points of the user's orders that have an accrual.                   *)
(***************************************************************************)
BooksBalance ==
    \A u \in Users :
        earned[u] = SumFunctionOnSet(Points, {o \in accrual : Owner[o] = u})

(***************************************************************************)
(* The points a list of orders shows were paid to the user it is shown to: *)
(* the balance and the withdrawals hold at least their sum.                *)
(***************************************************************************)
ShownIsPaid ==
    \A u \in Users : \A list \in ReadAllByUserID(u) :
        SumFunctionOnSet(Points, list) <= balance[u] + withdrawn[u]

(***************************************************************************)
(* Every order that is granted points is credited unless the process died: *)
(* withdrawals that hold the balance row while they wait for a number, or  *)
(* that their handler leaves open after the PREPARE of the INSERT failed,  *)
(* only delay the worker that adds to it.                                  *)
(***************************************************************************)
CreditedWhileUp ==
    \A o \in Orders : verdict[o] = "PROCESSED" ~> credits[o] = 1 \/ crashes > 0

(***************************************************************************)
(* Every order the accrual system grants points for is credited            *)
(* (SPECIFICATION.md:16).                                                  *)
(***************************************************************************)
EveryRewardIsCredited == \A o \in Orders : verdict[o] = "PROCESSED" ~> credits[o] = 1

(***************************************************************************)
(* The process as a whole is the loyalty system Bonus: an order is paid    *)
(* when it has its row in table accrual.                                   *)
(***************************************************************************)
Promise == INSTANCE Bonus WITH
    accepted <- {o \in Orders : status[o] # "ABSENT"},
    granted <- {o \in Orders : verdict[o] = "PROCESSED"},
    paid <- accrual

BonusSpec == Promise!Spec
==============================================================================
