----------------------------- MODULE ServerProofs -----------------------------
(***************************************************************************)
(* Proofs about Server: what is proved of OrderProcessing and of Ledger    *)
(* holds while they run in one process, what relates the two halves, and   *)
(* that the whole implements Bonus.                                        *)
(***************************************************************************)
EXTENDS Server, FiniteSetTheorems, SumProofs, TLAPS

P == INSTANCE OrderProcessingProofs
L == INSTANCE LedgerProofs

USE DEF Orders, Pipeline!Orders, vars, pipelineVars, ledgerVars

------------------------------------------------------------------------------
\* What a crediting worker does is a step of the pipeline and an accrual of the ledger.
LEMMA CreditIsBoth ==
  ASSUME NEW w \in Workers, NEW o \in Orders, Credit(w, o)
  PROVE  Pipeline!Next /\ Withdrawals!Next
  <1>1. Pipeline!StoreReply(w) BY DEF Credit
  <1>2. Pipeline!Next BY <1>1 DEF Pipeline!Next, Pipeline!WorkerStep
  <1>3. Owner[o] \in Users /\ Points[o] \in Rewards BY ServerAssumption
  <1>4. Withdrawals!Earn(Owner[o], Points[o]) BY DEF Credit
  <1>5. Withdrawals!Next BY <1>3, <1>4 DEF Withdrawals!Next
  <1> QED BY <1>2, <1>5

\* A death of the process is one of the pipeline and one of the ledger.
LEMMA DieIsBoth == Die => Pipeline!Next /\ Withdrawals!Next
  BY DEF Die, Pipeline!Next, Withdrawals!Next

LEMMA PipelineStep == [Next]_vars => [Pipeline!Next]_(Pipeline!vars)
  <1> SUFFICES ASSUME [Next]_vars
               PROVE  Pipeline!Next \/ UNCHANGED pipelineVars
    BY DEF Pipeline!vars
  <1>1. CASE LoopStep
    BY <1>1 DEF LoopStep, Pipeline!Next
  <1>2. CASE Arrive
    BY <1>2 DEF Arrive, Pipeline!Next
  <1>3. CASE \E w \in Workers : WorkerStep(w)
    <2>1. PICK w \in Workers : WorkerStep(w) BY <1>3
    <2>2. CASE Pipeline!WorkerStep(w) BY <2>2 DEF Pipeline!Next
    <2>3. CASE \E o \in Orders : Credit(w, o) BY <2>3, CreditIsBoth
    <2> QED BY <2>1, <2>2, <2>3 DEF WorkerStep
  <1>4. CASE \E r \in Requests : RequestStep(r) \/ AwaitDone(r) \/ ClientStep(r)
    BY <1>4 DEF RequestStep, Survives, AwaitDone, ClientStep, Pipeline!Next
  <1>5. CASE Die BY <1>5, DieIsBoth
  <1>6. CASE Restart BY <1>6 DEF Restart, Pipeline!Next
  <1>7. CASE ListStep BY <1>7 DEF ListStep, Survives, Pipeline!Next
  <1>8. CASE UNCHANGED vars BY <1>8
  <1> QED BY <1>1, <1>2, <1>3, <1>4, <1>5, <1>6, <1>7, <1>8 DEF Next

LEMMA LedgerStep == [Next]_vars => [Withdrawals!Next]_(Withdrawals!vars)
  <1> SUFFICES ASSUME [Next]_vars
               PROVE  Withdrawals!Next \/ UNCHANGED ledgerVars
    BY DEF Withdrawals!vars
  <1>1. CASE LoopStep BY <1>1 DEF LoopStep
  <1>2. CASE Arrive BY <1>2 DEF Arrive
  <1>3. CASE \E w \in Workers : WorkerStep(w)
    BY <1>3, CreditIsBoth DEF WorkerStep
  <1>4. CASE \E r \in Requests : RequestStep(r) \/ AwaitDone(r) \/ ClientStep(r)
    BY <1>4 DEF RequestStep, AwaitDone, ClientStep, Withdrawals!Next
  <1>5. CASE Die BY <1>5, DieIsBoth
  <1>6. CASE Restart BY <1>6 DEF Restart, Withdrawals!Next
  <1>7. CASE ListStep BY <1>7 DEF ListStep, Withdrawals!Next
  <1>8. CASE UNCHANGED vars BY <1>8
  <1> QED BY <1>1, <1>2, <1>3, <1>4, <1>5, <1>6, <1>7, <1>8 DEF Next

\* A behavior of the process is one of either half, which leaves the other's variables open.
LEMMA PipelineInside == Spec => Pipeline!Spec
  <1>1. Init => Pipeline!Init BY DEF Init
  <1> QED BY <1>1, PipelineStep, PTL DEF Spec, Pipeline!Spec

LEMMA LedgerInside == Spec => Withdrawals!Spec
  <1>1. Init => Withdrawals!Init BY DEF Init
  <1> QED BY <1>1, LedgerStep, PTL DEF Spec, Withdrawals!Spec

------------------------------------------------------------------------------
(***************************************************************************)
(* What OrderProcessingProofs and LedgerProofs prove holds of the process: *)
(* the halves there and here are instances of the same modules.            *)
(***************************************************************************)
LEMMA HalvesAssumed == P!ConstantsAssumption /\ L!LedgerAssumption
  BY ServerAssumption
     DEF Pipeline!ConstantsAssumption, Withdrawals!LedgerAssumption,
         P!ConstantsAssumption, L!LedgerAssumption,
         Pipeline!Verdicts, Pipeline!PendingReplies, Pipeline!FailedReplies,
         P!Verdicts, P!PendingReplies, P!FailedReplies,
         Pipeline!IsFiniteSet, P!IsFiniteSet

\* The definitions of a half are the same under either name.
LEMMA SamePipeline ==
  /\ Pipeline!Init => P!Init
  /\ [Pipeline!Next]_(Pipeline!vars) => [P!Next]_(P!vars)
  BY DEF Pipeline!Verdicts, P!Verdicts, Pipeline!PendingReplies, P!PendingReplies,
         Pipeline!FailedReplies, P!FailedReplies, Pipeline!Orders, P!Orders,
         Pipeline!NoOrder, P!NoOrder, Pipeline!database, P!database,
         Pipeline!loopVars, P!loopVars, Pipeline!workerVars, P!workerVars,
         Pipeline!bounds, P!bounds, Pipeline!vars, P!vars, Pipeline!Init, P!Init,
         Pipeline!LoopCall, P!LoopCall, Pipeline!WorkerCall, P!WorkerCall,
         Pipeline!Outcomes, P!Outcomes, Pipeline!SetStatus, P!SetStatus,
         Pipeline!Upload, P!Upload, Pipeline!Decide, P!Decide, Pipeline!Reporting,
         P!Reporting, Pipeline!ReceiveError, P!ReceiveError, Pipeline!Default, P!Default,
         Pipeline!Report, P!Report, Pipeline!NewOrders,
         P!NewOrders, Pipeline!ReadByStatus, P!ReadByStatus,
         Pipeline!GetOrdersForProcessing, P!GetOrdersForProcessing,
         Pipeline!Oldest, P!Oldest, Pipeline!MarkProcessing, P!MarkProcessing,
         Pipeline!AdvanceBatch, P!AdvanceBatch, Pipeline!SendOrder, P!SendOrder,
         Pipeline!HandOver, P!HandOver, Pipeline!Sleep, P!Sleep,
         Pipeline!ReceiveOrder, P!ReceiveOrder, Pipeline!PossibleReplies,
         P!PossibleReplies, Pipeline!Release, P!Release, Pipeline!GetOrder,
         P!GetOrder, Pipeline!StatusFor, P!StatusFor, Pipeline!PasteAccrual,
         P!PasteAccrual, Pipeline!DuplicateAccrual, P!DuplicateAccrual,
         Pipeline!StoreReply, P!StoreReply, Pipeline!ReturnToNew, P!ReturnToNew,
         Pipeline!Die, P!Die, Pipeline!Crash, P!Crash, Pipeline!Panic, P!Panic,
         Pipeline!Restart, P!Restart, Pipeline!LoopStep, P!LoopStep,
         Pipeline!WorkerStep, P!WorkerStep, Pipeline!Next, P!Next

LEMMA PipelineProofsApply == Spec => P!Spec
  BY SamePipeline, PipelineInside, PTL DEF Pipeline!Spec, P!Spec

LEMMA SameLedger ==
  /\ Withdrawals!Init => L!Init
  /\ [Withdrawals!Next]_(Withdrawals!vars) => [L!Next]_(L!vars)
  BY DEF Withdrawals!tables, L!tables, Withdrawals!bounds, L!bounds,
         Withdrawals!vars, L!vars, Withdrawals!Asks, L!Asks,
         Withdrawals!InTransaction, L!InTransaction, Withdrawals!InProgress,
         L!InProgress, Withdrawals!Init, L!Init, Withdrawals!HoldsRow, L!HoldsRow,
         Withdrawals!HoldsNumber, L!HoldsNumber, Withdrawals!RowIsFree,
         L!RowIsFree, Withdrawals!NumberIsFree, L!NumberIsFree, Withdrawals!Answer,
         L!Answer, Withdrawals!Goto, L!Goto, Withdrawals!Finish, L!Finish,
         Withdrawals!Exit, L!Exit, Withdrawals!RollBack, L!RollBack,
         Withdrawals!Begin, L!Begin, Withdrawals!SelectForUpdate,
         L!SelectForUpdate, Withdrawals!CheckBalance, L!CheckBalance,
         Withdrawals!UpdateBalance, L!UpdateBalance, Withdrawals!InsertWithdrawal,
         L!InsertWithdrawal, Withdrawals!Committed, L!Committed,
         Withdrawals!Commit, L!Commit, Withdrawals!Reply, L!Reply,
         Withdrawals!CallFails, L!CallFails, Withdrawals!ConnectionFails,
         L!ConnectionFails, Withdrawals!StatementFails, L!StatementFails,
         Withdrawals!BeginFails, L!BeginFails, Withdrawals!RefusalFails, L!RefusalFails,
         Withdrawals!ListFails, L!ListFails, Withdrawals!PrepareInsertFails,
         L!PrepareInsertFails, Withdrawals!CommitFails, L!CommitFails,
         Withdrawals!AwaitDone, L!AwaitDone, Withdrawals!Disconnect, L!Disconnect,
         Withdrawals!Earn, L!Earn, Withdrawals!Crash, L!Crash, Withdrawals!Restart,
         L!Restart, Withdrawals!RequestStep, L!RequestStep, Withdrawals!Next,
         L!Next

LEMMA LedgerProofsApply == Spec => L!Spec
  BY SameLedger, LedgerInside, PTL DEF Withdrawals!Spec, L!Spec

------------------------------------------------------------------------------
\* The invariants of the halves are the same under either name.
LEMMA SamePipelineInvariants ==
  /\ P!TypeOK => Pipeline!TypeOK
  /\ P!SingleCustody => Pipeline!SingleCustody
  /\ P!StatusFollowsCustody => Pipeline!StatusFollowsCustody
  /\ P!StoresTheVerdict => Pipeline!StoresTheVerdict
  /\ P!CreditedOnce => Pipeline!CreditedOnce
  /\ P!ProcessedIsCredited => Pipeline!ProcessedIsCredited
  BY DEF Pipeline!TypeOK, P!TypeOK, Pipeline!SingleCustody, P!SingleCustody,
         Pipeline!StatusFollowsCustody, P!StatusFollowsCustody,
         Pipeline!StoresTheVerdict, P!StoresTheVerdict,
         Pipeline!CreditedOnce, P!CreditedOnce,
         Pipeline!ProcessedIsCredited, P!ProcessedIsCredited,
         Pipeline!Statuses, P!Statuses, Pipeline!LoopPcs, P!LoopPcs,
         Pipeline!WorkerPcs, P!WorkerPcs, Pipeline!Busy, P!Busy, Pipeline!Queued, P!Queued,
         Pipeline!Oldest, P!Oldest, Pipeline!NoOrder, P!NoOrder, P!Orders,
         Pipeline!Verdicts, P!Verdicts, Pipeline!PendingReplies, P!PendingReplies,
         Pipeline!FailedReplies, P!FailedReplies

LEMMA SameLedgerInvariants ==
  /\ L!TypeOK => Withdrawals!TypeOK
  /\ L!SeenIsCurrent => Withdrawals!SeenIsCurrent
  /\ L!NoOverdraft => Withdrawals!NoOverdraft
  /\ L!Conservation => Withdrawals!Conservation
  /\ L!AnswerTellsOutcome => Withdrawals!AnswerTellsOutcome
  BY DEF Withdrawals!TypeOK, L!TypeOK, Withdrawals!SeenIsCurrent, L!SeenIsCurrent,
         Withdrawals!NoOverdraft, L!NoOverdraft, Withdrawals!Conservation, L!Conservation,
         Withdrawals!AnswerTellsOutcome, L!AnswerTellsOutcome,
         Withdrawals!Labels, L!Labels, Withdrawals!Codes, L!Codes, Withdrawals!Asks, L!Asks,
         Withdrawals!InProgress, L!InProgress, Withdrawals!InTransaction, L!InTransaction,
         Withdrawals!HoldsRow, L!HoldsRow

(***************************************************************************)
(* What the pipeline promises holds while withdrawals run beside it: an    *)
(* order in processing is in one place, its row says so, the verdict is    *)
(* the one that is stored, and the points come once and with the status.   *)
(***************************************************************************)
PipelineGuarantees ==
    /\ Pipeline!SingleCustody
    /\ Pipeline!StatusFollowsCustody
    /\ Pipeline!StoresTheVerdict
    /\ Pipeline!CreditedOnce
    /\ Pipeline!ProcessedIsCredited

THEOREM PipelineGuaranteesHold == Spec => [](Pipeline!TypeOK /\ PipelineGuarantees)
  <1>1. P!Spec => []P!TypeOK
    BY P!TypeCorrect, HalvesAssumed
  <1>2. P!Spec => [](P!SingleCustody /\ P!StatusFollowsCustody)
    BY P!CustodyCorrect, HalvesAssumed
  <1>3. P!Spec => []P!StoresTheVerdict
    BY P!StoresTheVerdictCorrect, HalvesAssumed
  <1>4. P!Spec => []P!CreditedOnce
    BY P!CreditedOnceCorrect, HalvesAssumed
  <1>5. P!Spec => []P!ProcessedIsCredited
    BY P!ProcessedIsCreditedCorrect, HalvesAssumed
  <1> QED BY <1>1, <1>2, <1>3, <1>4, <1>5, PipelineProofsApply, SamePipelineInvariants, PTL
          DEF PipelineGuarantees

(***************************************************************************)
(* What the withdrawals promise holds while workers add to the balances:   *)
(* no overdraft, no points lost or made, the balance that was read is the  *)
(* balance that is written, and a client is told what happened.            *)
(***************************************************************************)
LedgerGuarantees ==
    /\ Withdrawals!SeenIsCurrent
    /\ Withdrawals!NoOverdraft
    /\ Withdrawals!Conservation
    /\ Withdrawals!AnswerTellsOutcome

THEOREM LedgerGuaranteesHold == Spec => [](Withdrawals!TypeOK /\ LedgerGuarantees)
  <1>1. L!Spec => []L!TypeOK
    BY L!LedgerTypeCorrect, HalvesAssumed
  <1>2. L!Spec => []L!SeenIsCurrent
    BY L!SeenIsCurrentCorrect, HalvesAssumed
  <1>3. L!Spec => []L!NoOverdraft
    BY L!NoOverdraftCorrect, HalvesAssumed
  <1>4. L!Spec => []L!Conservation
    BY L!ConservationCorrect, HalvesAssumed
  <1>5. L!Spec => []L!AnswerTellsOutcome
    BY L!AnswerTellsOutcomeCorrect, HalvesAssumed
  <1> QED BY <1>1, <1>2, <1>3, <1>4, <1>5, LedgerProofsApply, SameLedgerInvariants, PTL
          DEF LedgerGuarantees

(***************************************************************************)
(* And what no step of the process may do: use the number of a withdrawal  *)
(* again, refuse a client that has the points, or take back a final status *)
(* unless a worker lost the answer to its own statement.                   *)
(***************************************************************************)
THEOREM StepGuaranteesHold ==
  Spec => /\ Withdrawals!WithdrawalsAreKept
          /\ Withdrawals!RefusedForLackOfPoints
          /\ Pipeline!FinalStatusSticks
  <1>1. L!Spec => L!WithdrawalsAreKept /\ L!RefusedForLackOfPoints
    BY L!WithdrawalsAreKeptCorrect, L!RefusedForLackOfPointsCorrect, HalvesAssumed
  <1>2. P!Spec => P!FinalStatusSticks
    BY P!FinalStatusSticksCorrect, HalvesAssumed
  <1>3. L!WithdrawalsAreKept => Withdrawals!WithdrawalsAreKept
    BY PTL DEF L!WithdrawalsAreKept, Withdrawals!WithdrawalsAreKept, L!vars, Withdrawals!vars
  <1>4. L!RefusedForLackOfPoints => Withdrawals!RefusedForLackOfPoints
    BY PTL DEF L!RefusedForLackOfPoints, Withdrawals!RefusedForLackOfPoints,
       L!vars, Withdrawals!vars
  <1>5. P!FinalStatusSticks => Pipeline!FinalStatusSticks
    BY PTL DEF P!FinalStatusSticks, Pipeline!FinalStatusSticks, P!vars, Pipeline!vars,
       P!LostAnswer, Pipeline!LostAnswer, P!Verdicts, Pipeline!Verdicts, P!Orders
  <1> QED BY <1>1, <1>2, <1>3, <1>4, <1>5, PipelineProofsApply, LedgerProofsApply, PTL

------------------------------------------------------------------------------
\* The process is up for the requests exactly when it is for the loop.
Together == up <=> loopPc # "down"

\* A step of a request leaves the process up, or ends it.
LEMMA RequestStepUp ==
  ASSUME NEW r \in Requests, Withdrawals!RequestStep(r)
  PROVE  (UNCHANGED up \/ up' = FALSE) /\ UNCHANGED earned
  BY DEF Withdrawals!RequestStep, Withdrawals!SelectForUpdate, Withdrawals!CheckBalance,
         Withdrawals!UpdateBalance, Withdrawals!InsertWithdrawal, Withdrawals!Commit,
         Withdrawals!Committed, Withdrawals!Reply, Withdrawals!StatementFails,
         Withdrawals!RefusalFails, Withdrawals!BeginFails,
         Withdrawals!PrepareInsertFails, Withdrawals!CommitFails,
         Withdrawals!RollBack, Withdrawals!Finish, Withdrawals!Exit,
         Withdrawals!CallFails, Withdrawals!ConnectionFails, Withdrawals!tables

LEMMA TogetherStep == ASSUME Together, Withdrawals!TypeOK, [Next]_vars PROVE Together'
  <1>1. CASE LoopStep
    BY <1>1 DEF Together, LoopStep, Pipeline!LoopStep, Pipeline!ReceiveError, Pipeline!Default,
       Pipeline!GetOrdersForProcessing, Pipeline!MarkProcessing, Pipeline!SendOrder,
       Pipeline!HandOver, Pipeline!AdvanceBatch, Pipeline!Sleep, Pipeline!loopVars
  <1>2. CASE Arrive
    BY <1>2 DEF Together, Arrive, Pipeline!Upload, Pipeline!Decide, Pipeline!loopVars
  <1>3. CASE \E w \in Workers : WorkerStep(w)
    BY <1>3 DEF Together, WorkerStep, Credit, Withdrawals!Earn, Pipeline!WorkerStep,
       Pipeline!ReceiveOrder, Pipeline!GetOrder, Pipeline!StoreReply, Pipeline!ReturnToNew,
       Pipeline!Report, Pipeline!loopVars
  <1>4. ASSUME NEW r \in Requests, RequestStep(r)
        PROVE  Together'
    BY <1>4, RequestStepUp
       DEF Together, RequestStep, Survives, Pipeline!Crash, Pipeline!Die, Withdrawals!TypeOK
  <1>5. ASSUME NEW r \in Requests, AwaitDone(r) \/ ClientStep(r)
        PROVE  Together'
    BY <1>5 DEF Together, AwaitDone, ClientStep, Withdrawals!AwaitDone, Withdrawals!Begin,
       Withdrawals!Disconnect
  <1>6. CASE Die \/ Restart
    BY <1>6 DEF Together, Die, Restart, Pipeline!Crash, Pipeline!Panic, Pipeline!Die,
       Pipeline!Restart, Withdrawals!Crash, Withdrawals!Exit, Withdrawals!Restart
  <1>7. CASE ListStep
    BY <1>7 DEF Together, ListStep, Survives, Withdrawals!ListFails, Withdrawals!Exit,
       Pipeline!Crash, Pipeline!Die
  <1>8. CASE UNCHANGED vars BY <1>8 DEF Together
  <1> QED BY <1>1, <1>2, <1>3, <1>4, <1>5, <1>6, <1>7, <1>8 DEF Next

(***************************************************************************)
(* The types of both halves, which live and die together: no request is    *)
(* served by a process whose loop and workers are gone, and none of them   *)
(* outlives a Fatal of a request.                                          *)
(***************************************************************************)
THEOREM ServerTypeCorrect == Spec => []TypeOK
  <1>1. Init => Together
    BY DEF Init, Together, Pipeline!Init, Withdrawals!Init
  <1>2. TypeOK <=> Pipeline!TypeOK /\ Withdrawals!TypeOK /\ Together
    BY DEF TypeOK, Together
  <1> QED BY <1>1, <1>2, TogetherStep, PipelineGuaranteesHold, LedgerGuaranteesHold, PTL
          DEF Spec

------------------------------------------------------------------------------
(***************************************************************************)
(* The books.                                                              *)
(***************************************************************************)
Credited(u) == {o \in accrual : Owner[o] = u}

LEMMA OwnersAndPoints ==
  /\ MaxOrders \in Nat
  /\ Owner \in [Orders -> Users]
  /\ Points \in [Orders -> Nat]
  BY ServerAssumption DEF Pipeline!ConstantsAssumption, Withdrawals!LedgerAssumption

\* The orders of a user that have an accrual are finitely many, with their points.
LEMMA CreditedType ==
  ASSUME accrual \subseteq Orders
  PROVE  \A u : IsFiniteSet(Credited(u)) /\ \A o \in Credited(u) : Points[o] \in Nat
  <1>1. IsFiniteSet(Orders) BY OwnersAndPoints, FS_Interval
  <1>2. \A u : Credited(u) \in SUBSET Orders BY DEF Credited
  <1>3. \A u : IsFiniteSet(Credited(u)) BY <1>1, <1>2, FS_Subset
  <1> QED BY OwnersAndPoints, <1>2, <1>3

\* An accrual adds to the books of the owner the points of one order more.
LEMMA CreditKeepsBooks ==
  ASSUME TypeOK, BooksBalance, NEW w \in Workers, NEW o \in Orders, Credit(w, o)
  PROVE  BooksBalance'
  <1> DEFINE u == Owner[o]
  <1>1. /\ o \notin accrual /\ accrual' = accrual \cup {o}
        /\ earned' = [earned EXCEPT ![u] = @ + Points[o]]
    BY DEF Credit, Withdrawals!Earn, Pipeline!StoreReply, Pipeline!PasteAccrual,
           Pipeline!DuplicateAccrual, Pipeline!SetStatus, Pipeline!database
  <1>2. u \in Users /\ Points[o] \in Int BY OwnersAndPoints
  <1>3. accrual \subseteq Orders /\ earned \in [Users -> Nat]
    BY DEF TypeOK, Pipeline!TypeOK, Withdrawals!TypeOK
  <1> SUFFICES ASSUME NEW v \in Users
               PROVE  earned'[v] = SumFunctionOnSet(Points, Credited(v)')
    BY DEF BooksBalance, Credited
  <1>4. earned[v] = SumFunctionOnSet(Points, Credited(v)) BY DEF BooksBalance, Credited
  <1>5. CASE v # u
    <2>1. Credited(v)' = Credited(v) BY <1>1, <1>5 DEF Credited
    <2>2. earned'[v] = earned[v] BY <1>1, <1>3, <1>5
    <2> QED BY <1>4, <2>1, <2>2
  <1>6. CASE v = u
    <2> DEFINE rows == Credited(u)
    <2>1. Credited(v)' = rows \cup {o} BY <1>1, <1>6 DEF Credited
    <2>2. IsFiniteSet(rows) /\ \A q \in rows : Points[q] \in Int BY <1>3, CreditedType
    <2>3. o \notin rows BY <1>1 DEF Credited
    <2>4. earned'[v] = earned[v] + Points[o] BY <1>1, <1>2, <1>3, <1>6
    <2> HIDE DEF rows
    <2>5. SumFunctionOnSet(Points, rows \cup {o}) = SumFunctionOnSet(Points, rows) + Points[o]
      BY <1>2, <2>2, <2>3, SumInsert
    <2> QED BY <1>4, <1>6, <2>1, <2>4, <2>5 DEF rows
  <1> QED BY <1>5, <1>6

(***************************************************************************)
(* What a user earned is the sum of the points of the user's orders that   *)
(* have an accrual, whichever worker credits them and whatever dies: each  *)
(* order pays its owner, its own points, and once.                         *)
(***************************************************************************)
THEOREM BooksBalanceCorrect == Spec => []BooksBalance
  <1>1. Init => BooksBalance
    BY SumEmpty DEF Init, Pipeline!Init, Withdrawals!Init, BooksBalance
  <1>2. TypeOK /\ BooksBalance /\ [Next]_vars => BooksBalance'
    <2> SUFFICES ASSUME TypeOK, BooksBalance, [Next]_vars PROVE BooksBalance'
      OBVIOUS
    <2> DEFINE Same == UNCHANGED <<earned, accrual>>
    <2>1. Same => BooksBalance' BY DEF BooksBalance
    <2>2. CASE LoopStep
      BY <2>1, <2>2 DEF LoopStep, Pipeline!LoopStep, Pipeline!ReceiveError, Pipeline!Default,
         Pipeline!GetOrdersForProcessing, Pipeline!MarkProcessing, Pipeline!SetStatus,
         Pipeline!SendOrder, Pipeline!HandOver, Pipeline!Sleep, Pipeline!database
    <2>3. CASE Arrive
      BY <2>1, <2>3 DEF Arrive, Pipeline!Upload, Pipeline!Decide, Pipeline!database
    <2>4. CASE \E w \in Workers : WorkerStep(w)
      BY <2>1, <2>4, CreditKeepsBooks DEF WorkerStep
    <2>5. CASE \E r \in Requests : RequestStep(r)
      BY <2>1, <2>5, RequestStepUp
         DEF RequestStep, Survives, Pipeline!Crash, Pipeline!Die, Pipeline!database
    <2>6. CASE \E r \in Requests : AwaitDone(r) \/ ClientStep(r)
      BY <2>1, <2>6 DEF AwaitDone, ClientStep, Withdrawals!AwaitDone,
         Withdrawals!Begin, Withdrawals!Disconnect, Withdrawals!tables
    <2>7. CASE Die
      BY <2>1, <2>7 DEF Die, Pipeline!Crash, Pipeline!Panic, Pipeline!Die,
         Pipeline!database, Withdrawals!Crash, Withdrawals!Exit, Withdrawals!tables
    <2>8. CASE Restart
      BY <2>1, <2>8 DEF Restart, Pipeline!Restart, Withdrawals!Restart,
         Pipeline!database, Withdrawals!tables
    <2>9. CASE ListStep
      BY <2>1, <2>9 DEF ListStep, Survives, Withdrawals!ListFails, Withdrawals!tables,
         Pipeline!Crash, Pipeline!Die, Pipeline!database
    <2>10. CASE UNCHANGED vars BY <2>1, <2>10
    <2> QED BY <2>2, <2>3, <2>4, <2>5, <2>6, <2>7, <2>8, <2>9, <2>10 DEF Next
  <1> QED BY <1>1, <1>2, ServerTypeCorrect, PTL DEF Spec

(***************************************************************************)
(* Whatever part of the orders a list shows, and whatever has failed, the  *)
(* points it shows were paid: the books of the two halves balance, and     *)
(* what a user earned is on the balance or in the withdrawals.             *)
(***************************************************************************)
THEOREM ShownIsPaidCorrect == Spec => []ShownIsPaid
  <1>1. TypeOK /\ BooksBalance /\ Withdrawals!Conservation => ShownIsPaid
    <2> SUFFICES ASSUME TypeOK, BooksBalance, Withdrawals!Conservation,
                        NEW u \in Users, NEW list \in ReadAllByUserID(u)
                 PROVE  SumFunctionOnSet(Points, list) <= balance[u] + withdrawn[u]
      BY DEF ShownIsPaid
    <2> DEFINE rows == Credited(u)
    <2>1. list \in SUBSET rows BY DEF ReadAllByUserID, Credited
    <2>2. IsFiniteSet(rows) /\ \A o \in rows : Points[o] \in Nat
      BY CreditedType DEF TypeOK, Pipeline!TypeOK
    <2>3. balance[u] + withdrawn[u] = SumFunctionOnSet(Points, rows)
      BY DEF BooksBalance, Withdrawals!Conservation, Credited
    <2> HIDE DEF rows
    <2>4. SumFunctionOnSet(Points, list) <= SumFunctionOnSet(Points, rows)
      BY <2>1, <2>2, SumOfPart
    <2> QED BY <2>3, <2>4
  <1>2. LedgerGuarantees => Withdrawals!Conservation BY DEF LedgerGuarantees
  <1> QED BY <1>1, <1>2, ServerTypeCorrect, BooksBalanceCorrect, LedgerGuaranteesHold, PTL

------------------------------------------------------------------------------
(***************************************************************************)
(* The process implements Bonus.                                           *)
(***************************************************************************)
Accepted == {o \in Orders : status[o] # "ABSENT"}
Granted == {o \in Orders : verdict[o] = "PROCESSED"}

\* What the two halves promise apart, as steps.
RewardNext ==
    \/ \E o \in Orders :
        \/ o \notin Accepted /\ Accepted' = Accepted \cup {o} /\ Granted' = Granted
        \/ o \in Accepted \ Granted /\ Granted' = Granted \cup {o} /\ Accepted' = Accepted
    \/ Accepted' = Accepted /\ Granted' = Granted

AccountNext ==
    \/ \E u \in Users, a \in Rewards : Withdrawals!Abstract!Earn(u, a)
    \/ \E u \in Users, a \in Amounts : Withdrawals!Abstract!Withdraw(u, a)
    \/ UNCHANGED <<balance, withdrawn>>

\* The pipeline implements RewardOnce inside the server as well.
LEMMA RewardInServer == Spec => [][RewardNext]_vars
  <1>1. P!Spec => P!RewardSpec BY P!RewardImplemented, HalvesAssumed
  <1>2. [P!Reward!Next]_(P!Reward!vars) => RewardNext
    BY DEF P!Reward!Next, P!Reward!vars, P!Reward!Accept, P!Reward!Grant, P!Reward!Credit,
           RewardNext, Accepted, Granted, P!Orders
  <1>3. RewardNext => [RewardNext]_vars OBVIOUS
  <1> QED BY <1>1, <1>2, <1>3, PipelineProofsApply, PTL DEF P!RewardSpec, P!Reward!Spec

\* The withdrawals implement Account inside the server as well.
LEMMA AccountInServer == Spec => [][AccountNext]_vars
  <1>1. L!Spec => L!AccountSpec BY L!AccountImplemented, HalvesAssumed
  <1>2. [L!Abstract!Next]_(L!Abstract!vars) => AccountNext
    BY DEF L!Abstract!Next, L!Abstract!vars, L!Abstract!Earn, L!Abstract!Withdraw,
           Withdrawals!Abstract!Earn, Withdrawals!Abstract!Withdraw, AccountNext
  <1>3. AccountNext => [AccountNext]_vars OBVIOUS
  <1> QED BY <1>1, <1>2, <1>3, LedgerProofsApply, PTL DEF L!AccountSpec, L!Abstract!Spec

\* The accrual of an order pays it to its owner.
LEMMA CreditPays ==
  ASSUME TypeOK, Pipeline!StoresTheVerdict, Pipeline!StatusFollowsCustody,
         NEW w \in Workers, NEW o \in Orders, Credit(w, o)
  PROVE  Promise!Pay(o)
  <1>1. /\ reply[w] = "PROCESSED" /\ workerPc[w] = "store"
        /\ o \notin accrual /\ accrual' = accrual \cup {o}
        /\ status' = [status EXCEPT ![o] = "PROCESSED"] /\ verdict' = verdict
    BY DEF Credit, Pipeline!StoreReply, Pipeline!PasteAccrual,
           Pipeline!DuplicateAccrual, Pipeline!SetStatus, Pipeline!database
  <1>2. verdict[o] = "PROCESSED"
    BY <1>1 DEF Pipeline!StoresTheVerdict, Pipeline!Verdicts, Credit
  <1>3. Granted' = Granted BY <1>1 DEF Granted
  <1>4. Accepted' = Accepted
    <2>1. status[o] = "PROCESSING" BY <1>1 DEF Pipeline!StatusFollowsCustody, Credit
    <2>2. status \in [Orders -> Pipeline!Statuses] BY DEF TypeOK, Pipeline!TypeOK
    <2> QED BY <1>1, <2>1, <2>2 DEF Accepted
  <1>5. o \in Granted BY <1>2 DEF Granted
  <1> QED BY <1>1, <1>3, <1>4, <1>5 DEF Promise!Pay, Accepted, Granted, Credit, Withdrawals!Earn

\* A step of the pipeline alone accepts an order, learns of a grant, or changes nothing.
LEMMA RewardAlone ==
  ASSUME RewardNext, UNCHANGED <<accrual, balance, withdrawn>>
  PROVE  [Promise!Next]_(Promise!vars)
  BY DEF RewardNext, Promise!Next, Promise!vars, Promise!Accept, Promise!Grant, Accepted, Granted

\* A step of the withdrawals alone takes points that the balance covers, or changes nothing.
LEMMA AccountAlone ==
  ASSUME TypeOK, TypeOK', Withdrawals!Conservation, Withdrawals!Conservation', AccountNext,
         UNCHANGED <<status, verdict, accrual, earned>>
  PROVE  [Promise!Next]_(Promise!vars)
  <1>1. UNCHANGED <<Accepted, Granted, accrual>> BY DEF Accepted, Granted
  <1>2. ASSUME NEW u \in Users, NEW a \in Amounts, Withdrawals!Abstract!Withdraw(u, a)
        PROVE  Promise!Withdraw(u, a)
    BY <1>1, <1>2 DEF Withdrawals!Abstract!Withdraw, Promise!Withdraw, Accepted, Granted
  <1>3. ASSUME NEW u \in Users, NEW a \in Rewards, Withdrawals!Abstract!Earn(u, a)
        PROVE  UNCHANGED <<balance, withdrawn>>
    <2>1. withdrawn' = withdrawn BY <1>3 DEF Withdrawals!Abstract!Earn
    <2>2. balance \in [Users -> Int] /\ balance' \in [Users -> Int]
          /\ withdrawn \in [Users -> Int] /\ earned \in [Users -> Nat]
      BY DEF TypeOK, Withdrawals!TypeOK
    <2>3. \A v \in Users : balance'[v] = balance[v]
      BY <2>1, <2>2 DEF Withdrawals!Conservation
    <2> QED BY <2>1, <2>2, <2>3
  <1> QED BY <1>1, <1>2, <1>3 DEF AccountNext, Promise!Next, Promise!vars, Accepted, Granted

\* Every step is one of Bonus, or changes nothing there.
LEMMA PromiseStep ==
  ASSUME TypeOK, TypeOK', Withdrawals!Conservation, Withdrawals!Conservation',
         Pipeline!StoresTheVerdict, Pipeline!StatusFollowsCustody,
         RewardNext, AccountNext, [Next]_vars
  PROVE  [Promise!Next]_(Promise!vars)
  <1>1. CASE LoopStep
    BY <1>1, RewardAlone DEF LoopStep, Pipeline!LoopStep, Pipeline!ReceiveError, Pipeline!Default,
       Pipeline!GetOrdersForProcessing, Pipeline!MarkProcessing, Pipeline!SetStatus,
       Pipeline!SendOrder, Pipeline!HandOver, Pipeline!Sleep, Pipeline!database
  <1>2. CASE Arrive
    BY <1>2, RewardAlone DEF Arrive, Pipeline!Upload, Pipeline!Decide, Pipeline!database
  <1>3. CASE \E w \in Workers : WorkerStep(w)
    BY <1>3, RewardAlone, CreditPays DEF WorkerStep, Promise!Next
  <1>4. CASE \E r \in Requests : RequestStep(r)
    BY <1>4, RequestStepUp, AccountAlone
       DEF RequestStep, Survives, Pipeline!Crash, Pipeline!Die, Pipeline!database
  <1>5. CASE \E r \in Requests : AwaitDone(r) \/ ClientStep(r)
    BY <1>5, RewardAlone DEF AwaitDone, ClientStep, Withdrawals!AwaitDone,
       Withdrawals!Begin, Withdrawals!Disconnect, Withdrawals!tables
  <1>6. CASE Die
    BY <1>6, RewardAlone DEF Die, Pipeline!Crash, Pipeline!Panic, Pipeline!Die,
       Pipeline!database, Withdrawals!Crash, Withdrawals!Exit, Withdrawals!tables
  <1>7. CASE Restart
    BY <1>7, RewardAlone DEF Restart, Pipeline!Restart, Withdrawals!Restart,
       Pipeline!database, Withdrawals!tables
  <1>8. CASE ListStep
    BY <1>8, RewardAlone DEF ListStep, Survives, Withdrawals!ListFails, Withdrawals!tables,
       Pipeline!Crash, Pipeline!Die, Pipeline!database
  <1>9. CASE UNCHANGED vars BY <1>9, RewardAlone
  <1> QED BY <1>1, <1>2, <1>3, <1>4, <1>5, <1>6, <1>7, <1>8, <1>9 DEF Next

(***************************************************************************)
(* The process as a whole implements Bonus: an order pays its owner its    *)
(* own points once, after it was accepted and granted, a withdrawal is one *)
(* step that the balance covers, and nothing else moves points, whatever   *)
(* the two halves do to each other, fail at, or die of.                    *)
(***************************************************************************)
THEOREM BonusImplemented == Spec => BonusSpec
  <1>1. Init => Promise!Init
    BY DEF Init, Pipeline!Init, Withdrawals!Init, Promise!Init
  <1>2. TypeOK /\ TypeOK' /\ Withdrawals!Conservation /\ Withdrawals!Conservation'
          /\ Pipeline!StoresTheVerdict /\ Pipeline!StatusFollowsCustody
          /\ [RewardNext]_vars /\ [AccountNext]_vars /\ [Next]_vars
        => [Promise!Next]_(Promise!vars)
    <2>1. UNCHANGED vars => RewardNext /\ AccountNext
      BY DEF RewardNext, AccountNext, Accepted, Granted
    <2> QED BY <2>1, PromiseStep
  <1>3. LedgerGuarantees => Withdrawals!Conservation BY DEF LedgerGuarantees
  <1>4. PipelineGuarantees => Pipeline!StoresTheVerdict /\ Pipeline!StatusFollowsCustody
    BY DEF PipelineGuarantees
  <1> QED BY <1>1, <1>2, <1>3, <1>4, ServerTypeCorrect, PipelineGuaranteesHold,
             LedgerGuaranteesHold, RewardInServer, AccountInServer, PTL
          DEF Spec, BonusSpec, Promise!Spec
==============================================================================
