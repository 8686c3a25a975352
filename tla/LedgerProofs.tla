----------------------------- MODULE LedgerProofs -----------------------------
(***************************************************************************)
(* Theorems about Ledger, for any users, numbers, requests and sums, and   *)
(* any bounds on accruals, failures and disconnects.                       *)
(***************************************************************************)
EXTENDS Ledger, FiniteSetTheorems, SumProofs, TLAPS

\* Rolling back an open or a closed transaction.
LEMMA RollBackEffect ==
    ASSUME TypeOK, NEW r \in Requests, NEW code \in {400, 402, 500}, RollBack(r, code)
    PROVE  \/ /\ open[r]
              /\ pc' = [pc EXCEPT ![r] = "answered"]
              /\ open' = [open EXCEPT ![r] = FALSE]
              /\ answer' = [answer EXCEPT ![r] = IF @ = 0 THEN code ELSE @]
              /\ UNCHANGED <<up, gone, ask, seen>>
           \/ Exit /\ ~open[r]
  BY DEF RollBack, Finish, Goto, Answer

------------------------------------------------------------------------------
(***************************************************************************)
(* Every step of a request is of one of these kinds: what the proofs below *)
(* split on.                                                               *)
(***************************************************************************)

\* It goes on in its transaction, with an answer at most for the sum of 0.
Advances(r) ==
    /\ \/ /\ pc[r] = "select" /\ pc' = [pc EXCEPT ![r] = "check"]
          /\ ~gone[r] /\ RowIsFree(ask[r].user)
          /\ seen' = [seen EXCEPT ![r] = balance[ask[r].user]]
       \/ /\ pc[r] = "check" /\ pc' = [pc EXCEPT ![r] = "update"]
          /\ ask[r].amount <= seen[r]
          /\ UNCHANGED seen
       \/ /\ pc[r] = "update" /\ pc' = [pc EXCEPT ![r] = "insert"]
          /\ UNCHANGED seen
       \/ /\ pc[r] = "insert" /\ pc' = [pc EXCEPT ![r] = "commit"]
          /\ ~gone[r] /\ NumberIsFree(ask[r].number)
          /\ withdrawal[ask[r].number] = NoRequest
          /\ UNCHANGED seen
    /\ UNCHANGED <<tables, up, ask, open, gone, answer, bounds>>

\* It is answered without an effect, and its transaction is over or left open.
Refused(r) ==
    /\ pc[r] \in {"select", "check", "update", "insert"}
    /\ pc' = [pc EXCEPT ![r] = "answered"]
    /\ \/ open' = [open EXCEPT ![r] = FALSE]
       \/ pc[r] = "insert" /\ UNCHANGED open
    /\ \E code \in {400, 402, 500} :
        /\ answer' = [answer EXCEPT ![r] = IF @ = 0 THEN code ELSE @]
        /\ code = 402 => pc[r] = "check" /\ open[r] /\ ask[r].amount > seen[r]
    /\ UNCHANGED <<tables, up, ask, seen, gone, earnings, disconnects, kills>>
    /\ faults' \in 0 .. MaxFaults

\* The process exits, for its own fault or another.
Exits ==
    /\ Exit
    /\ UNCHANGED <<tables, earnings, disconnects>>
    /\ faults' \in 0 .. MaxFaults
    /\ kills' \in 0 .. MaxKills

LEMMA RequestSteps ==
    ASSUME TypeOK, NEW r \in Requests, RequestStep(r)
    PROVE  Advances(r) \/ Refused(r) \/ Exits \/ Commit(r) \/ Reply(r)
<1>1. CASE SelectForUpdate(r)
  BY <1>1 DEF SelectForUpdate, Goto, Advances
<1>2. CASE CheckBalance(r)
  <2>1. CASE ask[r].amount > seen[r]
    <3>1. RollBack(r, 402) /\ pc[r] = "check" /\ UNCHANGED <<tables, bounds>>
      BY <1>2, <2>1 DEF CheckBalance
    <3>2. CASE Exit
      BY <3>1, <3>2 DEF Exits, tables, bounds, TypeOK
    <3>3. CASE ~Exit
      BY <2>1, <3>1, <3>3, RollBackEffect DEF Refused, bounds, TypeOK
    <3>4. QED  BY <3>2, <3>3
  <2>2. CASE ~(ask[r].amount > seen[r])
    <3>1. ask[r].amount \in Int /\ seen[r] \in Int
      BY LedgerAssumption DEF TypeOK, Asks, LedgerAssumption
    <3>2. QED  BY <1>2, <2>2, <3>1 DEF CheckBalance, Goto, Advances
  <2>3. QED  BY <2>1, <2>2
<1>3. CASE UpdateBalance(r)
  BY <1>3 DEF UpdateBalance, Goto, Advances
<1>4. CASE InsertWithdrawal(r)
  <2>1. CASE withdrawal[ask[r].number] = NoRequest
    BY <1>4, <2>1 DEF InsertWithdrawal, Goto, Advances
  <2>2. CASE withdrawal[ask[r].number] # NoRequest
    <3>1. RollBack(r, 400) /\ pc[r] = "insert" /\ UNCHANGED <<tables, bounds>>
      BY <1>4, <2>2 DEF InsertWithdrawal
    <3>2. CASE Exit
      BY <3>1, <3>2 DEF Exits, tables, bounds, TypeOK
    <3>3. CASE ~Exit
      BY <3>1, <3>3, RollBackEffect DEF Refused, bounds, TypeOK
    <3>4. QED  BY <3>2, <3>3
  <2>3. QED  BY <2>1, <2>2
<1>5. CASE \/ StatementFails(r) \/ RefusalFails(r)
           \/ BeginFails(r) \/ PrepareInsertFails(r) \/ CommitFails(r)
  <2>1. UNCHANGED <<earnings, disconnects, kills>> /\ faults' \in 0 .. MaxFaults
    BY <1>5, LedgerAssumption
       DEF StatementFails, RefusalFails, BeginFails, PrepareInsertFails, CommitFails,
           CallFails, ConnectionFails, TypeOK, LedgerAssumption
  <2>2. CASE StatementFails(r)
    <3>1. CASE Exit
      BY <2>1, <2>2, <3>1 DEF StatementFails, CallFails, ConnectionFails, Exits, TypeOK
    <3>2. CASE ~Exit
      BY <2>1, <2>2, <3>2, RollBackEffect DEF StatementFails, CallFails, Refused
    <3>3. QED  BY <3>1, <3>2
  <2>3. CASE BeginFails(r)
    BY <2>1, <2>3 DEF BeginFails, CallFails, Finish, Goto, Answer, Refused
  <2>4. CASE PrepareInsertFails(r)
    BY <2>1, <2>4 DEF PrepareInsertFails, CallFails, Goto, Answer, Refused
  <2>5. CASE CommitFails(r)
    BY <2>1, <2>5 DEF CommitFails, CallFails, Exits, TypeOK
  <2>6. CASE RefusalFails(r)
    BY <2>1, <2>6 DEF RefusalFails, ConnectionFails, Exits, TypeOK
  <2>7. QED  BY <1>5, <2>2, <2>3, <2>4, <2>5, <2>6
<1>6. QED
  BY <1>1, <1>2, <1>3, <1>4, <1>5 DEF RequestStep

------------------------------------------------------------------------------
\* The exit of the process preserves the types of what it changes.
LEMMA ExitType ==
    ASSUME TypeOK, Exit
    PROVE  /\ up' = FALSE
           /\ pc' \in [Requests -> Labels]
           /\ open' = [r \in Requests |-> FALSE]
           /\ \A r \in Requests : pc'[r] \notin InProgress
           /\ UNCHANGED <<ask, seen, gone, answer>>
  BY DEF Exit, TypeOK, Labels, InProgress, InTransaction

\* A commit and the answer to it preserve the type invariant.
LEMMA CommitType ==
    ASSUME TypeOK, NEW r \in Requests, Commit(r) \/ Reply(r)
    PROVE  TypeOK'
<1>1. ask[r].user \in Users /\ ask[r].amount \in Int /\ ask[r].number \in Numbers
  BY LedgerAssumption DEF TypeOK, Asks, LedgerAssumption
<1>2. CASE Commit(r)
  BY <1>1, <1>2 DEF TypeOK, Commit, Committed, Goto, Labels, InProgress, InTransaction, bounds
<1>3. CASE Reply(r)
  BY <1>3 DEF TypeOK, Reply, Finish, Goto, Answer, Labels, InProgress, InTransaction, Codes,
              tables, bounds
<1>4. QED  BY <1>2, <1>3

\* Every step of a request preserves the type invariant.
LEMMA TypeRequest ==
    ASSUME TypeOK, NEW r \in Requests, RequestStep(r)
    PROVE  TypeOK'
<1>1. CASE Advances(r)
  <2>1. ask[r].user \in Users
    BY DEF TypeOK, Asks
  <2>2. QED
    BY <1>1, <2>1 DEF TypeOK, Advances, Labels, InProgress, InTransaction, tables, bounds
<1>2. CASE Refused(r)
  <2>1. /\ pc' = [pc EXCEPT ![r] = "answered"]
        /\ \/ open' = [open EXCEPT ![r] = FALSE]
           \/ UNCHANGED open
        /\ UNCHANGED <<up, gone>>
    BY <1>2 DEF Refused
  <2>2. pc' \in [Requests -> Labels] /\ open' \in [Requests -> BOOLEAN]
    BY <2>1 DEF TypeOK, Labels
  <2>3. \A q \in Requests :
          /\ pc'[q] \in InProgress => up'
          /\ pc'[q] \in InTransaction => open'[q] \/ gone'[q]
          /\ open'[q] => pc'[q] \in InTransaction \cup {"answered"}
    BY <2>1 DEF TypeOK, InProgress, InTransaction
  <2>4. answer' \in [Requests -> Codes]
    <3>1. PICK code \in {400, 402, 500} :
            /\ answer' = [answer EXCEPT ![r] = IF @ = 0 THEN code ELSE @]
            /\ code = 402 => pc[r] = "check" /\ open[r] /\ ask[r].amount > seen[r]
      BY <1>2, Zenon DEF Refused
    <3>2. QED  BY <3>1 DEF TypeOK, Codes
  <2>5. QED
    BY <1>2, <2>2, <2>3, <2>4 DEF TypeOK, Refused, tables
<1>3. CASE Exits
  BY <1>3, ExitType DEF Exits, TypeOK, tables, InProgress
<1>4. CASE Commit(r) \/ Reply(r)
  BY <1>4, CommitType
<1>5. QED  BY <1>1, <1>2, <1>3, <1>4, RequestSteps

\* Every step preserves the type invariant.
LEMMA TypeStep ==
    ASSUME TypeOK, [Next]_vars
    PROVE  TypeOK'
<1>1. ASSUME NEW r \in Requests, Begin(r)
      PROVE  TypeOK'
  BY <1>1 DEF TypeOK, Begin, Goto, Answer, Labels, InProgress, InTransaction, Codes, tables, bounds
<1>2. ASSUME NEW r \in Requests, AwaitDone(r)
      PROVE  TypeOK'
  BY <1>2 DEF TypeOK, AwaitDone, InProgress, InTransaction, tables, bounds
<1>3. ASSUME NEW r \in Requests, Disconnect(r)
      PROVE  TypeOK'
  BY <1>3, LedgerAssumption DEF TypeOK, Disconnect, LedgerAssumption, InProgress, InTransaction, tables
<1>4. ASSUME NEW u \in Users, NEW a \in Rewards, Earn(u, a)
      PROVE  TypeOK'
  BY <1>4, LedgerAssumption DEF TypeOK, Earn, LedgerAssumption
<1>5. CASE Restart
  BY <1>5 DEF TypeOK, Restart, InProgress, InTransaction, tables, bounds
<1>6. CASE Crash
  <2>1. kills' \in 0 .. MaxKills /\ UNCHANGED <<tables, earnings, faults, disconnects>>
    BY <1>6, LedgerAssumption DEF Crash, TypeOK, LedgerAssumption
  <2>2. QED
    BY <1>6, <2>1, ExitType DEF Crash, TypeOK, InProgress, tables
<1>7. CASE ListFails
  <2>1. disconnects' \in 0 .. MaxDisconnects /\ UNCHANGED <<tables, earnings, faults, kills>>
    BY <1>7, LedgerAssumption DEF ListFails, TypeOK, LedgerAssumption
  <2>2. QED
    BY <1>7, <2>1, ExitType DEF ListFails, TypeOK, InProgress, tables
<1>8. CASE UNCHANGED vars
  BY <1>8 DEF TypeOK, vars
<1>9. QED
  BY <1>1, <1>2, <1>3, <1>4, <1>5, <1>6, <1>7, <1>8, TypeRequest DEF Next

(***************************************************************************)
(* The tables and the requests keep their types, and a request in progress *)
(* has its transaction open unless its client went away.                   *)
(***************************************************************************)
THEOREM LedgerTypeCorrect == Spec => []TypeOK
<1>1. Init => TypeOK
  BY LedgerAssumption DEF Init, TypeOK, LedgerAssumption, Labels, InProgress, InTransaction, Codes
<1>2. QED  BY <1>1, TypeStep, PTL DEF Spec

------------------------------------------------------------------------------
(***************************************************************************)
(* Locking: one transaction at most holds a row, one at most is inserting  *)
(* a number, what a transaction read is still so, and it was enough.       *)
(***************************************************************************)
RowIsExclusive ==
    \A r, q \in Requests :
        HoldsRow(r) /\ HoldsRow(q) /\ ask[r].user = ask[q].user => r = q

NumberIsExclusive ==
    \A r, q \in Requests :
        HoldsNumber(r) /\ HoldsNumber(q) /\ ask[r].number = ask[q].number => r = q

NumberIsUnused == \A r \in Requests : HoldsNumber(r) => withdrawal[ask[r].number] = NoRequest

SumIsCovered ==
    \A r \in Requests : pc[r] \in {"update", "insert", "commit"} => ask[r].amount <= seen[r]

Locking ==
    /\ RowIsExclusive
    /\ NumberIsExclusive
    /\ NumberIsUnused
    /\ SeenIsCurrent
    /\ SumIsCovered

\* A step that changes no row, takes no lock and no step forward preserves it.
LEMMA LockingKept ==
    ASSUME TypeOK, Locking, UNCHANGED <<balance, withdrawal, ask, seen>>,
           \A r \in Requests :
               /\ HoldsRow(r)' => HoldsRow(r)
               /\ HoldsNumber(r)' => HoldsNumber(r)
               /\ pc'[r] \in {"update", "insert", "commit"} => pc'[r] = pc[r]
    PROVE  Locking'
<1>1. RowIsExclusive' /\ NumberIsExclusive' /\ NumberIsUnused' /\ SeenIsCurrent'
  BY DEF Locking, RowIsExclusive, NumberIsExclusive, NumberIsUnused, SeenIsCurrent
<1>2. SumIsCovered'
  BY DEF Locking, SumIsCovered
<1>3. QED  BY <1>1, <1>2 DEF Locking

\* A transaction that goes on takes its locks and reads under them.
LEMMA LockingAdvances ==
    ASSUME TypeOK, Locking, NEW r \in Requests, Advances(r)
    PROVE  Locking'
<1>1. /\ UNCHANGED <<balance, withdrawal, ask, open>>
      /\ \A q \in Requests \ {r} : pc'[q] = pc[q] /\ seen'[q] = seen[q]
  BY DEF Advances, tables, TypeOK
<1>2. \A q \in Requests \ {r} :
        /\ HoldsRow(q)' <=> HoldsRow(q)
        /\ HoldsNumber(q)' <=> HoldsNumber(q)
  BY <1>1 DEF HoldsRow, HoldsNumber
<1>3. CASE pc[r] = "select"
  <2>1. /\ pc'[r] = "check"
        /\ RowIsFree(ask[r].user)
        /\ seen'[r] = balance[ask[r].user]
    BY <1>3 DEF Advances, TypeOK
  <2>2. ~HoldsNumber(r)'
    BY <2>1 DEF HoldsNumber
  <2>3. QED
    BY <1>1, <1>2, <2>1, <2>2
       DEF Locking, RowIsExclusive, NumberIsExclusive, NumberIsUnused, SeenIsCurrent,
           SumIsCovered, RowIsFree
<1>4. CASE pc[r] \in {"check", "update"}
  <2>1. /\ pc'[r] \in {"update", "insert"}
        /\ UNCHANGED seen
        /\ ask[r].amount <= seen[r]
    BY <1>4 DEF Advances, TypeOK, Locking, SumIsCovered
  <2>2. /\ ~HoldsNumber(r)'
        /\ HoldsRow(r)' <=> HoldsRow(r)
    BY <1>1, <1>4, <2>1 DEF HoldsNumber, HoldsRow
  <2>3. QED
    BY <1>1, <1>2, <2>1, <2>2
       DEF Locking, RowIsExclusive, NumberIsExclusive, NumberIsUnused, SeenIsCurrent, SumIsCovered
<1>5. CASE pc[r] = "insert"
  <2>1. /\ pc'[r] = "commit"
        /\ UNCHANGED seen
        /\ NumberIsFree(ask[r].number)
        /\ withdrawal[ask[r].number] = NoRequest
        /\ ask[r].amount <= seen[r]
    BY <1>5 DEF Advances, TypeOK, Locking, SumIsCovered
  <2>2. HoldsRow(r)' <=> HoldsRow(r)
    BY <1>1, <1>5, <2>1 DEF HoldsRow
  <2>3. QED
    BY <1>1, <1>2, <2>1, <2>2
       DEF Locking, RowIsExclusive, NumberIsExclusive, NumberIsUnused, SeenIsCurrent,
           SumIsCovered, NumberIsFree
<1>6. QED  BY <1>3, <1>4, <1>5 DEF Advances

\* A commit changes only the row and the number that its transaction holds.
LEMMA LockingCommit ==
    ASSUME TypeOK, Locking, NEW r \in Requests, Commit(r)
    PROVE  Locking'
<1>1. /\ HoldsRow(r) /\ HoldsNumber(r)
      /\ ask[r].user \in Users /\ ask[r].number \in Numbers
  BY DEF Commit, HoldsRow, HoldsNumber, TypeOK, InTransaction, Asks
<1>2. /\ UNCHANGED <<ask, seen>>
      /\ \A q \in Requests \ {r} : pc'[q] = pc[q] /\ open'[q] = open[q]
      /\ pc'[r] = "committed" /\ open'[r] = FALSE
      /\ \A u \in Users \ {ask[r].user} : balance'[u] = balance[u]
      /\ \A n \in Numbers \ {ask[r].number} : withdrawal'[n] = withdrawal[n]
  BY <1>1 DEF Commit, Committed, Goto, TypeOK
<1>3. /\ \A q \in Requests \ {r} : HoldsRow(q) => ask[q].user # ask[r].user
      /\ \A q \in Requests \ {r} : HoldsNumber(q) => ask[q].number # ask[r].number
  BY <1>1 DEF Locking, RowIsExclusive, NumberIsExclusive
<1>4. /\ ~HoldsRow(r)' /\ ~HoldsNumber(r)'
      /\ \A q \in Requests \ {r} :
            /\ HoldsRow(q)' <=> HoldsRow(q)
            /\ HoldsNumber(q)' <=> HoldsNumber(q)
  BY <1>2 DEF HoldsRow, HoldsNumber
<1>5. \A q \in Requests : ask[q].user \in Users /\ ask[q].number \in Numbers
  BY DEF TypeOK, Asks
<1>6. RowIsExclusive' /\ NumberIsExclusive'
  BY <1>2, <1>4 DEF Locking, RowIsExclusive, NumberIsExclusive
<1>7. NumberIsUnused' /\ SeenIsCurrent'
  BY <1>2, <1>3, <1>4, <1>5 DEF Locking, NumberIsUnused, SeenIsCurrent
<1>8. SumIsCovered'
  BY <1>2 DEF Locking, SumIsCovered
<1>9. QED  BY <1>6, <1>7, <1>8 DEF Locking

\* An accrual changes a row that no transaction holds.
LEMMA LockingEarn ==
    ASSUME TypeOK, Locking, NEW u \in Users, NEW a \in Rewards, Earn(u, a)
    PROVE  Locking'
<1>1. /\ UNCHANGED <<withdrawal, pc, ask, seen, open>>
      /\ RowIsFree(u)
      /\ \A v \in Users \ {u} : balance'[v] = balance[v]
  BY DEF Earn, TypeOK
<1>2. \A r \in Requests : ask[r].user \in Users
  BY DEF TypeOK, Asks
<1>3. SeenIsCurrent'
  BY <1>1, <1>2 DEF Locking, SeenIsCurrent, RowIsFree, HoldsRow
<1>4. QED
  BY <1>1, <1>3 DEF Locking, RowIsExclusive, NumberIsExclusive, NumberIsUnused, SumIsCovered,
                    HoldsRow, HoldsNumber

\* An exit ends every transaction.
LEMMA LockingExits ==
    ASSUME TypeOK, Locking, Exit
    PROVE  Locking'
<1>1. \A r \in Requests : ~open'[r] /\ pc'[r] \notin {"update", "insert", "commit"}
  BY ExitType DEF InProgress, InTransaction
<1>2. QED
  BY <1>1 DEF Locking, RowIsExclusive, NumberIsExclusive, NumberIsUnused, SeenIsCurrent,
              SumIsCovered, HoldsRow, HoldsNumber

\* Every step preserves the locking invariant.
LEMMA LockingStep ==
    ASSUME TypeOK, Locking, [Next]_vars
    PROVE  Locking'
<1>1. ASSUME NEW r \in Requests, Refused(r)
      PROVE  Locking'
  <2>1. /\ UNCHANGED <<balance, withdrawal, ask, seen>>
        /\ \A q \in Requests \ {r} : pc'[q] = pc[q] /\ open'[q] = open[q]
        /\ pc'[r] = "answered"
        /\ open'[r] => open[r] /\ pc[r] = "insert"
    BY <1>1 DEF Refused, tables, TypeOK
  <2>2. QED  BY <2>1, LockingKept DEF HoldsRow, HoldsNumber
<1>2. CASE Exits \/ Crash \/ ListFails
  BY <1>2, LockingExits DEF Exits, Crash, ListFails
<1>3. ASSUME NEW r \in Requests, Begin(r) \/ Reply(r) \/ AwaitDone(r) \/ Disconnect(r)
      PROVE  Locking'
  <2>1. /\ UNCHANGED <<balance, withdrawal, ask, seen>>
        /\ \A q \in Requests :
              /\ HoldsRow(q)' => HoldsRow(q)
              /\ HoldsNumber(q)' => HoldsNumber(q)
              /\ pc'[q] \in {"update", "insert", "commit"} => pc'[q] = pc[q]
    BY <1>3 DEF Begin, Reply, Finish, AwaitDone, Disconnect, Goto, HoldsRow, HoldsNumber, tables, TypeOK
  <2>2. QED  BY <2>1, LockingKept
<1>4. CASE Restart \/ UNCHANGED vars
  <2>1. UNCHANGED <<balance, withdrawal, pc, open, ask, seen>>
    BY <1>4 DEF Restart, tables, vars
  <2>2. QED  BY <2>1, LockingKept DEF HoldsRow, HoldsNumber
<1>5. QED
  BY <1>1, <1>2, <1>3, <1>4, LockingAdvances, LockingCommit, LockingEarn, RequestSteps DEF Next

LEMMA LockingInvariant == Spec => []Locking
<1>1. Init => Locking
  BY DEF Init, Locking, RowIsExclusive, NumberIsExclusive, NumberIsUnused, SeenIsCurrent,
         SumIsCovered, HoldsRow, HoldsNumber
<1>2. QED  BY <1>1, LockingStep, LedgerTypeCorrect, PTL DEF Spec

(***************************************************************************)
(* What a withdrawal read under FOR UPDATE is the balance until its        *)
(* transaction ends.                                                       *)
(***************************************************************************)
THEOREM SeenIsCurrentCorrect == Spec => []SeenIsCurrent
<1>1. Locking => SeenIsCurrent
  BY DEF Locking
<1>2. QED  BY <1>1, LockingInvariant, PTL

------------------------------------------------------------------------------
(***************************************************************************)
(* The money.                                                              *)
(***************************************************************************)

\* A step changes the tables by an accrual, by a withdrawal that is covered, or
\* not at all.
LEMMA TableSteps ==
    ASSUME TypeOK, Locking, [Next]_vars
    PROVE  \/ UNCHANGED tables
           \/ \E u \in Users, a \in Rewards : Earn(u, a)
           \/ \E r \in Requests :
                /\ Commit(r)
                /\ HoldsNumber(r)
                /\ ask[r].amount <= balance[ask[r].user]
<1>1. ASSUME NEW r \in Requests, Commit(r)
      PROVE  HoldsNumber(r) /\ ask[r].amount <= balance[ask[r].user]
  <2>1. HoldsRow(r) /\ HoldsNumber(r) /\ pc[r] = "commit"
    BY <1>1 DEF Commit, TypeOK, InTransaction, HoldsRow, HoldsNumber
  <2>2. QED  BY <2>1 DEF Locking, SeenIsCurrent, SumIsCovered
<1>2. ASSUME NEW r \in Requests, RequestStep(r), ~Commit(r)
      PROVE  UNCHANGED tables
  BY <1>2, RequestSteps DEF Advances, Refused, Exits, Reply
<1>3. ASSUME NEW r \in Requests, Begin(r) \/ AwaitDone(r) \/ Disconnect(r)
      PROVE  UNCHANGED tables
  BY <1>3 DEF Begin, AwaitDone, Disconnect
<1>4. CASE Crash \/ ListFails \/ Restart \/ UNCHANGED vars
  BY <1>4 DEF Crash, ListFails, Restart, tables, vars
<1>5. QED  BY <1>1, <1>2, <1>3, <1>4 DEF Next

(***************************************************************************)
(* No user's balance is ever negative, for any number of concurrent        *)
(* withdrawals of any sums.                                                *)
(***************************************************************************)
THEOREM NoOverdraftCorrect == Spec => []NoOverdraft
<1>1. Init => NoOverdraft
  BY DEF Init, NoOverdraft
<1>2. TypeOK /\ Locking /\ NoOverdraft /\ [Next]_vars => NoOverdraft'
  <2>1. SUFFICES ASSUME TypeOK, Locking, NoOverdraft, [Next]_vars PROVE NoOverdraft'
    OBVIOUS
  <2>2. ASSUME NEW u \in Users, NEW a \in Rewards, Earn(u, a)
        PROVE  NoOverdraft'
    BY <2>1, <2>2, LedgerAssumption DEF Earn, NoOverdraft, TypeOK, LedgerAssumption
  <2>3. ASSUME NEW r \in Requests, Commit(r), ask[r].amount <= balance[ask[r].user]
        PROVE  NoOverdraft'
    <3>1. ask[r].user \in Users /\ ask[r].amount \in Int
      BY <2>1, LedgerAssumption DEF TypeOK, Asks, LedgerAssumption
    <3>2. QED  BY <2>1, <2>3, <3>1 DEF Commit, NoOverdraft, TypeOK
  <2>4. CASE UNCHANGED tables
    BY <2>1, <2>4 DEF tables, NoOverdraft
  <2>5. QED  BY <2>1, <2>2, <2>3, <2>4, TableSteps
<1>3. QED  BY <1>1, <1>2, LedgerTypeCorrect, LockingInvariant, PTL DEF Spec

(***************************************************************************)
(* The balance and the withdrawals of a user always add up to what the     *)
(* user earned.                                                            *)
(***************************************************************************)
THEOREM ConservationCorrect == Spec => []Conservation
<1>1. Init => Conservation
  BY DEF Init, Conservation
<1>2. TypeOK /\ Locking /\ Conservation /\ [Next]_vars => Conservation'
  <2>1. SUFFICES ASSUME TypeOK, Locking, Conservation, [Next]_vars PROVE Conservation'
    OBVIOUS
  <2>2. ASSUME NEW u \in Users, NEW a \in Rewards, Earn(u, a)
        PROVE  Conservation'
    BY <2>1, <2>2, LedgerAssumption DEF Earn, Conservation, TypeOK, LedgerAssumption
  <2>3. ASSUME NEW r \in Requests, Commit(r)
        PROVE  Conservation'
    <3>1. ask[r].user \in Users /\ ask[r].amount \in Int
      BY <2>1, LedgerAssumption DEF TypeOK, Asks, LedgerAssumption
    <3>2. QED  BY <2>1, <2>3, <3>1 DEF Commit, Conservation, TypeOK
  <2>4. CASE UNCHANGED tables
    BY <2>1, <2>4 DEF tables, Conservation
  <2>5. QED  BY <2>1, <2>2, <2>3, <2>4, TableSteps
<1>3. QED  BY <1>1, <1>2, LedgerTypeCorrect, LockingInvariant, PTL DEF Spec

(***************************************************************************)
(* A withdrawal that was made stays, whoever uses its number again.        *)
(***************************************************************************)
THEOREM WithdrawalsAreKeptCorrect == Spec => WithdrawalsAreKept
<1>1. TypeOK /\ Locking /\ [Next]_vars =>
        [\A n \in Numbers : withdrawal[n] # NoRequest => withdrawal'[n] = withdrawal[n]]_vars
  <2>1. SUFFICES ASSUME TypeOK, Locking, [Next]_vars,
                        NEW n \in Numbers, withdrawal[n] # NoRequest
                 PROVE  withdrawal'[n] = withdrawal[n]
    OBVIOUS
  <2>2. ASSUME NEW r \in Requests, Commit(r), HoldsNumber(r)
        PROVE  withdrawal'[n] = withdrawal[n]
    BY <2>1, <2>2 DEF Commit, Locking, NumberIsUnused, TypeOK
  <2>3. QED  BY <2>1, <2>2, TableSteps DEF Earn, tables
<1>2. QED  BY <1>1, LedgerTypeCorrect, LockingInvariant, PTL DEF Spec, WithdrawalsAreKept

(***************************************************************************)
(* A client refused for lack of points lacks them when it is refused.      *)
(***************************************************************************)
THEOREM RefusedForLackOfPointsCorrect == Spec => RefusedForLackOfPoints
<1>1. TypeOK /\ Locking /\ [Next]_vars =>
        [\A r \in Requests : answer[r] # 402 /\ answer'[r] = 402 =>
            ask[r].amount > balance[ask[r].user]]_vars
  <2>1. SUFFICES ASSUME TypeOK, Locking, [Next]_vars,
                        NEW r \in Requests, answer[r] # 402, answer'[r] = 402
                 PROVE  ask[r].amount > balance[ask[r].user]
    OBVIOUS
  <2>2. ASSUME NEW q \in Requests, Refused(q)
        PROVE  HoldsRow(r) /\ ask[r].amount > seen[r]
    <3>1. PICK code \in {400, 402, 500} :
            /\ answer' = [answer EXCEPT ![q] = IF @ = 0 THEN code ELSE @]
            /\ code = 402 => pc[q] = "check" /\ open[q] /\ ask[q].amount > seen[q]
      BY <2>2, Zenon DEF Refused
    <3>2. q = r /\ code = 402
      BY <2>1, <3>1 DEF TypeOK
    <3>3. QED  BY <3>1, <3>2 DEF HoldsRow
  <2>3. ASSUME NEW q \in Requests, Advances(q) \/ Exits \/ Commit(q) \/ Reply(q)
        PROVE  FALSE
    BY <2>1, <2>3 DEF Advances, Exits, Exit, Commit, Committed, Reply, Finish, Answer, TypeOK
  <2>4. ASSUME NEW q \in Requests, Begin(q) \/ AwaitDone(q) \/ Disconnect(q)
        PROVE  FALSE
    BY <2>1, <2>4 DEF Begin, AwaitDone, Disconnect, Answer, TypeOK
  <2>5. CASE \/ Crash \/ ListFails \/ Restart \/ UNCHANGED vars
             \/ \E u \in Users, a \in Rewards : Earn(u, a)
    BY <2>1, <2>5 DEF Crash, ListFails, Exit, Restart, Earn, vars
  <2>6. QED
    BY <2>1, <2>2, <2>3, <2>4, <2>5, RequestSteps DEF Next, Locking, SeenIsCurrent
<1>2. QED  BY <1>1, LedgerTypeCorrect, LockingInvariant, PTL DEF Spec, RefusedForLackOfPoints

(***************************************************************************)
(* The transactions implement the account: every behaviour of the tables   *)
(* is one in which each withdrawal is a single step that the balance       *)
(* covers.                                                                 *)
(***************************************************************************)
THEOREM AccountImplemented == Spec => AccountSpec
<1>1. Init => Abstract!Init
  BY DEF Init, Abstract!Init
<1>2. TypeOK /\ Locking /\ [Next]_vars => [Abstract!Next]_(Abstract!vars)
  <2>1. SUFFICES ASSUME TypeOK, Locking, [Next]_vars
                 PROVE  [Abstract!Next]_(Abstract!vars)
    OBVIOUS
  <2>2. ASSUME NEW u \in Users, NEW a \in Rewards, Earn(u, a)
        PROVE  Abstract!Earn(u, a)
    BY <2>2 DEF Earn, Abstract!Earn
  <2>3. ASSUME NEW r \in Requests, Commit(r), ask[r].amount <= balance[ask[r].user]
        PROVE  /\ ask[r].user \in Users /\ ask[r].amount \in Amounts
               /\ Abstract!Withdraw(ask[r].user, ask[r].amount)
    BY <2>1, <2>3 DEF Commit, TypeOK, Asks, Abstract!Withdraw
  <2>4. QED
    BY <2>1, <2>2, <2>3, TableSteps DEF Abstract!Next, Abstract!vars, tables
<1>3. QED
  BY <1>1, <1>2, LedgerTypeCorrect, LockingInvariant, PTL DEF Spec, AccountSpec, Abstract!Spec

------------------------------------------------------------------------------
(***************************************************************************)
(* The books of the withdrawals: the rows are finitely many, and the sum   *)
(* of a user's rows is the user's sum of withdrawals.                      *)
(***************************************************************************)
RowsOf(u) == {r \in Requests : ask[r].user = u /\ withdrawal[ask[r].number] = r}

amounts == [r \in Requests |-> ask[r].amount]

RowsAddUp ==
    \A u \in Users :
        /\ IsFiniteSet(RowsOf(u))
        /\ withdrawn[u] = SumFunctionOnSet(amounts, RowsOf(u))

\* What a request asks for is settled before it begins.
LEMMA AskIsKept == ASSUME [Next]_vars PROVE ask' = ask
<1>1. ASSUME NEW r \in Requests, RequestStep(r)
      PROVE  ask' = ask
  BY <1>1 DEF RequestStep, SelectForUpdate, CheckBalance, UpdateBalance, InsertWithdrawal,
              Commit, Committed, Reply, StatementFails, RefusalFails, BeginFails,
              PrepareInsertFails, CommitFails, RollBack, Finish, Exit
<1>2. QED
  BY <1>1 DEF Next, Begin, AwaitDone, Disconnect, Earn, Crash, ListFails, Exit, Restart, vars

\* A commit adds its own row to the rows of its user, and no other.
LEMMA CommitAddsRow ==
    ASSUME TypeOK, Locking, RowsAddUp, NEW r \in Requests, Commit(r)
    PROVE  RowsAddUp'
<1> DEFINE u == ask[r].user
<1>1. /\ withdrawal[ask[r].number] = NoRequest
      /\ u \in Users /\ ask[r].number \in Numbers
  BY DEF Commit, Locking, NumberIsUnused, HoldsNumber, TypeOK, InTransaction, Asks
<1>2. /\ withdrawal' = [withdrawal EXCEPT ![ask[r].number] = r]
      /\ withdrawn' = [withdrawn EXCEPT ![u] = @ + ask[r].amount]
      /\ ask' = ask
  BY DEF Commit, Committed
<1>3. \A q \in Requests : withdrawal'[ask[q].number] = q <=>
          (q = r \/ withdrawal[ask[q].number] = q)
  <2>1. NoRequest \notin Requests BY LedgerAssumption
  <2>2. \A q \in Requests : ask[q].number \in Numbers BY DEF TypeOK, Asks
  <2> QED  BY <1>1, <1>2, <2>1, <2>2 DEF TypeOK
<1>4. amounts' = amounts /\ \A q \in Requests : amounts[q] \in Int
  BY <1>2, LedgerAssumption DEF amounts, TypeOK, Asks
<1>5. ASSUME NEW v \in Users
      PROVE  /\ IsFiniteSet(RowsOf(v))'
             /\ withdrawn'[v] = SumFunctionOnSet(amounts, RowsOf(v))'
  <2>1. CASE v # u
    <3>1. RowsOf(v)' = RowsOf(v) BY <1>2, <1>3, <2>1 DEF RowsOf
    <3>2. withdrawn'[v] = withdrawn[v] BY <1>2, <2>1 DEF TypeOK
    <3> QED  BY <1>4, <3>1, <3>2 DEF RowsAddUp
  <2>2. CASE v = u
    <3>1. RowsOf(v)' = RowsOf(v) \cup {r} BY <1>2, <1>3, <2>2 DEF RowsOf
    <3>2. r \notin RowsOf(v) BY <1>1, LedgerAssumption DEF RowsOf
    <3>3. IsFiniteSet(RowsOf(v)) /\ withdrawn[v] = SumFunctionOnSet(amounts, RowsOf(v))
      BY DEF RowsAddUp
    <3>4. amounts[r] \in Int /\ \A q \in RowsOf(v) : amounts[q] \in Int BY <1>4 DEF RowsOf
    <3>5. SumFunctionOnSet(amounts, RowsOf(v) \cup {r})
            = SumFunctionOnSet(amounts, RowsOf(v)) + amounts[r]
      <4> DEFINE rows == RowsOf(v)
      <4>1. IsFiniteSet(rows) /\ r \notin rows /\ \A q \in rows : amounts[q] \in Int
        BY <3>2, <3>3, <3>4
      <4> HIDE DEF rows
      <4>2. SumFunctionOnSet(amounts, rows \cup {r}) = SumFunctionOnSet(amounts, rows) + amounts[r]
        BY <3>4, <4>1, SumInsert
      <4> QED  BY <4>2 DEF rows
    <3>6. withdrawn'[v] = withdrawn[v] + amounts[r]
      BY <1>2, <2>2 DEF TypeOK, amounts
    <3>7. IsFiniteSet(RowsOf(v) \cup {r}) BY <3>3, FS_AddElement
    <3> QED  BY <1>4, <3>1, <3>3, <3>5, <3>6, <3>7
  <2> QED  BY <2>1, <2>2
<1> QED  BY <1>5 DEF RowsAddUp

(***************************************************************************)
(* The sum of withdrawals of a user is the sum of the rows a complete list *)
(* shows, for any requests and sums.                                       *)
(***************************************************************************)
THEOREM WithdrawnIsTheRowsCorrect == Spec => []WithdrawnIsTheRows
<1>1. Init => RowsAddUp
  <2> SUFFICES ASSUME Init, NEW u \in Users
               PROVE  RowsOf(u) = {} /\ withdrawn[u] = 0
    BY FS_EmptySet, SumEmpty DEF RowsAddUp
  <2> QED  BY LedgerAssumption DEF Init, RowsOf, Asks
<1>2. TypeOK /\ Locking /\ RowsAddUp /\ [Next]_vars => RowsAddUp'
  <2> SUFFICES ASSUME TypeOK, Locking, RowsAddUp, [Next]_vars PROVE RowsAddUp'
    OBVIOUS
  <2>1. CASE \E r \in Requests : Commit(r) BY <2>1, CommitAddsRow
  <2>2. CASE UNCHANGED <<withdrawn, withdrawal>>
    <3>1. ask' = ask BY AskIsKept
    <3>2. amounts' = amounts /\ \A u \in Users : RowsOf(u)' = RowsOf(u)
      BY <2>2, <3>1 DEF amounts, RowsOf
    <3> QED  BY <2>2, <3>2 DEF RowsAddUp
  <2>3. QED  BY <2>1, <2>2, TableSteps DEF tables, Earn
<1>3. RowsAddUp => WithdrawnIsTheRows
  <2>1. \A u \in Users : UNION ReadAllByUserID(u) = RowsOf(u)
    <3> SUFFICES ASSUME NEW u \in Users PROVE UNION ReadAllByUserID(u) = RowsOf(u)
      OBVIOUS
    <3>1. ReadAllByUserID(u) = SUBSET RowsOf(u) BY DEF ReadAllByUserID, RowsOf
    <3>2. UNION SUBSET RowsOf(u) = RowsOf(u) OBVIOUS
    <3> QED  BY <3>1, <3>2
  <2> QED  BY <2>1 DEF RowsAddUp, WithdrawnIsTheRows, amounts
<1>4. QED  BY <1>1, <1>2, <1>3, LedgerTypeCorrect, LockingInvariant, PTL DEF Spec

------------------------------------------------------------------------------
(***************************************************************************)
(* A request that has no answer yet has no row either; a request for the   *)
(* sum of 0, which is answered first and stored later, is the exception.   *)
(***************************************************************************)
OutcomeInv ==
    \A r \in Requests : ask[r].amount # 0 =>
        /\ pc[r] \in InTransaction \cup {"idle"} =>
                answer[r] = 0 /\ withdrawal[ask[r].number] # r
        /\ pc[r] = "committed" => answer[r] = 0 /\ withdrawal[ask[r].number] = r
        /\ pc[r] = "answered" => (answer[r] = 200 <=> withdrawal[ask[r].number] = r)

LEMMA OutcomeStep ==
    ASSUME TypeOK, Locking, OutcomeInv, [Next]_vars
    PROVE  OutcomeInv'
<1>1. \A r \in Requests : ask[r].number \in Numbers
  BY DEF TypeOK, Asks
<1>2. NoRequest \notin Requests
  BY LedgerAssumption DEF LedgerAssumption
<1>3. ASSUME NEW r \in Requests, Commit(r)
      PROVE  OutcomeInv'
  <2>1. /\ withdrawal[ask[r].number] = NoRequest
        /\ pc[r] = "commit"
    BY <1>3 DEF Commit, Locking, NumberIsUnused, HoldsNumber, TypeOK, InTransaction
  <2>2. /\ withdrawal' = [withdrawal EXCEPT ![ask[r].number] = r]
        /\ pc' = [pc EXCEPT ![r] = "committed"]
        /\ UNCHANGED <<ask, answer>>
    BY <1>3 DEF Commit, Committed, Goto
  <2>3. ask[r].amount # 0 => answer[r] = 0
    BY <2>1 DEF OutcomeInv, InTransaction
  <2>4. \A q \in Requests : withdrawal'[ask[q].number] = q <=>
            (q = r \/ withdrawal[ask[q].number] = q)
    BY <1>1, <1>2, <2>1, <2>2 DEF TypeOK
  <2>5. QED
    BY <2>2, <2>3, <2>4 DEF OutcomeInv, TypeOK, InTransaction
<1>4. CASE Exits \/ Crash \/ ListFails
  <2>1. /\ UNCHANGED <<ask, answer, withdrawal>>
        /\ \A q \in Requests :
              /\ pc'[q] \notin InProgress
              /\ pc[q] \notin InProgress => pc'[q] = pc[q]
              /\ pc[q] \in InProgress => pc'[q] = "lost"
    BY <1>4 DEF Exits, Crash, ListFails, Exit, InProgress, InTransaction, tables
  <2>2. QED
    BY <2>1 DEF OutcomeInv, InProgress, InTransaction
<1>5. ASSUME NEW r \in Requests, Advances(r)
      PROVE  OutcomeInv'
  BY <1>5 DEF Advances, OutcomeInv, TypeOK, InTransaction, tables
<1>6. ASSUME NEW r \in Requests, Refused(r)
      PROVE  OutcomeInv'
  <2>1. /\ pc[r] \in InTransaction
        /\ pc' = [pc EXCEPT ![r] = "answered"]
        /\ ask[r].amount # 0 => answer'[r] # 200
        /\ \A q \in Requests \ {r} : answer'[q] = answer[q]
        /\ UNCHANGED <<withdrawal, ask>>
    BY <1>6 DEF Refused, OutcomeInv, InTransaction, tables, TypeOK
  <2>2. QED  BY <2>1 DEF OutcomeInv, InTransaction, TypeOK
<1>7. ASSUME NEW r \in Requests, Begin(r)
      PROVE  OutcomeInv'
  <2>1. /\ pc[r] = "idle"
        /\ pc' = [pc EXCEPT ![r] = "select"]
        /\ ask[r].amount # 0 => answer'[r] = answer[r]
        /\ \A q \in Requests \ {r} : answer'[q] = answer[q]
        /\ UNCHANGED <<withdrawal, ask>>
    BY <1>7 DEF Begin, Goto, Answer, tables, TypeOK
  <2>2. QED  BY <1>1, <2>1 DEF OutcomeInv, InTransaction, TypeOK
<1>8. ASSUME NEW r \in Requests, Reply(r)
      PROVE  OutcomeInv'
  BY <1>8 DEF Reply, Finish, Goto, Answer, OutcomeInv, TypeOK, InTransaction, tables
<1>9. CASE \/ \E r \in Requests : AwaitDone(r) \/ Disconnect(r)
           \/ \E u \in Users, a \in Rewards : Earn(u, a)
           \/ Restart \/ UNCHANGED vars
  BY <1>9 DEF AwaitDone, Disconnect, Earn, Restart, OutcomeInv, tables, vars
<1>10. QED
  BY <1>3, <1>4, <1>5, <1>6, <1>7, <1>8, <1>9, RequestSteps DEF Next

(***************************************************************************)
(* A client is answered 200 exactly when its withdrawal was made, unless   *)
(* it asked for the sum of 0.                                              *)
(***************************************************************************)
THEOREM AnswerTellsOutcomeCorrect == Spec => []AnswerTellsOutcome
<1>1. Init => OutcomeInv
  BY LedgerAssumption DEF Init, OutcomeInv, InTransaction, LedgerAssumption, Asks
<1>2. TypeOK /\ Locking /\ OutcomeInv /\ [Next]_vars => OutcomeInv'
  BY OutcomeStep
<1>3. OutcomeInv => AnswerTellsOutcome
  BY DEF OutcomeInv, AnswerTellsOutcome
<1>4. QED  BY <1>1, <1>2, <1>3, LedgerTypeCorrect, LockingInvariant, PTL DEF Spec
==============================================================================
