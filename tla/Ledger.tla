-------------------------------- MODULE Ledger --------------------------------
(***************************************************************************)
(* Withdrawals: CreateWithdrawalHandler and the transaction of             *)
(* WithdrawalRepository.Create, statement by statement, for concurrent     *)
(* requests, together with the accruals that workers add to the balances.  *)
(*                                                                         *)
(* The transaction is bound to the context of its request (BeginTx(ctx)):  *)
(* when the client goes away, or once the request is answered, database/   *)
(* sql rolls back a transaction that is still open.  A Rollback or Commit  *)
(* of the code that comes after that fails with ErrTxDone, and the code    *)
(* answers such a failure with logger.Log.Fatal: the process exits.        *)
(***************************************************************************)
EXTENDS Integers, FiniteSets, Functions

CONSTANTS
    Users, Numbers,
    Requests,        \* bound: the withdrawal requests clients make
    Amounts,         \* the sums they ask for
    Rewards,         \* the points an accrual adds
    MaxEarnings,     \* bound: accruals
    MaxFaults,       \* bound: failed database calls
    MaxDisconnects,  \* bound: clients that go away
    MaxKills,        \* bound: deaths of the process for a reason outside of the requests
    NoRequest

ASSUME LedgerAssumption ==
    /\ Amounts \subseteq Int
    /\ Rewards \subseteq Nat
    /\ NoRequest \notin Requests
    /\ MaxEarnings \in Nat
    /\ MaxFaults \in Nat
    /\ MaxDisconnects \in Nat
    /\ MaxKills \in Nat

VARIABLES
    balance, withdrawn,   \* table "user-balance": balance and withdrawals_sum
    earned,               \* table "accrual": the sum of a user's rows
    withdrawal,           \* table "withdrawal": which request made the row of a number
    up,                   \* the process runs
    pc, ask,              \* where a request is, and what it asks for
    seen,                 \* the balance its SELECT read
    open,                 \* its transaction is neither committed nor rolled back
    gone,                 \* its client went away: the context is cancelled
    answer,               \* the HTTP status it was answered with, 0 before
    earnings, faults, disconnects, kills

tables == <<balance, withdrawn, earned, withdrawal>>
bounds == <<earnings, faults, disconnects, kills>>
vars == <<balance, withdrawn, earned, withdrawal, up, pc, ask, seen, open, gone,
          answer, earnings, faults, disconnects, kills>>

Asks == [user : Users, number : Numbers, amount : Amounts]
InTransaction == {"select", "check", "update", "insert", "commit"}
InProgress == InTransaction \cup {"committed"}

Init ==
    /\ balance = [u \in Users |-> 0]
    /\ withdrawn = [u \in Users |-> 0]
    /\ earned = [u \in Users |-> 0]
    /\ withdrawal = [n \in Numbers |-> NoRequest]
    /\ up = TRUE
    /\ pc = [r \in Requests |-> "idle"]
    /\ ask \in [Requests -> Asks]
    /\ seen = [r \in Requests |-> 0]
    /\ open = [r \in Requests |-> FALSE]
    /\ gone = [r \in Requests |-> FALSE]
    /\ answer = [r \in Requests |-> 0]
    /\ earnings = 0
    /\ faults = 0
    /\ disconnects = 0
    /\ kills = 0

------------------------------------------------------------------------------
\* Mutant: the SELECT is not FOR UPDATE, so that the UPDATE is the first to lock.
HoldsRow_NotForUpdate(r) == open[r] /\ pc[r] \in {"insert", "commit", "answered"}

\* Row locks last to the end of the transaction: the one SELECT ... FOR UPDATE
\* takes, and the entry of the INSERT in the unique index of the numbers.
HoldsRow(r) == open[r] /\ pc[r] \in {"check", "update", "insert", "commit", "answered"}

HoldsNumber(r) == open[r] /\ pc[r] = "commit"

RowIsFree(u) == \A r \in Requests : HoldsRow(r) => ask[r].user # u
NumberIsFree(n) == \A r \in Requests : HoldsNumber(r) => ask[r].number # n

\* The first status written to a response is the one the client gets.
Answer(r, code) ==
    answer' = [answer EXCEPT ![r] = IF @ = 0 THEN code ELSE @]

Goto(r, label) == pc' = [pc EXCEPT ![r] = label]

\* The transaction ends, and the request is answered.
Finish(r, code) ==
    /\ Goto(r, "answered")
    /\ open' = [open EXCEPT ![r] = FALSE]
    /\ Answer(r, code)
    /\ UNCHANGED <<up, gone, ask, seen>>

\* logger.Log.Fatal: every request in progress is lost, and every open transaction.
Exit ==
    /\ up' = FALSE
    /\ pc' = [r \in Requests |-> IF pc[r] \in InProgress THEN "lost" ELSE pc[r]]
    /\ open' = [r \in Requests |-> FALSE]
    /\ UNCHANGED <<ask, seen, gone, answer>>

\* transaction.Rollback(), and the answer if it succeeds.
RollBack(r, code) == IF open[r] THEN Finish(r, code) ELSE Exit

------------------------------------------------------------------------------
(***************************************************************************)
(* The handler accepts a request and begins the transaction.  A sum of 0   *)
(* is answered with 422, but the handler does not return.                  *)
(***************************************************************************)
Begin(r) ==
    /\ up
    /\ pc[r] = "idle"
    /\ Goto(r, "select")
    /\ open' = [open EXCEPT ![r] = TRUE]
    /\ IF ask[r].amount = 0 THEN Answer(r, 422) ELSE UNCHANGED answer
    /\ UNCHANGED <<tables, up, ask, seen, gone, bounds>>

\* SELECT balance ... FOR UPDATE waits for the lock on the row.
SelectForUpdate(r) ==
    /\ pc[r] = "select"
    /\ ~gone[r]
    /\ RowIsFree(ask[r].user)
    /\ seen' = [seen EXCEPT ![r] = balance[ask[r].user]]
    /\ Goto(r, "check")
    /\ UNCHANGED <<tables, up, ask, open, gone, answer, bounds>>

\* Mutant: the comparison admits one point too many.
CheckBalance_OffByOne(r) ==
    /\ pc[r] = "check"
    /\ IF ask[r].amount > seen[r] + 1
       THEN RollBack(r, 402)
       ELSE Goto(r, "update") /\ UNCHANGED <<up, ask, seen, open, gone, answer>>
    /\ UNCHANGED <<tables, bounds>>

CheckBalance(r) ==
    /\ pc[r] = "check"
    /\ IF ask[r].amount > seen[r]
       THEN RollBack(r, 402)
       ELSE Goto(r, "update") /\ UNCHANGED <<up, ask, seen, open, gone, answer>>
    /\ UNCHANGED <<tables, bounds>>

\* UPDATE "user-balance": nobody else sees it before the commit.
UpdateBalance(r) ==
    /\ pc[r] = "update"
    /\ ~gone[r]
    /\ Goto(r, "insert")
    /\ UNCHANGED <<tables, up, ask, seen, open, gone, answer, bounds>>

\* INSERT INTO withdrawal waits while another transaction is inserting the
\* number, and is rolled back if the number is taken.
InsertWithdrawal(r) ==
    /\ pc[r] = "insert"
    /\ ~gone[r]
    /\ NumberIsFree(ask[r].number)
    /\ IF withdrawal[ask[r].number] = NoRequest
       THEN Goto(r, "commit") /\ UNCHANGED <<up, ask, seen, open, gone, answer>>
       ELSE RollBack(r, 400)
    /\ UNCHANGED <<tables, bounds>>

\* The transaction is over in the database; the code does not know it yet.
Committed(r) ==
    /\ Goto(r, "committed")
    /\ open' = [open EXCEPT ![r] = FALSE]
    /\ UNCHANGED <<up, ask, seen, gone, answer, bounds>>

\* Mutant: the UPDATE forgets withdrawals_sum.
Commit_BalanceOnly(r) ==
    /\ pc[r] = "commit"
    /\ ~gone[r]
    /\ balance' = [balance EXCEPT ![ask[r].user] = @ - ask[r].amount]
    /\ withdrawal' = [withdrawal EXCEPT ![ask[r].number] = r]
    /\ Committed(r)
    /\ UNCHANGED <<withdrawn, earned>>

\* Mutant: the balance changes in a transaction of its own, without the row.
Commit_NoRow(r) ==
    /\ pc[r] = "commit"
    /\ ~gone[r]
    /\ balance' = [balance EXCEPT ![ask[r].user] = @ - ask[r].amount]
    /\ withdrawn' = [withdrawn EXCEPT ![ask[r].user] = @ + ask[r].amount]
    /\ Committed(r)
    /\ UNCHANGED <<withdrawal, earned>>

\* The commit takes effect, and what the statements wrote is in the tables.
Commit(r) ==
    LET u == ask[r].user  a == ask[r].amount IN
    /\ pc[r] = "commit"
    /\ ~gone[r]
    /\ balance' = [balance EXCEPT ![u] = @ - a]
    /\ withdrawn' = [withdrawn EXCEPT ![u] = @ + a]
    /\ withdrawal' = [withdrawal EXCEPT ![ask[r].number] = r]
    /\ Committed(r)
    /\ UNCHANGED earned

\* Commit returns without an error, and the handler answers.
Reply(r) ==
    /\ pc[r] = "committed"
    /\ Finish(r, 200)
    /\ UNCHANGED <<tables, bounds>>

------------------------------------------------------------------------------
\* A call to the database fails: the context is cancelled, or the database is at fault.
CallFails(r) ==
    /\ \/ gone[r] /\ UNCHANGED faults
       \/ faults < MaxFaults /\ faults' = faults + 1
    /\ UNCHANGED <<tables, earnings, disconnects, kills>>

\* The connection is lost, so that the Rollback of the code fails as well.
ConnectionFails ==
    /\ faults < MaxFaults
    /\ faults' = faults + 1
    /\ UNCHANGED <<tables, earnings, disconnects, kills>>

StatementFails(r) ==
    /\ pc[r] \in {"select", "update", "insert"}
    /\ \/ CallFails(r) /\ RollBack(r, 500)
       \/ ConnectionFails /\ Exit

\* The Rollback of a request that lacks the points fails.
RefusalFails(r) ==
    /\ pc[r] = "check"
    /\ ask[r].amount > seen[r]
    /\ ConnectionFails
    /\ Exit

\* BeginTx fails, or the PREPARE of the SELECT: no Fatal here.
BeginFails(r) ==
    /\ pc[r] = "select"
    /\ CallFails(r)
    /\ Finish(r, 500)

\* The PREPARE of the INSERT fails: answered without a Rollback.
PrepareInsertFails(r) ==
    /\ pc[r] = "insert"
    /\ CallFails(r)
    /\ Goto(r, "answered")
    /\ Answer(r, 500)
    /\ UNCHANGED <<up, ask, seen, open, gone>>

\* Commit returns an error, before or after it took effect.
CommitFails(r) ==
    /\ pc[r] \in {"commit", "committed"}
    /\ CallFails(r)
    /\ Exit

------------------------------------------------------------------------------
\* Mutant: the transaction has a deadline of its own, which its request does not know.
AwaitDone_Deadline(r) ==
    /\ open[r]
    /\ open' = [open EXCEPT ![r] = FALSE]
    /\ UNCHANGED <<tables, up, pc, ask, seen, gone, answer, bounds>>

\* Mutant: nothing ends the transaction of an answered request.
AwaitDone_GoneOnly(r) ==
    /\ open[r]
    /\ gone[r]
    /\ open' = [open EXCEPT ![r] = FALSE]
    /\ UNCHANGED <<tables, up, pc, ask, seen, gone, answer, bounds>>

\* database/sql rolls back what is still open when the context of the request
\* ends, which net/http also does when the handler has returned.
AwaitDone(r) ==
    /\ open[r]
    /\ gone[r] \/ pc[r] = "answered"
    /\ open' = [open EXCEPT ![r] = FALSE]
    /\ UNCHANGED <<tables, up, pc, ask, seen, gone, answer, bounds>>

\* The client closes its connection before it has the answer.
Disconnect(r) ==
    /\ pc[r] \in InProgress
    /\ ~gone[r]
    /\ disconnects < MaxDisconnects
    /\ disconnects' = disconnects + 1
    /\ gone' = [gone EXCEPT ![r] = TRUE]
    /\ UNCHANGED <<tables, up, pc, ask, seen, open, answer, earnings, faults, kills>>

\* A worker commits an accrual; its UPDATE waits for the lock on the row.
Earn(u, a) ==
    /\ up
    /\ earnings < MaxEarnings
    /\ earnings' = earnings + 1
    /\ RowIsFree(u)
    /\ balance' = [balance EXCEPT ![u] = @ + a]
    /\ earned' = [earned EXCEPT ![u] = @ + a]
    /\ UNCHANGED <<withdrawn, withdrawal, up, pc, ask, seen, open, gone, answer,
                   faults, disconnects, kills>>

\* Who asked for a list of withdrawals leaves before rows.Err() is looked at: Fatal.
ListFails ==
    /\ up
    /\ disconnects < MaxDisconnects
    /\ disconnects' = disconnects + 1
    /\ Exit
    /\ UNCHANGED <<tables, earnings, faults, kills>>

\* The process is killed, or a goroutine that is not a request's panics.
Crash ==
    /\ up
    /\ kills < MaxKills
    /\ kills' = kills + 1
    /\ Exit
    /\ UNCHANGED <<tables, earnings, faults, disconnects>>

Restart ==
    /\ ~up
    /\ up' = TRUE
    /\ UNCHANGED <<tables, pc, ask, seen, open, gone, answer, bounds>>

RequestStep(r) ==
    \/ SelectForUpdate(r) \/ CheckBalance(r) \/ UpdateBalance(r)
    \/ InsertWithdrawal(r) \/ Commit(r) \/ Reply(r)
    \/ StatementFails(r) \/ RefusalFails(r)
    \/ BeginFails(r) \/ PrepareInsertFails(r) \/ CommitFails(r)

Next ==
    \/ \E r \in Requests : Begin(r) \/ RequestStep(r) \/ AwaitDone(r) \/ Disconnect(r)
    \/ \E u \in Users, a \in Rewards : Earn(u, a)
    \/ ListFails
    \/ Crash
    \/ Restart

Spec == Init /\ [][Next]_vars

\* The goroutine of a request runs while it can, and so does database/sql's.
FairSpec ==
    /\ Spec
    /\ \A r \in Requests : WF_vars(RequestStep(r)) /\ WF_vars(AwaitDone(r))

------------------------------------------------------------------------------
\* The lists of withdrawals a user may be shown: the code does not look at rows.Err()
\* after its loop, so that a lost connection leaves out some rows without an error.
ReadAllByUserID(u) ==
    SUBSET {r \in Requests : ask[r].user = u /\ withdrawal[ask[r].number] = r}

Labels == InProgress \cup {"idle", "answered", "lost"}
Codes == {0, 200, 400, 402, 422, 500}

(***************************************************************************)
(* Type invariant, and what the labels say about the transaction: a        *)
(* request in progress needs a running process, and it has its transaction *)
(* open as long as its client is there.                                    *)
(***************************************************************************)
TypeOK ==
    /\ balance \in [Users -> Int] /\ withdrawn \in [Users -> Int]
    /\ earned \in [Users -> Nat]
    /\ withdrawal \in [Numbers -> Requests \cup {NoRequest}]
    /\ up \in BOOLEAN
    /\ pc \in [Requests -> Labels]
    /\ ask \in [Requests -> Asks]
    /\ seen \in [Requests -> Int]
    /\ open \in [Requests -> BOOLEAN] /\ gone \in [Requests -> BOOLEAN]
    /\ answer \in [Requests -> Codes]
    /\ earnings \in 0 .. MaxEarnings
    /\ faults \in 0 .. MaxFaults
    /\ disconnects \in 0 .. MaxDisconnects
    /\ kills \in 0 .. MaxKills
    /\ \A r \in Requests :
        /\ pc[r] \in InProgress => up
        /\ pc[r] \in InTransaction => open[r] \/ gone[r]
        /\ open[r] => pc[r] \in InTransaction \cup {"answered"}

(***************************************************************************)
(* The balance a request compared its sum with is still the balance when   *)
(* it is written: no withdrawal and no accrual comes between the SELECT    *)
(* and the end of the transaction.                                         *)
(***************************************************************************)
SeenIsCurrent ==
    \A r \in Requests :
        HoldsRow(r) => seen[r] = balance[ask[r].user]

\* No user has a negative balance, however many withdrawals run at once.
NoOverdraft == \A u \in Users : balance[u] >= 0

(***************************************************************************)
(* No points are lost or made: what a user earned is on the balance or in  *)
(* the sum of withdrawals, through failed statements, lost commits and     *)
(* exits of the process.                                                   *)
(***************************************************************************)
Conservation == \A u \in Users : balance[u] + withdrawn[u] = earned[u]

(***************************************************************************)
(* The sum of withdrawals of a user (GetBalances) is the sum of the rows   *)
(* that a complete list of withdrawals shows (ReadAllByUserID).            *)
(***************************************************************************)
WithdrawnIsTheRows ==
    \A u \in Users :
        withdrawn[u] = SumFunctionOnSet([r \in Requests |-> ask[r].amount],
                                        UNION ReadAllByUserID(u))

(***************************************************************************)
(* A request is answered 200 if and only if its row of the withdrawals is  *)
(* there: a client told of a failure can safely ask again.  A request for  *)
(* the sum of 0 is refused with 422 and made (handlers/withdrawal.go:59).  *)
(***************************************************************************)
AnswerTellsOutcome ==
    \A r \in Requests : pc[r] = "answered" /\ ask[r].amount # 0 =>
        (answer[r] = 200 <=> withdrawal[ask[r].number] = r)

\* A client is refused for lack of points only when it lacks them at that moment.
RefusedForLackOfPoints ==
    [][\A r \in Requests : answer[r] # 402 /\ answer'[r] = 402 =>
            ask[r].amount > balance[ask[r].user]]_vars

(***************************************************************************)
(* A withdrawal that was made stays: its number is never used for another  *)
(* one, of the same user or of another.                                    *)
(***************************************************************************)
WithdrawalsAreKept ==
    [][\A n \in Numbers : withdrawal[n] # NoRequest => withdrawal'[n] = withdrawal[n]]_vars

(***************************************************************************)
(* A request that began comes to an end: no two transactions wait for each *)
(* other's locks, and a transaction left open does not block the others.   *)
(***************************************************************************)
RequestsEnd == \A r \in Requests : pc[r] = "select" ~> pc[r] \in {"answered", "lost"}

\* The tables are those of the abstract account, statement by statement.
Abstract == INSTANCE Account
AccountSpec == Abstract!Spec
==============================================================================
