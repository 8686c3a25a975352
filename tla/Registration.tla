---------------------------- MODULE Registration ----------------------------
(***************************************************************************)
(* Registration and login: RegisterHandler and LoginHandler, UserService,  *)
(* and the statements of UserRepository.  Create makes the user and its    *)
(* balance row in one transaction, which two of its error paths leave      *)
(* open; Read is one SELECT, and the password is compared after it.        *)
(*                                                                         *)
(* A user is the request that registered it.  The rows that a transaction  *)
(* has inserted are its own until it commits.  Salt and hash of a password *)
(* are left out: two hashes agree when the passwords do.                   *)
(***************************************************************************)
EXTENDS Naturals, FiniteSets

CONSTANTS
    Logins,
    Passwords,
    Requests,        \* bound: the requests clients make
    NoRequest,
    MaxFaults,       \* bound: failed database calls
    MaxDisconnects,  \* bound: clients that leave
    MaxCrashes       \* bound: deaths of the process

ASSUME RegistrationAssumption ==
    /\ NoRequest \notin Requests
    /\ MaxFaults \in Nat
    /\ MaxDisconnects \in Nat
    /\ MaxCrashes \in Nat

Asks == [kind : {"register", "login"}, login : Logins, password : Passwords]

VARIABLES
    account,    \* table "user": who registered a login (login is UNIQUE)
    balances,   \* table "user-balance": the users that have a row
    ask,        \* what each request asks for
    pc,         \* where it is
    open,       \* whether it has a transaction that has not ended
    written,    \* the rows it has inserted in that transaction
    found,      \* the user that a login has read
    answer,     \* the HTTP status it was answered with, 0 before
    cookie,     \* the user its auth cookie names
    gone,       \* whether its client has left
    confirmed,  \* history: the logins that came in after a registration with
                \* their credentials had been answered 200
    faults, disconnects, crashes

tables == <<account, balances>>
session == <<answer, cookie>>
bounds == <<faults, disconnects, crashes>>
vars == <<account, balances, ask, pc, open, written, found, answer, cookie, gone,
          confirmed, faults, disconnects, crashes>>

Creating == {"insertUser", "insertBalance", "commit"}
InProgress == Creating \cup {"respond", "read", "compare"}

Init ==
    /\ account = [l \in Logins |-> NoRequest]
    /\ balances = {}
    /\ ask \in [Requests -> Asks]
    /\ pc = [r \in Requests |-> "idle"]
    /\ open = [r \in Requests |-> FALSE]
    /\ written = [r \in Requests |-> {}]
    /\ found = [r \in Requests |-> NoRequest]
    /\ answer = [r \in Requests |-> 0]
    /\ cookie = [r \in Requests |-> NoRequest]
    /\ gone = [r \in Requests |-> FALSE]
    /\ confirmed = {}
    /\ faults = 0
    /\ disconnects = 0
    /\ crashes = 0

SameCredentials(q, r) ==
    ask[q].login = ask[r].login /\ ask[q].password = ask[r].password
IsRegistration(r) == ask[r].kind = "register"

Goto(r, label) == pc' = [pc EXCEPT ![r] = label]

\* An answer without a cookie.
Refuse(r, code) ==
    /\ Goto(r, "answered")
    /\ answer' = [answer EXCEPT ![r] = code]
    /\ UNCHANGED cookie

\* The handler names the user in a header; SetAuthWriter.WriteHeader makes a
\* cookie of it before the status is written.
Welcome(r, user) ==
    /\ Goto(r, "answered")
    /\ answer' = [answer EXCEPT ![r] = 200]
    /\ cookie' = [cookie EXCEPT ![r] = user]

\* The transaction of r ends.
End(r) ==
    /\ open' = [open EXCEPT ![r] = FALSE]
    /\ written' = [written EXCEPT ![r] = {}]

\* A call to the database fails: the context is cancelled, or the database is at fault.
CallFails(r) ==
    /\ \/ gone[r] /\ UNCHANGED faults
       \/ faults < MaxFaults /\ faults' = faults + 1
    /\ UNCHANGED <<disconnects, crashes>>

------------------------------------------------------------------------------
(***************************************************************************)
(* A request comes in, and a registration begins its transaction.          *)
(***************************************************************************)
BeginRegister(r) ==
    /\ pc[r] = "idle"
    /\ IsRegistration(r)
    /\ Goto(r, "insertUser")
    /\ open' = [open EXCEPT ![r] = TRUE]
    /\ UNCHANGED <<tables, ask, written, found, session, gone, confirmed, bounds>>

\* Some registration with the credentials of r has been answered 200.
ToldRegistered(r) ==
    \E q \in Requests : IsRegistration(q) /\ SameCredentials(q, r) /\ answer[q] = 200

BeginLogin(r) ==
    /\ pc[r] = "idle"
    /\ ~IsRegistration(r)
    /\ Goto(r, "read")
    /\ \/ ToldRegistered(r) /\ confirmed' = confirmed \cup {r}
       \/ ~ToldRegistered(r) /\ UNCHANGED confirmed
    /\ UNCHANGED <<tables, ask, open, written, found, session, gone, bounds>>

\* An INSERT of a login waits for the transaction that has inserted it.
LoginIsFree(r) ==
    \A q \in Requests \ {r} :
        "user" \in written[q] => ask[q].login # ask[r].login

\* Mutant: there is no unique index on the login.
InsertUser_NotUnique(r) ==
    /\ pc[r] = "insertUser"
    /\ open[r] /\ ~gone[r]
    /\ Goto(r, "insertBalance")
    /\ written' = [written EXCEPT ![r] = {"user"}]
    /\ UNCHANGED <<tables, ask, open, found, session, gone, confirmed, bounds>>

\* Mutant: the user is inserted through the pool, outside of the transaction.
InsertUser_OutsideTransaction(r) ==
    /\ pc[r] = "insertUser"
    /\ open[r] /\ ~gone[r]
    /\ IF account[ask[r].login] = NoRequest
       THEN /\ Goto(r, "insertBalance")
            /\ account' = [account EXCEPT ![ask[r].login] = r]
            /\ UNCHANGED session
       ELSE Refuse(r, 409) /\ UNCHANGED account
    /\ UNCHANGED <<balances, ask, open, written, found, gone, confirmed, bounds>>

\* A login that is taken is answered without a Rollback.
InsertUser(r) ==
    /\ pc[r] = "insertUser"
    /\ open[r] /\ ~gone[r]
    /\ LoginIsFree(r)
    /\ IF account[ask[r].login] = NoRequest
       THEN /\ Goto(r, "insertBalance")
            /\ written' = [written EXCEPT ![r] = {"user"}]
            /\ UNCHANGED session
       ELSE Refuse(r, 409) /\ UNCHANGED written
    /\ UNCHANGED <<tables, ask, open, found, gone, confirmed, bounds>>

InsertBalance(r) ==
    /\ pc[r] = "insertBalance"
    /\ open[r] /\ ~gone[r]
    /\ Goto(r, "commit")
    /\ written' = [written EXCEPT ![r] = @ \cup {"balance"}]
    /\ UNCHANGED <<tables, ask, open, found, session, gone, confirmed, bounds>>

\* What the committed transaction leaves in the tables.
Settle(r) ==
    /\ account' = IF "user" \in written[r] THEN [account EXCEPT ![ask[r].login] = r]
                  ELSE account
    /\ balances' = IF "balance" \in written[r] THEN balances \cup {r} ELSE balances
    /\ End(r)

\* Mutant: Create returns the user without a Commit.
Commit_Forgotten(r) ==
    /\ pc[r] = "commit"
    /\ Goto(r, "respond")
    /\ UNCHANGED <<tables, ask, open, written, found, session, gone, confirmed, bounds>>

Commit(r) ==
    /\ pc[r] = "commit"
    /\ open[r] /\ ~gone[r]
    /\ Settle(r)
    /\ Goto(r, "respond")
    /\ UNCHANGED <<ask, found, session, gone, confirmed, bounds>>

Respond(r) ==
    /\ pc[r] = "respond"
    /\ Welcome(r, r)
    /\ UNCHANGED <<tables, ask, open, written, found, gone, confirmed, bounds>>

\* A call of Create fails.  It is rolled back, by the code or with the lost
\* connection, but not when a PREPARE fails or a context ended before the Commit.
CreateFails(r) ==
    /\ pc[r] \in Creating
    /\ CallFails(r)
    /\ Refuse(r, 500)
    /\ \/ End(r)
       \/ /\ pc[r] # "commit" \/ gone[r]
          /\ UNCHANGED <<open, written>>
    /\ UNCHANGED <<tables, ask, found, gone, confirmed>>

\* The Commit takes effect, and its answer is lost or comes too late.
CommitUnknown(r) ==
    /\ pc[r] = "commit"
    /\ open[r]
    /\ CallFails(r)
    /\ Settle(r)
    /\ Refuse(r, 500)
    /\ UNCHANGED <<ask, found, gone, confirmed>>

------------------------------------------------------------------------------
\* Mutant: an empty result is not looked for.
ReadUser_NoErrNoRows(r) ==
    /\ pc[r] = "read"
    /\ found' = [found EXCEPT ![r] = account[ask[r].login]]
    /\ Goto(r, "compare")
    /\ UNCHANGED <<tables, ask, open, written, session, gone, confirmed, bounds>>

ReadUser(r) ==
    /\ pc[r] = "read"
    /\ ~gone[r]
    /\ found' = [found EXCEPT ![r] = account[ask[r].login]]
    /\ IF found'[r] = NoRequest
       THEN Refuse(r, 401)
       ELSE Goto(r, "compare") /\ UNCHANGED session
    /\ UNCHANGED <<tables, ask, open, written, gone, confirmed, bounds>>

ReadFails(r) ==
    /\ pc[r] = "read"
    /\ CallFails(r)
    /\ Refuse(r, 500)
    /\ UNCHANGED <<tables, ask, open, written, found, gone, confirmed>>

\* Mutant: the result of the comparison is not looked at.
ComparePassword_Ignored(r) ==
    /\ pc[r] = "compare"
    /\ Welcome(r, found[r])
    /\ UNCHANGED <<tables, ask, open, written, found, gone, confirmed, bounds>>

ComparePassword(r) ==
    /\ pc[r] = "compare"
    /\ IF ask[found[r]].password = ask[r].password
       THEN Welcome(r, found[r])
       ELSE Refuse(r, 401)
    /\ UNCHANGED <<tables, ask, open, written, found, gone, confirmed, bounds>>

------------------------------------------------------------------------------
\* Mutant: nothing ends the transaction of an answered request.
AwaitDone_GoneOnly(r) ==
    /\ open[r]
    /\ gone[r]
    /\ End(r)
    /\ UNCHANGED <<tables, ask, pc, found, session, gone, confirmed, bounds>>

\* database/sql rolls back what is still open when the context of the request
\* ends, which net/http also does when the handler has returned.
AwaitDone(r) ==
    /\ open[r]
    /\ gone[r] \/ pc[r] = "answered"
    /\ End(r)
    /\ UNCHANGED <<tables, ask, pc, found, session, gone, confirmed, bounds>>

\* The client closes its connection before it has the answer.
Disconnect(r) ==
    /\ pc[r] \in InProgress
    /\ ~gone[r]
    /\ disconnects < MaxDisconnects
    /\ disconnects' = disconnects + 1
    /\ gone' = [gone EXCEPT ![r] = TRUE]
    /\ UNCHANGED <<tables, ask, pc, open, written, found, session, confirmed,
                   faults, crashes>>

\* The process dies and is started again; PostgreSQL rolls back what was open.
Crash ==
    /\ \E r \in Requests : pc[r] \in InProgress
    /\ crashes < MaxCrashes
    /\ crashes' = crashes + 1
    /\ pc' = [r \in Requests |-> IF pc[r] \in InProgress THEN "lost" ELSE pc[r]]
    /\ open' = [r \in Requests |-> FALSE]
    /\ written' = [r \in Requests |-> {}]
    /\ UNCHANGED <<tables, ask, found, session, gone, confirmed, faults, disconnects>>

------------------------------------------------------------------------------
Register(r) ==
    InsertUser(r) \/ InsertBalance(r) \/ Commit(r) \/ Respond(r)
        \/ CreateFails(r) \/ CommitUnknown(r)
Authenticate(r) == ReadUser(r) \/ ReadFails(r) \/ ComparePassword(r)

Next ==
    \/ \E r \in Requests :
        \/ BeginRegister(r) \/ BeginLogin(r)
        \/ Register(r) \/ Authenticate(r)
        \/ AwaitDone(r) \/ Disconnect(r)
    \/ Crash

Spec == Init /\ [][Next]_vars

(***************************************************************************)
(* The goroutine of a request, and the one that watches its transaction,   *)
(* run when they can.                                                      *)
(***************************************************************************)
FairSpec ==
    /\ Spec
    /\ \A r \in Requests :
        WF_vars(Register(r) \/ Authenticate(r)) /\ WF_vars(AwaitDone(r))

------------------------------------------------------------------------------
Labels == InProgress \cup {"idle", "answered", "lost"}

(***************************************************************************)
(* Type invariant.  Only an open transaction has rows, a registration has  *)
(* the rows of the statements it is past unless it was rolled back behind  *)
(* its back, and a password is compared with that of a user.               *)
(***************************************************************************)
TypeOK ==
    /\ account \in [Logins -> Requests \cup {NoRequest}]
    /\ balances \in SUBSET Requests
    /\ ask \in [Requests -> Asks]
    /\ pc \in [Requests -> Labels]
    /\ open \in [Requests -> BOOLEAN]
    /\ written \in [Requests -> SUBSET {"user", "balance"}]
    /\ found \in [Requests -> Requests \cup {NoRequest}]
    /\ answer \in [Requests -> {0, 200, 401, 409, 500}]
    /\ cookie \in [Requests -> Requests \cup {NoRequest}]
    /\ gone \in [Requests -> BOOLEAN]
    /\ confirmed \in SUBSET Requests
    /\ faults \in 0 .. MaxFaults
    /\ disconnects \in 0 .. MaxDisconnects
    /\ crashes \in 0 .. MaxCrashes
    /\ \A r \in Requests :
        /\ written[r] # {} => open[r]
        /\ pc[r] = "insertBalance" /\ open[r] => written[r] = {"user"}
        /\ pc[r] = "commit" /\ open[r] => written[r] = {"user", "balance"}
        /\ pc[r] = "compare" => found[r] # NoRequest

(***************************************************************************)
(* Every user has a balance row and every balance row a user: a user       *)
(* without one could never earn, because the UPDATE of the worker that     *)
(* adds the points would match no row and report no error.                 *)
(***************************************************************************)
EveryUserHasBalance == {account[l] : l \in Logins} \ {NoRequest} = balances

(***************************************************************************)
(* The answer to a registration tells its client whether the login is its  *)
(* own: 200 goes to the request whose user was stored, 409 to one whose    *)
(* login another has.  A stored user was told so, unless its answer got    *)
(* lost with a call, the client or the process.                            *)
(***************************************************************************)
AnswerTellsRegistration ==
    \A r \in Requests : IsRegistration(r) /\ pc[r] \in {"answered", "lost"} =>
        LET user == account[ask[r].login] IN
        /\ answer[r] = 200 => user = r
        /\ answer[r] = 409 => user \notin {r, NoRequest}
        /\ user = r => answer[r] = 200 \/ pc[r] = "lost" \/ gone[r] \/ faults > 0

(***************************************************************************)
(* Who is let in is the user whose password was given, and a user that is  *)
(* stored with its balance.                                                *)
(***************************************************************************)
CookieNamesUser ==
    \A r \in Requests : answer[r] = 200 =>
        /\ cookie[r] = account[ask[r].login]
        /\ cookie[r] \in balances
        /\ SameCredentials(cookie[r], r)

(***************************************************************************)
(* Who has been told that the registration succeeded can log in: such a    *)
(* login is not answered 401, whatever registrations of the same login     *)
(* come in before, between and after.                                      *)
(***************************************************************************)
RegisteredMayLogIn == \A r \in confirmed : answer[r] # 401

(***************************************************************************)
(* Every request comes to an end, although an INSERT waits for the other   *)
(* transactions with its login and two error paths leave theirs open.      *)
(***************************************************************************)
RequestsEnd == \A r \in Requests : pc[r] \in InProgress ~> pc[r] \notin InProgress
==============================================================================
