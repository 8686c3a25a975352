------------------------- MODULE RegistrationProofs -------------------------
(***************************************************************************)
(* Proofs about Registration: every user has its balance row, the answers  *)
(* tell whose a login is, and who was registered is let in, for any number *)
(* of requests, logins, faults, disconnects and crashes.                   *)
(***************************************************************************)
EXTENDS Registration, TLAPS

------------------------------------------------------------------------------
\* The steps of a request and of its transaction keep the types.
LEMMA TypeBegin ==
    ASSUME TypeOK, NEW r \in Requests, BeginRegister(r) \/ BeginLogin(r)
    PROVE  TypeOK'
<1>1. CASE BeginRegister(r)
  BY <1>1 DEF TypeOK, BeginRegister, Goto, tables, session, bounds, Labels, InProgress, Creating
<1>2. CASE BeginLogin(r)
  BY <1>2 DEF TypeOK, BeginLogin, Goto, tables, session, bounds, Labels, InProgress, Creating
<1>3. QED  BY <1>1, <1>2

LEMMA TypeInsertUser ==
    ASSUME TypeOK, NEW r \in Requests, InsertUser(r)
    PROVE  TypeOK'
BY DEF TypeOK, InsertUser, Goto, Refuse, tables, session, bounds, Labels, InProgress, Creating

LEMMA TypeInsertBalance ==
    ASSUME TypeOK, NEW r \in Requests, InsertBalance(r)
    PROVE  TypeOK'
BY DEF TypeOK, InsertBalance, Goto, tables, session, bounds, Labels, InProgress, Creating

LEMMA TypeCommit ==
    ASSUME TypeOK, NEW r \in Requests, Commit(r)
    PROVE  TypeOK'
BY DEF TypeOK, Commit, Settle, End, Goto, session, bounds, Labels, InProgress, Creating, Asks

LEMMA TypeRespond ==
    ASSUME TypeOK, NEW r \in Requests, Respond(r)
    PROVE  TypeOK'
BY DEF TypeOK, Respond, Welcome, Goto, tables, bounds, Labels, InProgress, Creating

LEMMA FaultType ==
    ASSUME TypeOK, NEW r \in Requests, CallFails(r)
    PROVE  /\ faults' \in 0 .. MaxFaults
           /\ UNCHANGED <<disconnects, crashes>>
BY RegistrationAssumption DEF TypeOK, CallFails

LEMMA TypeCreateFails ==
    ASSUME TypeOK, NEW r \in Requests, CreateFails(r)
    PROVE  TypeOK'
<1>1. /\ pc' = [pc EXCEPT ![r] = "answered"]
      /\ answer' = [answer EXCEPT ![r] = 500]
      /\ UNCHANGED <<tables, ask, found, cookie, gone, confirmed>>
      /\ CallFails(r)
      /\ End(r) \/ UNCHANGED <<open, written>>
  BY DEF CreateFails, Refuse, Goto
<1>2. pc' \in [Requests -> Labels] /\ answer' \in [Requests -> {0, 200, 401, 409, 500}]
  BY <1>1 DEF TypeOK, Labels
<1>3. CASE End(r)
  BY <1>1, <1>2, <1>3, FaultType DEF TypeOK, End, tables
<1>4. CASE UNCHANGED <<open, written>>
  BY <1>1, <1>2, <1>4, FaultType DEF TypeOK, tables
<1>5. QED  BY <1>1, <1>3, <1>4

LEMMA TypeCommitUnknown ==
    ASSUME TypeOK, NEW r \in Requests, CommitUnknown(r)
    PROVE  TypeOK'
<1>1. /\ pc' = [pc EXCEPT ![r] = "answered"]
      /\ answer' = [answer EXCEPT ![r] = 500]
      /\ UNCHANGED <<ask, found, cookie, gone, confirmed>>
      /\ CallFails(r)
      /\ Settle(r)
  BY DEF CommitUnknown, Refuse, Goto
<1>2. pc' \in [Requests -> Labels] /\ answer' \in [Requests -> {0, 200, 401, 409, 500}]
  BY <1>1 DEF TypeOK, Labels
<1>3. account' \in [Logins -> Requests \cup {NoRequest}] /\ balances' \in SUBSET Requests
  BY <1>1 DEF TypeOK, Settle, Asks
<1>4. QED  BY <1>1, <1>2, <1>3, FaultType DEF TypeOK, Settle, End

LEMMA TypeReadUser ==
    ASSUME TypeOK, NEW r \in Requests, ReadUser(r)
    PROVE  TypeOK'
<1>1. /\ ask[r].login \in Logins
      /\ found' \in [Requests -> Requests \cup {NoRequest}]
      /\ UNCHANGED <<tables, ask, open, written, cookie, gone, confirmed, bounds>>
  BY DEF TypeOK, ReadUser, Refuse, session, Asks
<1>2. CASE found'[r] = NoRequest
  BY <1>1, <1>2 DEF TypeOK, ReadUser, Refuse, Goto, tables, bounds, Labels
<1>3. CASE found'[r] # NoRequest
  BY <1>1, <1>3 DEF TypeOK, ReadUser, Goto, tables, session, bounds, Labels, InProgress
<1>4. QED  BY <1>2, <1>3

LEMMA TypeReadFails ==
    ASSUME TypeOK, NEW r \in Requests, ReadFails(r)
    PROVE  TypeOK'
BY FaultType DEF TypeOK, ReadFails, Refuse, Goto, tables, Labels, InProgress, Creating

LEMMA TypeComparePassword ==
    ASSUME TypeOK, NEW r \in Requests, ComparePassword(r)
    PROVE  TypeOK'
BY DEF TypeOK, ComparePassword, Welcome, Refuse, Goto, tables, bounds, Labels, InProgress, Creating

LEMMA TypeAwaitDone ==
    ASSUME TypeOK, NEW r \in Requests, AwaitDone(r)
    PROVE  TypeOK'
BY DEF TypeOK, AwaitDone, End, tables, session, bounds

LEMMA TypeDisconnect ==
    ASSUME TypeOK, NEW r \in Requests, Disconnect(r)
    PROVE  TypeOK'
BY RegistrationAssumption DEF TypeOK, Disconnect, tables, session

LEMMA TypeCrash ==
    ASSUME TypeOK, Crash
    PROVE  TypeOK'
BY RegistrationAssumption DEF TypeOK, Crash, tables, session, Labels

LEMMA TypeStep ==
    ASSUME TypeOK, [Next]_vars
    PROVE  TypeOK'
<1>1. ASSUME NEW r \in Requests, Register(r)
      PROVE  TypeOK'
  BY <1>1, TypeInsertUser, TypeInsertBalance, TypeCommit, TypeRespond, TypeCreateFails,
     TypeCommitUnknown DEF Register
<1>2. ASSUME NEW r \in Requests, Authenticate(r)
      PROVE  TypeOK'
  BY <1>2, TypeReadUser, TypeReadFails, TypeComparePassword DEF Authenticate
<1>3. CASE UNCHANGED vars
  BY <1>3 DEF TypeOK, vars
<1>4. QED
  BY <1>1, <1>2, <1>3, TypeBegin, TypeAwaitDone, TypeDisconnect, TypeCrash DEF Next

(***************************************************************************)
(* The variables keep their types, and an open transaction has the rows of *)
(* the statements its request is past.                                     *)
(***************************************************************************)
THEOREM RegistrationTypeCorrect == Spec => []TypeOK
<1>1. Init => TypeOK
  BY RegistrationAssumption DEF Init, TypeOK, Labels, Asks
<1>2. TypeOK /\ [Next]_vars => TypeOK'
  BY TypeStep
<1>3. QED  BY <1>1, <1>2, PTL DEF Spec

------------------------------------------------------------------------------
(***************************************************************************)
(* The strengthening of EveryUserHasBalance: a user has the login it asked *)
(* for, a row that is still in a transaction is that of a login nobody     *)
(* has, and one transaction at most has inserted a login.                  *)
(***************************************************************************)
KindInv ==
    \A r \in Requests :
        /\ pc[r] \in Creating \cup {"respond"} => IsRegistration(r)
        /\ pc[r] \in {"read", "compare"} => ~IsRegistration(r)

AccountInv ==
    \A l \in Logins : account[l] # NoRequest =>
        IsRegistration(account[l]) /\ ask[account[l]].login = l

WrittenInv ==
    /\ \A r \in Requests : "user" \in written[r] =>
        IsRegistration(r) /\ account[ask[r].login] = NoRequest
    /\ \A q, r \in Requests :
        "user" \in written[q] /\ "user" \in written[r] /\ ask[q].login = ask[r].login => q = r

RowsInv == KindInv /\ AccountInv /\ WrittenInv /\ EveryUserHasBalance

\* The steps that store a user, with what they do to the rows.
Stores(r) ==
    /\ pc[r] = "commit"
    /\ written[r] = {"user", "balance"}
    /\ account' = [account EXCEPT ![ask[r].login] = r]
    /\ balances' = balances \cup {r}
    /\ written' = [written EXCEPT ![r] = {}]
    /\ pc'[r] \in {"respond", "answered"}

\* The steps that insert a user in a transaction.
Inserts(r) ==
    /\ pc[r] = "insertUser"
    /\ LoginIsFree(r)
    /\ account[ask[r].login] = NoRequest
    /\ written' = [written EXCEPT ![r] = {"user"}]

\* The steps that insert no user.
InsertsNone == \A r \in Requests : "user" \in written'[r] => "user" \in written[r]

\* What a step does to the rows.
LEMMA RowsStep ==
    ASSUME TypeOK, [Next]_vars
    PROVE  /\ UNCHANGED ask
           /\ \/ \E r \in Requests : Stores(r)
              \/ UNCHANGED tables /\ (InsertsNone \/ \E r \in Requests : Inserts(r))
<1> DEFINE Goal == /\ UNCHANGED ask
                   /\ \/ \E r \in Requests : Stores(r)
                      \/ /\ UNCHANGED tables
                         /\ InsertsNone \/ \E r \in Requests : Inserts(r)
<1>1. ASSUME NEW r \in Requests, Commit(r) \/ CommitUnknown(r)
      PROVE  Goal
  <2>1. Stores(r) /\ UNCHANGED ask
    BY <1>1 DEF TypeOK, Commit, CommitUnknown, Settle, End, Refuse, Goto, Stores
  <2>2. QED  BY <2>1
<1>2. ASSUME NEW r \in Requests, InsertUser(r)
      PROVE  Goal
  <2>1. CASE account[ask[r].login] = NoRequest
    <3>1. Inserts(r) /\ UNCHANGED <<tables, ask>>
      BY <1>2, <2>1 DEF InsertUser, Inserts
    <3>2. QED  BY <3>1
  <2>2. CASE account[ask[r].login] # NoRequest
    BY <1>2, <2>2 DEF InsertUser, InsertsNone
  <2>3. QED  BY <2>1, <2>2
<1>3. ASSUME NEW r \in Requests, InsertBalance(r)
      PROVE  Goal
  BY <1>3 DEF TypeOK, InsertBalance, InsertsNone
<1>4. ASSUME NEW r \in Requests, CreateFails(r) \/ AwaitDone(r)
      PROVE  Goal
  BY <1>4 DEF TypeOK, CreateFails, AwaitDone, End, InsertsNone
<1>5. CASE Crash
  BY <1>5 DEF Crash, InsertsNone
<1>6. ASSUME NEW r \in Requests,
             \/ BeginRegister(r) \/ BeginLogin(r) \/ Respond(r)
             \/ Authenticate(r) \/ Disconnect(r)
      PROVE  UNCHANGED <<tables, ask, written>>
  BY <1>6 DEF BeginRegister, BeginLogin, Respond, Authenticate, ReadUser, ReadFails,
              ComparePassword, Disconnect
<1>7. CASE UNCHANGED <<tables, ask, written>>
  BY <1>7 DEF InsertsNone
<1>8. CASE UNCHANGED vars
  BY <1>7, <1>8 DEF vars, tables
<1>9. QED
  BY <1>1, <1>2, <1>3, <1>4, <1>5, <1>6, <1>7, <1>8 DEF Next, Register

\* A user keeps its login for ever.
LEMMA AccountsAreKept ==
    ASSUME TypeOK, WrittenInv, [Next]_vars, NEW l \in Logins, account[l] # NoRequest
    PROVE  account'[l] = account[l]
<1>1. ASSUME NEW r \in Requests, Stores(r)
      PROVE  account'[l] = account[l]
  BY <1>1 DEF TypeOK, WrittenInv, Stores
<1>2. QED  BY <1>1, RowsStep DEF tables

\* Registrations take the steps of Create, logins those of Read.
LEMMA KindStep ==
    ASSUME TypeOK, KindInv, [Next]_vars
    PROVE  KindInv'
<1> USE DEF KindInv, IsRegistration, TypeOK, Creating
<1>1. ASSUME NEW r \in Requests, BeginRegister(r) \/ BeginLogin(r)
      PROVE  KindInv'
  BY <1>1 DEF BeginRegister, BeginLogin, Goto
<1>2. ASSUME NEW r \in Requests, InsertUser(r) \/ InsertBalance(r) \/ Commit(r)
      PROVE  KindInv'
  BY <1>2 DEF InsertUser, InsertBalance, Commit, Refuse, Goto
<1>3. ASSUME NEW r \in Requests, Respond(r) \/ CreateFails(r) \/ CommitUnknown(r)
      PROVE  KindInv'
  BY <1>3 DEF Respond, CreateFails, CommitUnknown, Welcome, Refuse, Goto
<1>4. ASSUME NEW r \in Requests, Authenticate(r)
      PROVE  KindInv'
  BY <1>4 DEF Authenticate, ReadUser, ReadFails, ComparePassword, Welcome, Refuse, Goto
<1>5. ASSUME NEW r \in Requests, AwaitDone(r) \/ Disconnect(r)
      PROVE  KindInv'
  BY <1>5 DEF AwaitDone, Disconnect
<1>6. CASE Crash
  BY <1>6 DEF Crash
<1>7. CASE UNCHANGED vars
  BY <1>7 DEF vars
<1>8. QED
  BY <1>1, <1>2, <1>3, <1>4, <1>5, <1>6, <1>7 DEF Next, Register

LEMMA RowsInvStep ==
    ASSUME TypeOK, RowsInv, [Next]_vars
    PROVE  RowsInv'
<1> USE DEF RowsInv
<1>1. KindInv'
  BY KindStep
<1>2. ASSUME NEW r \in Requests, Stores(r), UNCHANGED ask
      PROVE  AccountInv' /\ WrittenInv' /\ EveryUserHasBalance'
  <2>1. ask[r].login \in Logins /\ account[ask[r].login] = NoRequest /\ IsRegistration(r)
    BY <1>2 DEF TypeOK, WrittenInv, Stores, Asks
  <2>2. AccountInv'
    BY <1>2, <2>1 DEF TypeOK, AccountInv, Stores, IsRegistration
  <2>3. WrittenInv'
    BY <1>2, <2>1 DEF TypeOK, WrittenInv, Stores, IsRegistration
  <2>4. {account'[l] : l \in Logins} \ {NoRequest} = balances \cup {r}
    <3>1. \A l \in Logins : account'[l] = IF l = ask[r].login THEN r ELSE account[l]
      BY <1>2, <2>1 DEF TypeOK, Stores
    <3>2. r # NoRequest
      BY RegistrationAssumption
    <3>3. QED  BY <2>1, <3>1, <3>2 DEF EveryUserHasBalance
  <2>5. QED  BY <1>2, <2>2, <2>3, <2>4 DEF EveryUserHasBalance, Stores
<1>3. ASSUME UNCHANGED ask, UNCHANGED tables
      PROVE  AccountInv' /\ EveryUserHasBalance'
  BY <1>3 DEF AccountInv, EveryUserHasBalance, tables, IsRegistration
<1>4. ASSUME UNCHANGED ask, UNCHANGED tables, InsertsNone
      PROVE  WrittenInv'
  BY <1>4 DEF WrittenInv, InsertsNone, tables, IsRegistration
<1>5. ASSUME UNCHANGED ask, UNCHANGED tables, NEW r \in Requests, Inserts(r)
      PROVE  WrittenInv'
  <2>1. IsRegistration(r)
    BY <1>5 DEF KindInv, Inserts, Creating
  <2>2. \A q \in Requests : "user" \in written'[q] => q = r \/ "user" \in written[q]
    BY <1>5 DEF TypeOK, Inserts
  <2>3. QED
    BY <1>5, <2>1, <2>2 DEF WrittenInv, Inserts, LoginIsFree, tables, IsRegistration
<1>6. QED  BY <1>1, <1>2, <1>3, <1>4, <1>5, RowsStep

(***************************************************************************)
(* Users and balance rows come in pairs, through every fault, disconnect   *)
(* and death of the process.                                               *)
(***************************************************************************)
THEOREM EveryUserHasBalanceCorrect == Spec => []EveryUserHasBalance
<1>1. Init => RowsInv
  BY DEF Init, RowsInv, KindInv, AccountInv, WrittenInv, EveryUserHasBalance, Creating
<1>2. TypeOK /\ RowsInv /\ [Next]_vars => RowsInv'
  BY RowsInvStep
<1>3. RowsInv => EveryUserHasBalance
  BY DEF RowsInv
<1>4. QED  BY <1>1, <1>2, <1>3, RegistrationTypeCorrect, PTL DEF Spec

------------------------------------------------------------------------------
(***************************************************************************)
(* The strengthening of the properties about answers: who is not answered  *)
(* has no answer, a registration has its login when it is about to say so, *)
(* and the user that a login has read, or was told of, is the one that has *)
(* the login now.                                                          *)
(***************************************************************************)
ProgressInv ==
    \A r \in Requests :
        /\ pc[r] # "answered" => answer[r] = 0
        /\ pc[r] = "respond" => account[ask[r].login] = r
        /\ pc[r] = "compare" => found[r] = account[ask[r].login]
        /\ pc[r] \in Creating \cup {"idle"} => \A l \in Logins : account[l] # r

ConfirmedInv ==
    \A r \in confirmed :
        /\ account[ask[r].login] # NoRequest
        /\ SameCredentials(account[ask[r].login], r)

\* What a step does to a request that does not make it.
Waits(q) ==
    /\ answer'[q] = answer[q]
    /\ cookie'[q] = cookie[q]
    /\ found'[q] = found[q]
    /\ \/ pc'[q] = pc[q]
       \/ pc[q] = "idle" /\ pc'[q] \in {"insertUser", "read"}
       \/ pc[q] \in InProgress /\ pc'[q] = "lost"

LEMMA Bystander ==
    ASSUME TypeOK, [Next]_vars, NEW q \in Requests
    PROVE  Register(q) \/ Authenticate(q) \/ Waits(q)
<1> USE DEF Waits, TypeOK
<1>1. ASSUME NEW r \in Requests, r # q,
             InsertUser(r) \/ InsertBalance(r) \/ Commit(r) \/ Respond(r)
      PROVE  Waits(q)
  BY <1>1 DEF InsertUser, InsertBalance, Commit, Respond, Welcome, Refuse, Goto, session
<1>2. ASSUME NEW r \in Requests, r # q, CreateFails(r) \/ CommitUnknown(r)
      PROVE  Waits(q)
  BY <1>2 DEF CreateFails, CommitUnknown, Refuse, Goto
<1>3. ASSUME NEW r \in Requests, r # q, ReadUser(r)
      PROVE  Waits(q)
  BY <1>3 DEF ReadUser, Refuse, Goto, session
<1>4. ASSUME NEW r \in Requests, r # q, ReadFails(r) \/ ComparePassword(r)
      PROVE  Waits(q)
  BY <1>4 DEF ReadFails, ComparePassword, Welcome, Refuse, Goto
<1>5. ASSUME NEW r \in Requests, BeginRegister(r) \/ BeginLogin(r)
      PROVE  Waits(q)
  BY <1>5 DEF BeginRegister, BeginLogin, Goto, session
<1>6. ASSUME NEW r \in Requests, AwaitDone(r) \/ Disconnect(r)
      PROVE  Waits(q)
  BY <1>6 DEF AwaitDone, Disconnect, session
<1>7. CASE Crash
  BY <1>7 DEF Crash, session
<1>8. CASE UNCHANGED vars
  BY <1>8 DEF vars
<1>9. QED
  BY <1>1, <1>2, <1>3, <1>4, <1>5, <1>6, <1>7, <1>8 DEF Next, Register, Authenticate

\* A step of Create or of Read, from the label of the request on.
LEMMA Acts ==
    ASSUME TypeOK, NEW q \in Requests, Register(q) \/ Authenticate(q)
    PROVE  \/ /\ pc[q] \in {"insertUser", "insertBalance"}
              /\ pc'[q] \in {"insertBalance", "commit"}
              /\ answer'[q] = answer[q]
           \/ /\ pc[q] = "commit" /\ pc'[q] = "respond"
              /\ account' = [account EXCEPT ![ask[q].login] = q]
              /\ answer'[q] = answer[q]
           \/ /\ pc[q] = "insertUser" /\ pc'[q] = "answered"
              /\ account[ask[q].login] # NoRequest
              /\ answer'[q] = 409
           \/ pc[q] \in Creating /\ pc'[q] = "answered" /\ answer'[q] = 500
           \/ /\ pc[q] = "respond" /\ pc'[q] = "answered"
              /\ answer'[q] = 200 /\ cookie'[q] = q
           \/ /\ pc[q] = "read" /\ pc'[q] = "compare"
              /\ found'[q] = account[ask[q].login]
              /\ answer'[q] = answer[q]
           \/ /\ pc[q] = "read" /\ pc'[q] = "answered"
              /\ account[ask[q].login] = NoRequest
              /\ answer'[q] = 401
           \/ pc[q] = "read" /\ pc'[q] = "answered" /\ answer'[q] = 500
           \/ /\ pc[q] = "compare" /\ pc'[q] = "answered"
              /\ ask[found[q]].password = ask[q].password
              /\ answer'[q] = 200 /\ cookie'[q] = found[q]
           \/ /\ pc[q] = "compare" /\ pc'[q] = "answered"
              /\ ask[found[q]].password # ask[q].password
              /\ answer'[q] = 401
<1> USE DEF TypeOK
<1>1. CASE InsertUser(q)
  BY <1>1 DEF InsertUser, Refuse, Goto, session
<1>2. CASE InsertBalance(q)
  BY <1>2 DEF InsertBalance, Goto, session
<1>3. CASE Commit(q)
  BY <1>3 DEF Commit, Settle, Goto, session
<1>4. CASE Respond(q)
  BY <1>4 DEF Respond, Welcome, Goto
<1>5. CASE CreateFails(q) \/ CommitUnknown(q)
  BY <1>5 DEF CreateFails, CommitUnknown, Refuse, Goto, Creating
<1>6. CASE ReadUser(q)
  BY <1>6 DEF ReadUser, Refuse, Goto, session
<1>7. CASE ReadFails(q)
  BY <1>7 DEF ReadFails, Refuse, Goto
<1>8. CASE ComparePassword(q)
  BY <1>8 DEF ComparePassword, Welcome, Refuse, Goto
<1>9. QED
  BY <1>1, <1>2, <1>3, <1>4, <1>5, <1>6, <1>7, <1>8 DEF Register, Authenticate

\* Only its own registration makes a user of a request.
LEMMA BecomesUser ==
    ASSUME TypeOK, [Next]_vars, NEW q \in Requests, NEW l \in Logins,
           account'[l] = q, account[l] # q
    PROVE  pc[q] = "commit" /\ pc'[q] \in {"respond", "answered"}
<1>1. ASSUME NEW r \in Requests, Stores(r)
      PROVE  pc[q] = "commit" /\ pc'[q] \in {"respond", "answered"}
  BY <1>1 DEF TypeOK, Stores
<1>2. QED  BY <1>1, RowsStep DEF tables

LEMMA BalancesAreKept ==
    ASSUME TypeOK, [Next]_vars
    PROVE  balances \subseteq balances'
<1>1. ASSUME NEW r \in Requests, Stores(r)
      PROVE  balances \subseteq balances'
  BY <1>1 DEF Stores
<1>2. QED  BY <1>1, RowsStep DEF tables

SessionInv == ProgressInv /\ ConfirmedInv /\ CookieNamesUser

LEMMA ProgressStep ==
    ASSUME TypeOK, RowsInv, ProgressInv, [Next]_vars
    PROVE  ProgressInv'
<1> SUFFICES ASSUME NEW q \in Requests
             PROVE  /\ pc'[q] # "answered" => answer'[q] = 0
                    /\ pc'[q] = "respond" => account'[ask'[q].login] = q
                    /\ pc'[q] = "compare" => found'[q] = account'[ask'[q].login]
                    /\ pc'[q] \in Creating \cup {"idle"} => \A l \in Logins : account'[l] # q
  BY DEF ProgressInv
<1>1. ask' = ask /\ ask[q].login \in Logins /\ q # NoRequest
  BY RowsStep, RegistrationAssumption DEF TypeOK, Asks
<1>2. account[ask[q].login] # NoRequest => account'[ask[q].login] = account[ask[q].login]
  BY <1>1, AccountsAreKept DEF RowsInv
<1>3. ASSUME pc'[q] \in Creating \cup {"idle"}, pc[q] \in Creating \cup {"idle"}
      PROVE  \A l \in Logins : account'[l] # q
  BY <1>3, BecomesUser DEF ProgressInv, Creating
<1>4. CASE Waits(q)
  BY <1>1, <1>2, <1>3, <1>4 DEF TypeOK, ProgressInv, Waits, Creating, InProgress
<1>5. CASE Register(q) \/ Authenticate(q)
  <2>1. pc'[q] # "answered" => answer'[q] = 0
    BY <1>5, Acts DEF ProgressInv
  <2>2. pc'[q] = "respond" => account'[ask'[q].login] = q
    BY <1>1, <1>5, Acts DEF TypeOK, Creating
  <2>3. pc'[q] = "compare" => found'[q] = account'[ask'[q].login]
    <3>1. SUFFICES ASSUME pc'[q] = "compare"
                   PROVE  found'[q] = account'[ask'[q].login]
      OBVIOUS
    <3>2. found'[q] = account[ask[q].login]
      BY <1>5, <3>1, Acts
    <3>3. QED  BY <1>1, <1>2, <1>5, <3>1, <3>2, TypeStep DEF TypeOK
  <2>4. pc'[q] \in Creating \cup {"idle"} => pc[q] \in Creating \cup {"idle"}
    BY <1>5, Acts DEF Creating
  <2>5. QED  BY <2>1, <2>2, <2>3, <2>4, <1>3
<1>6. QED  BY <1>4, <1>5, Bystander

LEMMA CookieStep ==
    ASSUME TypeOK, RowsInv, SessionInv, [Next]_vars
    PROVE  CookieNamesUser'
<1> SUFFICES ASSUME NEW q \in Requests, answer'[q] = 200
             PROVE  /\ cookie'[q] = account'[ask'[q].login]
                    /\ cookie'[q] \in balances'
                    /\ SameCredentials(cookie[q], q)'
  BY DEF CookieNamesUser
<1>1. ask' = ask /\ ask[q].login \in Logins /\ q # NoRequest
  BY RowsStep, RegistrationAssumption DEF TypeOK, Asks
<1>2. balances \subseteq balances' /\ NoRequest \notin balances
  BY BalancesAreKept, RegistrationAssumption DEF TypeOK
<1>3. account[ask[q].login] # NoRequest =>
        /\ account'[ask[q].login] = account[ask[q].login]
        /\ account[ask[q].login] \in balances
        /\ ask[account[ask[q].login]].login = ask[q].login
  BY <1>1, AccountsAreKept DEF RowsInv, AccountInv, EveryUserHasBalance
<1>4. ASSUME cookie'[q] = account[ask[q].login], account[ask[q].login] # NoRequest,
             SameCredentials(cookie'[q], q)
      PROVE  /\ cookie'[q] = account'[ask'[q].login]
             /\ cookie'[q] \in balances'
             /\ SameCredentials(cookie[q], q)'
  BY <1>1, <1>2, <1>3, <1>4 DEF SameCredentials
<1>5. CASE answer[q] = 200 /\ cookie'[q] = cookie[q]
  BY <1>2, <1>4, <1>5 DEF SessionInv, CookieNamesUser, SameCredentials
<1>6. CASE pc[q] = "respond" /\ cookie'[q] = q
  BY <1>1, <1>4, <1>6 DEF SessionInv, ProgressInv, SameCredentials
<1>7. CASE /\ pc[q] = "compare"
           /\ ask[found[q]].password = ask[q].password
           /\ cookie'[q] = found[q]
  <2>1. found[q] = account[ask[q].login] /\ found[q] # NoRequest
    BY <1>7 DEF TypeOK, SessionInv, ProgressInv
  <2>2. QED  BY <1>3, <1>4, <1>7, <2>1 DEF SameCredentials
<1>8. CASE Register(q) \/ Authenticate(q)
  <2>1. pc[q] # "answered"
    BY <1>8, Acts DEF Creating
  <2>2. answer[q] = 0
    BY <2>1 DEF SessionInv, ProgressInv
  <2>3. QED  BY <1>6, <1>7, <1>8, <2>2, Acts
<1>9. QED  BY <1>5, <1>8, Bystander DEF Waits

\* A login is confirmed when it comes in, and by a registration that was answered.
LEMMA ConfirmedMoves ==
    ASSUME [Next]_vars
    PROVE  \/ confirmed' = confirmed
           \/ \E r \in Requests :
                /\ ToldRegistered(r)
                /\ confirmed' = confirmed \cup {r}
                /\ pc[r] = "idle"
                /\ answer' = answer
<1>1. ASSUME NEW r \in Requests, BeginLogin(r)
      PROVE  \/ confirmed' = confirmed
             \/ /\ ToldRegistered(r)
                /\ confirmed' = confirmed \cup {r}
                /\ pc[r] = "idle"
                /\ answer' = answer
  BY <1>1 DEF BeginLogin, session
<1>2. ASSUME NEW r \in Requests, BeginRegister(r) \/ Register(r)
      PROVE  confirmed' = confirmed
  BY <1>2 DEF BeginRegister, Register, InsertUser, InsertBalance, Commit, Respond,
              CreateFails, CommitUnknown
<1>3. ASSUME NEW r \in Requests, Authenticate(r) \/ AwaitDone(r) \/ Disconnect(r)
      PROVE  confirmed' = confirmed
  BY <1>3 DEF Authenticate, ReadUser, ReadFails, ComparePassword, AwaitDone, Disconnect
<1>4. CASE Crash \/ UNCHANGED vars
  BY <1>4 DEF Crash, vars
<1>5. QED  BY <1>1, <1>2, <1>3, <1>4 DEF Next

LEMMA ConfirmedStep ==
    ASSUME TypeOK, RowsInv, SessionInv, [Next]_vars
    PROVE  ConfirmedInv'
<1>1. ASSUME NEW r \in Requests,
             account[ask[r].login] # NoRequest,
             SameCredentials(account[ask[r].login], r)
      PROVE  /\ account'[ask'[r].login] # NoRequest
             /\ SameCredentials(account[ask[r].login], r)'
  <2>1. ask' = ask /\ ask[r].login \in Logins
    BY RowsStep DEF TypeOK, Asks
  <2>2. account'[ask[r].login] = account[ask[r].login]
    BY <1>1, <2>1, AccountsAreKept DEF RowsInv
  <2>3. QED  BY <1>1, <2>1, <2>2 DEF SameCredentials
<1>2. ASSUME NEW r \in Requests, ToldRegistered(r)
      PROVE  account[ask[r].login] # NoRequest /\ SameCredentials(account[ask[r].login], r)
  <2>1. PICK q \in Requests : SameCredentials(q, r) /\ answer[q] = 200
    BY <1>2 DEF ToldRegistered
  <2>2. /\ cookie[q] = account[ask[q].login]
        /\ cookie[q] \in balances
        /\ SameCredentials(cookie[q], q)
    BY <2>1 DEF SessionInv, CookieNamesUser
  <2>3. QED
    BY <2>1, <2>2, RegistrationAssumption DEF TypeOK, SameCredentials
<1>3. ASSUME NEW r \in confirmed'
      PROVE  /\ account[ask[r].login] # NoRequest
             /\ SameCredentials(account[ask[r].login], r)
  BY <1>2, <1>3, ConfirmedMoves DEF SessionInv, ConfirmedInv
<1>4. confirmed' \subseteq Requests
  BY TypeStep DEF TypeOK
<1>5. QED  BY <1>1, <1>3, <1>4 DEF ConfirmedInv

LEMMA SessionStep ==
    ASSUME TypeOK, RowsInv, SessionInv, [Next]_vars
    PROVE  SessionInv'
BY ProgressStep, CookieStep, ConfirmedStep DEF SessionInv

LEMMA SessionCorrect == Spec => [](TypeOK /\ RowsInv /\ SessionInv)
<1>1. Init => TypeOK /\ RowsInv /\ SessionInv
  <2>1. ASSUME Init
        PROVE  RowsInv
    BY <2>1 DEF Init, RowsInv, KindInv, AccountInv, WrittenInv, EveryUserHasBalance, Creating
  <2>2. ASSUME Init
        PROVE  SessionInv
    BY <2>2, RegistrationAssumption
       DEF Init, SessionInv, ProgressInv, ConfirmedInv, CookieNamesUser, Creating
  <2>3. ASSUME Init
        PROVE  TypeOK
    BY <2>3, RegistrationAssumption DEF Init, TypeOK, Labels, Asks
  <2>4. QED  BY <2>1, <2>2, <2>3
<1>2. TypeOK /\ RowsInv /\ SessionInv /\ [Next]_vars => (TypeOK /\ RowsInv /\ SessionInv)'
  BY TypeStep, RowsInvStep, SessionStep
<1>3. QED  BY <1>1, <1>2, PTL DEF Spec

(***************************************************************************)
(* Whoever gets a cookie gave the password of the user it names, and that  *)
(* user is stored with its balance.                                        *)
(***************************************************************************)
THEOREM CookieNamesUserCorrect == Spec => []CookieNamesUser
<1>1. SessionInv => CookieNamesUser
  BY DEF SessionInv
<1>2. QED  BY <1>1, SessionCorrect, PTL

(***************************************************************************)
(* Who has been told that the registration succeeded is not refused a      *)
(* login later, whatever else goes on.                                     *)
(***************************************************************************)
THEOREM RegisteredMayLogInCorrect == Spec => []RegisteredMayLogIn
<1> DEFINE Inv == TypeOK /\ RowsInv /\ SessionInv
<1>1. Init => RegisteredMayLogIn
  BY DEF Init, RegisteredMayLogIn
<1>2. ASSUME Inv, RegisteredMayLogIn, [Next]_vars
      PROVE  RegisteredMayLogIn'
  <2>1. SUFFICES ASSUME NEW q \in confirmed', answer'[q] = 401
                 PROVE  FALSE
    BY DEF RegisteredMayLogIn
  <2>2. q \in Requests
    BY <1>2, <2>1, TypeStep DEF TypeOK
  <2>3. CASE q \in confirmed
    <3>1. account[ask[q].login] # NoRequest /\ SameCredentials(account[ask[q].login], q)
      BY <1>2, <2>3 DEF SessionInv, ConfirmedInv
    <3>2. CASE Register(q) \/ Authenticate(q)
      <4>1. pc[q] # "answered"
        BY <1>2, <2>2, <3>2, Acts DEF Creating
      <4>2. answer[q] = 0
        BY <1>2, <2>2, <4>1 DEF SessionInv, ProgressInv
      <4>3. pc[q] = "compare" /\ ask[found[q]].password # ask[q].password
        BY <1>2, <2>1, <2>2, <3>1, <3>2, <4>2, Acts
      <4>4. found[q] = account[ask[q].login]
        BY <1>2, <2>2, <4>3 DEF SessionInv, ProgressInv
      <4>5. QED  BY <3>1, <4>3, <4>4 DEF SameCredentials
    <3>3. CASE Waits(q)
      BY <1>2, <2>1, <2>3, <3>3 DEF RegisteredMayLogIn, Waits
    <3>4. QED  BY <1>2, <2>2, <3>2, <3>3, Bystander
  <2>4. CASE q \notin confirmed
    <3>1. pc[q] = "idle" /\ answer' = answer
      BY <1>2, <2>1, <2>4, ConfirmedMoves
    <3>2. QED  BY <1>2, <2>1, <2>2, <3>1 DEF SessionInv, ProgressInv
  <2>5. QED  BY <2>3, <2>4
<1>3. Inv /\ RegisteredMayLogIn /\ [Next]_vars => RegisteredMayLogIn'
  BY <1>2
<1>4. QED  BY <1>1, <1>3, SessionCorrect, PTL DEF Spec

------------------------------------------------------------------------------
\* A client that has left, and a call that has failed, stay so.
Trouble(q) == gone[q] \/ faults > 0

LEMMA TroubleStays ==
    ASSUME TypeOK, [Next]_vars, NEW q \in Requests, Trouble(q)
    PROVE  Trouble(q)'
<1> USE DEF Trouble
<1>1. ASSUME UNCHANGED <<gone, faults>>
      PROVE  Trouble(q)'
  BY <1>1
<1>2. ASSUME NEW r \in Requests, CallFails(r), UNCHANGED gone
      PROVE  Trouble(q)'
  BY <1>2 DEF TypeOK, CallFails
<1>3. ASSUME NEW r \in Requests, CreateFails(r) \/ CommitUnknown(r) \/ ReadFails(r)
      PROVE  Trouble(q)'
  BY <1>2, <1>3 DEF CreateFails, CommitUnknown, ReadFails
<1>4. ASSUME NEW r \in Requests, Disconnect(r)
      PROVE  Trouble(q)'
  BY <1>4 DEF TypeOK, Disconnect
<1>5. ASSUME NEW r \in Requests,
             \/ BeginRegister(r) \/ BeginLogin(r) \/ InsertUser(r) \/ InsertBalance(r)
             \/ Commit(r) \/ Respond(r) \/ ReadUser(r) \/ ComparePassword(r) \/ AwaitDone(r)
      PROVE  UNCHANGED <<gone, faults>>
  BY <1>5 DEF BeginRegister, BeginLogin, InsertUser, InsertBalance, Commit, Respond, ReadUser,
              ComparePassword, AwaitDone, bounds
<1>6. CASE Crash \/ UNCHANGED vars
  BY <1>1, <1>6 DEF Crash, vars
<1>7. QED  BY <1>1, <1>3, <1>4, <1>5, <1>6 DEF Next, Register, Authenticate

\* A request that is refused after it stored its user has had trouble.
LEMMA StoredButRefused ==
    ASSUME TypeOK, ProgressInv, NEW q \in Requests, Register(q),
           pc[q] \in Creating, pc'[q] = "answered", answer'[q] = 500,
           NEW l \in Logins, account'[l] = q
    PROVE  Trouble(q)'
<1>1. account[l] # q
  BY DEF ProgressInv
<1>2. CASE CommitUnknown(q)
  BY <1>2 DEF TypeOK, CommitUnknown, CallFails, Trouble
<1>3. CASE CreateFails(q)
  BY <1>1, <1>3 DEF CreateFails, tables
<1>4. CASE InsertUser(q) \/ InsertBalance(q)
  BY <1>1, <1>4 DEF InsertUser, InsertBalance, tables
<1>5. CASE Commit(q) \/ Respond(q)
  BY <1>5 DEF TypeOK, Commit, Respond, Goto, Creating
<1>6. QED  BY <1>2, <1>3, <1>4, <1>5 DEF Register

LEMMA AnswerStep ==
    ASSUME TypeOK, RowsInv, SessionInv, AnswerTellsRegistration, [Next]_vars
    PROVE  AnswerTellsRegistration'
<1> SUFFICES ASSUME NEW q \in Requests, IsRegistration(q)', pc'[q] \in {"answered", "lost"}
             PROVE  /\ answer'[q] = 200 => account'[ask'[q].login] = q
                    /\ answer'[q] = 409 => account'[ask'[q].login] \notin {q, NoRequest}
                    /\ account'[ask'[q].login] = q =>
                          answer'[q] = 200 \/ pc'[q] = "lost" \/ Trouble(q)'
  BY DEF AnswerTellsRegistration, Trouble
<1>1. /\ ask' = ask /\ ask[q].login \in Logins
      /\ q # NoRequest /\ IsRegistration(q)
  BY RowsStep, RegistrationAssumption DEF TypeOK, Asks, IsRegistration
<1>2. account[ask[q].login] # NoRequest => account'[ask[q].login] = account[ask[q].login]
  BY <1>1, AccountsAreKept DEF RowsInv
<1>3. CASE Waits(q) /\ pc[q] \in {"answered", "lost"}
  <2>1. account'[ask[q].login] = q => account[ask[q].login] = q
    BY <1>1, <1>3, BecomesUser
  <2>2. account'[ask[q].login] = q => answer[q] = 200 \/ pc[q] = "lost" \/ Trouble(q)
    BY <1>1, <1>3, <2>1 DEF AnswerTellsRegistration, Trouble
  <2>3. answer'[q] = answer[q] /\ (pc[q] = "lost" => pc'[q] = "lost")
    BY <1>3 DEF Waits, InProgress, Creating
  <2>4. /\ answer[q] = 200 => account[ask[q].login] = q
        /\ answer[q] = 409 => account[ask[q].login] \notin {q, NoRequest}
    BY <1>1, <1>3 DEF AnswerTellsRegistration
  <2>5. QED  BY <1>1, <1>2, <2>2, <2>3, <2>4, TroubleStays
<1>4. CASE Waits(q) /\ pc[q] \notin {"answered", "lost"}
  <2>1. pc'[q] = "lost" /\ answer'[q] = 0
    BY <1>4 DEF SessionInv, ProgressInv, Waits
  <2>2. QED  BY <2>1
<1>5. CASE Register(q) \/ Authenticate(q)
  <2>1. pc'[q] = "answered" /\ pc[q] \notin {"read", "compare"}
    BY <1>1, <1>5, Acts DEF RowsInv, KindInv
  <2>2. CASE pc[q] = "insertUser" /\ account[ask[q].login] # NoRequest /\ answer'[q] = 409
    BY <1>1, <1>2, <2>2 DEF SessionInv, ProgressInv, Creating
  <2>3. CASE pc[q] = "respond" /\ answer'[q] = 200
    BY <1>1, <1>2, <2>3 DEF SessionInv, ProgressInv
  <2>4. CASE pc[q] \in Creating /\ answer'[q] = 500
    <3>1. Register(q)
      BY <1>5, <2>4 DEF Authenticate, ReadUser, ReadFails, ComparePassword, Creating
    <3>2. QED  BY <1>1, <2>1, <2>4, <3>1, StoredButRefused DEF SessionInv
  <2>5. QED  BY <1>5, <2>1, <2>2, <2>3, <2>4, Acts
<1>6. QED  BY <1>3, <1>4, <1>5, Bystander

(***************************************************************************)
(* The answer to a registration tells whether the login is the client's    *)
(* own, for any requests, faults, disconnects and deaths of the process.   *)
(***************************************************************************)
THEOREM AnswerTellsRegistrationCorrect == Spec => []AnswerTellsRegistration
<1>1. Init => AnswerTellsRegistration
  BY DEF Init, AnswerTellsRegistration
<1>2. TypeOK /\ RowsInv /\ SessionInv /\ AnswerTellsRegistration /\ [Next]_vars
        => AnswerTellsRegistration'
  BY AnswerStep
<1>3. QED  BY <1>1, <1>2, SessionCorrect, PTL DEF Spec
==============================================================================
