-------------------------- MODULE OrderUploadProofs --------------------------
(***************************************************************************)
(* Proofs about OrderUpload: the owner of an order never changes, and the  *)
(* answers tell whose it is, for any number of requests and any faults.    *)
(***************************************************************************)
EXTENDS OrderUpload, TLAPS

\* A step of one request leaves the others where they are.
LEMMA OneRequest ==
    ASSUME TypeOK, NEW r \in Requests, RequestStep(r)
    PROVE  /\ UNCHANGED ask
           /\ pc[r] # "answered"
           /\ \A q \in Requests \ {r} : pc'[q] = pc[q] /\ answer'[q] = answer[q]
BY DEF TypeOK, RequestStep, CheckNumber, InsertOrder, ReadOrder, Goto, Answer

\* What a label and an answer may become.
LEMMA AnswerType ==
    ASSUME TypeOK, NEW r \in Requests, NEW code \in {200, 202, 409, 422, 500}, Answer(r, code)
    PROVE  /\ pc' \in [Requests -> {"idle", "insert", "read", "answered"}]
           /\ answer' \in [Requests -> {0, 200, 202, 409, 422, 500}]
BY DEF TypeOK, Answer, Goto

\* A row is only ever made, by the request that inserts it.
LEMMA RowsAreMade ==
    ASSUME TypeOK, NEW r \in Requests, RequestStep(r)
    PROVE  \/ UNCHANGED creator
           \/ /\ pc[r] = "insert"
              /\ ~Exists(ask[r].number)
              /\ creator' = [creator EXCEPT ![ask[r].number] = r]
BY DEF RequestStep, CheckNumber, InsertOrder, ReadOrder

LEMMA TypeStep ==
    ASSUME TypeOK, [Next]_vars
    PROVE  TypeOK'
<1>1. ASSUME NEW r \in Requests, RequestStep(r)
      PROVE  TypeOK'
  <2>1. ask[r].number \in Numbers
    BY DEF TypeOK
  <2>2. creator' \in [Numbers -> Requests \cup {NoRequest}]
    BY <1>1, <2>1, RowsAreMade DEF TypeOK
  <2>3. \A n \in Numbers : Exists(n) => Exists(n)'
    BY <1>1, <2>1, RowsAreMade, UploadAssumption DEF TypeOK, Exists
  <2>4. faults' \in 0 .. MaxFaults
    <3>1. UNCHANGED faults \/ (faults < MaxFaults /\ faults' = faults + 1)
      BY <1>1 DEF RequestStep, CheckNumber, InsertOrder, ReadOrder, Fault
    <3>2. QED  BY <3>1, UploadAssumption DEF TypeOK
  <2>5. /\ pc' \in [Requests -> {"idle", "insert", "read", "answered"}]
        /\ answer' \in [Requests -> {0, 200, 202, 409, 422, 500}]
    <3>1. CASE \E code \in {200, 202, 409, 422, 500} : Answer(r, code)
      BY <3>1, AnswerType
    <3>2. CASE CheckNumber(r)
      BY <3>1, <3>2 DEF TypeOK, CheckNumber, Goto
    <3>3. CASE InsertOrder(r)
      BY <3>1, <3>3 DEF TypeOK, InsertOrder, Goto
    <3>4. CASE ReadOrder(r)
      BY <3>1, <3>4 DEF ReadOrder
    <3>5. QED  BY <1>1, <3>2, <3>3, <3>4 DEF RequestStep
  <2>6. ASSUME NEW q \in Requests, pc'[q] = "read"
        PROVE  Exists(ask[q].number)
    <3>1. CASE q = r
      BY <1>1, <2>6, <3>1
         DEF TypeOK, RequestStep, CheckNumber, InsertOrder, ReadOrder, Goto, Answer
    <3>2. CASE q # r
      BY <1>1, <2>6, <3>2, OneRequest DEF TypeOK
    <3>3. QED  BY <3>1, <3>2
  <2>7. (\A q \in Requests : pc[q] = "read" => Exists(ask[q].number))'
    BY <1>1, <2>3, <2>6, OneRequest DEF TypeOK, Exists
  <2>8. QED  BY <1>1, <2>2, <2>4, <2>5, <2>7, OneRequest DEF TypeOK
<1>2. CASE UNCHANGED vars
  BY <1>2 DEF TypeOK, Exists, vars
<1>3. QED  BY <1>1, <1>2 DEF Next

(***************************************************************************)
(* The variables keep their types, and a request reads only the row of a   *)
(* number that exists.                                                     *)
(***************************************************************************)
THEOREM UploadTypeCorrect == Spec => []TypeOK
<1>1. Init => TypeOK
  BY UploadAssumption DEF Init, TypeOK
<1>2. TypeOK /\ [Next]_vars => TypeOK'
  BY TypeStep
<1>3. QED  BY <1>1, <1>2, PTL DEF Spec

(***************************************************************************)
(* Whatever requests run at once and whatever calls fail, the row of a     *)
(* number keeps the request, and so the owner, that made it.               *)
(***************************************************************************)
THEOREM OwnerIsKeptCorrect == Spec => OwnerIsKept
<1>1. TypeOK /\ [Next]_vars =>
        [\A n \in Numbers : Exists(n) => creator'[n] = creator[n]]_vars
  <2>1. ASSUME TypeOK, NEW r \in Requests, RequestStep(r), NEW n \in Numbers, Exists(n)
        PROVE  creator'[n] = creator[n]
    BY <2>1, RowsAreMade DEF TypeOK
  <2>2. QED  BY <2>1 DEF Next
<1>2. QED  BY <1>1, UploadTypeCorrect, PTL DEF Spec, OwnerIsKept

------------------------------------------------------------------------------
(***************************************************************************)
(* The strengthening of AnswerTellsOwner: a request that is not answered   *)
(* has no row, and was told nothing yet, except that its payload is not a  *)
(* number.                                                                 *)
(***************************************************************************)
Unanswered ==
    \A r \in Requests : pc[r] # "answered" =>
        /\ answer[r] = 0 \/ (answer[r] = 422 /\ ask[r].number \in NotNumeric)
        /\ creator[ask[r].number] # r

Told(r) ==
    LET n == ask[r].number IN
    /\ answer[r] = 202 => creator[n] = r
    /\ answer[r] = 200 => Exists(n) /\ OwnerOf(n) = ask[r].user /\ creator[n] # r
    /\ answer[r] = 409 =>
        /\ Exists(n) /\ creator[n] # r
        /\ OwnerOf(n) # ask[r].user \/ QueryFailed
    /\ answer[r] = 422 => creator[n] # r \/ n \in NotNumeric

UploadInv == TypeOK /\ Unanswered /\ AnswerTellsOwner

\* A fault that happened is never forgotten.
LEMMA FaultsAreCounted ==
    ASSUME TypeOK, NEW r \in Requests, RequestStep(r), QueryFailed
    PROVE  QueryFailed'
<1>1. UNCHANGED faults \/ faults' = faults + 1
  BY DEF RequestStep, CheckNumber, InsertOrder, ReadOrder, Fault
<1>2. QED  BY <1>1, UploadAssumption DEF QueryFailed, TypeOK

LEMMA UploadInvStep ==
    ASSUME UploadInv, [Next]_vars
    PROVE  UploadInv'
<1>1. TypeOK'
  BY TypeStep DEF UploadInv
<1>2. ASSUME NEW r \in Requests, RequestStep(r)
      PROVE  Unanswered' /\ AnswerTellsOwner'
  <2>1. /\ UNCHANGED ask
        /\ pc[r] # "answered"
        /\ answer[r] = 0 \/ (answer[r] = 422 /\ ask[r].number \in NotNumeric)
        /\ creator[ask[r].number] # r
        /\ \A q \in Requests \ {r} : pc'[q] = pc[q] /\ answer'[q] = answer[q]
        /\ \A q \in Requests : ask[q].number \in Numbers
    BY <1>2, OneRequest DEF UploadInv, Unanswered, TypeOK
  <2>2. ASSUME NEW q \in Requests \ {r}
        PROVE  /\ pc'[q] # "answered" =>
                    /\ answer'[q] = 0 \/ (answer'[q] = 422 /\ ask[q].number \in NotNumeric)
                    /\ creator'[ask[q].number] # q
               /\ pc'[q] = "answered" => Told(q)'
    <3>1. \/ creator'[ask[q].number] = creator[ask[q].number]
          \/ ~Exists(ask[q].number) /\ creator'[ask[q].number] = r
      BY <1>2, <2>1, RowsAreMade DEF UploadInv, TypeOK
    <3>2. pc[q] # "answered" =>
            /\ answer[q] = 0 \/ (answer[q] = 422 /\ ask[q].number \in NotNumeric)
            /\ creator[ask[q].number] # q
      BY DEF UploadInv, Unanswered
    <3>3. pc[q] = "answered" => Told(q)
      BY DEF UploadInv, AnswerTellsOwner, Told
    <3>4. QueryFailed => QueryFailed'
      BY <1>2, FaultsAreCounted DEF UploadInv
    <3>5. pc[q] = "answered" => Told(q)'
      BY <2>1, <3>1, <3>3, <3>4, UploadAssumption DEF Told, Exists, OwnerOf
    <3>6. QED  BY <2>1, <3>1, <3>2, <3>5
  <2>3. /\ pc'[r] # "answered" =>
             /\ answer'[r] = 0 \/ (answer'[r] = 422 /\ ask[r].number \in NotNumeric)
             /\ creator'[ask[r].number] # r
        /\ pc'[r] = "answered" => Told(r)'
    <3>1. CASE CheckNumber(r)
      BY <2>1, <3>1 DEF UploadInv, TypeOK, CheckNumber, Goto, Answer, Told
    <3>2. CASE InsertOrder(r)
      BY <2>1, <3>2 DEF UploadInv, TypeOK, InsertOrder, Goto, Answer, Told
    <3>3. CASE ReadOrder(r)
      <4>1. /\ Exists(ask[r].number)
            /\ UNCHANGED creator
        BY <3>3 DEF ReadOrder, UploadInv, TypeOK
      <4>2. /\ pc' = [pc EXCEPT ![r] = "answered"]
            /\ \/ answer'[r] = answer[r]
               \/ answer'[r] = 200 /\ OwnerOf(ask[r].number) = ask[r].user
               \/ answer'[r] = 409 /\ OwnerOf(ask[r].number) # ask[r].user
               \/ answer'[r] = 500
               \/ answer'[r] = 409 /\ Fault("query")
        BY <3>3 DEF ReadOrder, Goto, Answer, UploadInv, TypeOK
      <4>3. Fault("query") => QueryFailed'
        BY UploadAssumption DEF Fault, QueryFailed, UploadInv, TypeOK
      <4>4. Told(r)'
        BY <2>1, <4>1, <4>2, <4>3 DEF Told, Exists, OwnerOf
      <4>5. QED  BY <4>2, <4>4 DEF UploadInv, TypeOK
    <3>4. QED  BY <1>2, <3>1, <3>2, <3>3 DEF RequestStep
  <2>4. QED  BY <2>1, <2>2, <2>3 DEF Unanswered, AnswerTellsOwner, Told
<1>3. CASE UNCHANGED vars
  <2>1. Unanswered'
    BY <1>3 DEF UploadInv, Unanswered, vars
  <2>2. \A r \in Requests : pc[r] = "answered" => Told(r)'
    BY <1>3 DEF UploadInv, AnswerTellsOwner, Told, Exists, OwnerOf, QueryFailed, vars
  <2>3. AnswerTellsOwner'
    BY <1>3, <2>2 DEF AnswerTellsOwner, Told, vars
  <2>4. QED  BY <1>1, <2>1, <2>3 DEF UploadInv
<1>4. QED  BY <1>1, <1>2, <1>3 DEF Next, UploadInv

(***************************************************************************)
(* The answers tell whose an order is, with any number of concurrent       *)
(* requests and any answers of the database lost on the way.               *)
(***************************************************************************)
THEOREM AnswerTellsOwnerCorrect == Spec => []AnswerTellsOwner
<1>1. Init => UploadInv
  BY UploadAssumption DEF Init, UploadInv, TypeOK, Unanswered, AnswerTellsOwner
<1>2. UploadInv /\ [Next]_vars => UploadInv'
  BY UploadInvStep
<1>3. UploadInv => AnswerTellsOwner
  BY DEF UploadInv
<1>4. QED  BY <1>1, <1>2, <1>3, PTL DEF Spec
==============================================================================
