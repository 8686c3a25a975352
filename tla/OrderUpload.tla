----------------------------- MODULE OrderUpload -----------------------------
(***************************************************************************)
(* Uploading order numbers: RegisterOrderHandler, OrderService.Create and  *)
(* the two statements it makes, an INSERT that relies on the UNIQUE number *)
(* and, when that is violated, a SELECT that finds out whose order it is.  *)
(* Each commits by itself, so that other requests may come in between.     *)
(*                                                                         *)
(* A process that exits in the middle of a request shows here as a request *)
(* that takes no more steps: nothing of it but its rows is left.           *)
(***************************************************************************)
EXTENDS Naturals

CONSTANTS
    Users,
    Valid,       \* payloads that are numbers and pass the Luhn check
    Misspelt,    \* payloads that are numbers and do not pass it, or too large
    NotNumeric,  \* payloads that strconv.Atoi finds are not numbers
    Requests,    \* bound: the upload requests clients make
    FaultKinds,  \* which ways a database call fails
    MaxFaults,   \* bound: failed database calls
    NoRequest

Numbers == Valid \cup Misspelt \cup NotNumeric

(***************************************************************************)
(* A "failed" call has no effect, an "unknown" one had it when the error   *)
(* was returned; "query" is the SELECT failing when its PREPARE succeeded. *)
(***************************************************************************)
ASSUME UploadAssumption ==
    /\ NoRequest \notin Requests
    /\ FaultKinds \subseteq {"failed", "unknown", "query"}
    /\ MaxFaults \in Nat
    /\ Misspelt \cap (Valid \cup NotNumeric) = {}
    /\ Valid \cap NotNumeric = {}

VARIABLES
    creator,   \* table "order": the request that made the row of a number
    pc,        \* where a request is
    ask,       \* its user and its payload
    answer,    \* the HTTP status it was answered with, 0 before
    faults

vars == <<creator, pc, ask, answer, faults>>

Init ==
    /\ creator = [n \in Numbers |-> NoRequest]
    /\ pc = [r \in Requests |-> "idle"]
    /\ ask \in [Requests -> [user : Users, number : Numbers]]
    /\ answer = [r \in Requests |-> 0]
    /\ faults = 0

Exists(n) == creator[n] # NoRequest
OwnerOf(n) == ask[creator[n]].user

Goto(r, label) == pc' = [pc EXCEPT ![r] = label]

\* The first status written to a response is the one the client gets.
Answer(r, code) ==
    /\ Goto(r, "answered")
    /\ answer' = [answer EXCEPT ![r] = IF @ = 0 THEN code ELSE @]

Fault(kind) ==
    /\ kind \in FaultKinds
    /\ faults < MaxFaults
    /\ faults' = faults + 1

------------------------------------------------------------------------------
(***************************************************************************)
(* The handler checks the payload.  When Atoi fails it writes 422, does    *)
(* not return, and goes on with the number 0, which passes the Luhn check, *)
(* or, for a number too large for an int, with the largest int, which does *)
(* not.  It is the payload that goes to the service, not the number.       *)
(***************************************************************************)
CheckNumber(r) ==
    /\ pc[r] = "idle"
    /\ \/ ask[r].number \in Valid /\ Goto(r, "insert") /\ UNCHANGED answer
       \/ ask[r].number \in Misspelt /\ Answer(r, 422)
       \/ /\ ask[r].number \in NotNumeric
          /\ Goto(r, "insert")
          /\ answer' = [answer EXCEPT ![r] = 422]
    /\ UNCHANGED <<creator, ask, faults>>

\* Mutant: the number is not UNIQUE in the table.
InsertOrder_NotUnique(r) ==
    /\ pc[r] = "insert"
    /\ creator' = [creator EXCEPT ![ask[r].number] = r]
    /\ Answer(r, 202)
    /\ UNCHANGED <<ask, faults>>

\* Mutant: every error of the INSERT is taken for a number that exists.
InsertOrder_AlwaysConflict(r) ==
    LET n == ask[r].number IN
    /\ pc[r] = "insert"
    /\ \/ /\ ~Exists(n)
          /\ creator' = [creator EXCEPT ![n] = r]
          /\ Answer(r, 202)
          /\ UNCHANGED faults
       \/ Exists(n) /\ Goto(r, "read") /\ UNCHANGED <<creator, answer, faults>>
       \/ Fault("failed") /\ Goto(r, "read") /\ UNCHANGED <<creator, answer>>
    /\ UNCHANGED ask

\* OrderRepository.Create
InsertOrder(r) ==
    LET n == ask[r].number IN
    /\ pc[r] = "insert"
    /\ \/ /\ ~Exists(n)
          /\ creator' = [creator EXCEPT ![n] = r]
          /\ Answer(r, 202)
          /\ UNCHANGED faults
       \/ /\ Exists(n)
          /\ Goto(r, "read")
          /\ UNCHANGED <<creator, answer, faults>>
       \/ /\ Fault("failed")
          /\ Answer(r, 500)
          /\ UNCHANGED creator
       \/ /\ Fault("unknown")
          /\ ~Exists(n)
          /\ creator' = [creator EXCEPT ![n] = r]
          /\ Answer(r, 500)
    /\ UNCHANGED ask

\* Mutant: a number that exists is always somebody else's.
ReadOrder_AnyOwner(r) ==
    /\ pc[r] = "read"
    /\ Answer(r, 409)
    /\ UNCHANGED <<creator, ask, faults>>

(***************************************************************************)
(* OrderRepository.Read and the comparison of the users.  When the query   *)
(* fails, Read returns the err of the PREPARE, which is nil, with an empty *)
(* Order, whose UserID is nobody's.                                        *)
(***************************************************************************)
ReadOrder(r) ==
    /\ pc[r] = "read"
    /\ \/ /\ Answer(r, IF OwnerOf(ask[r].number) = ask[r].user THEN 200 ELSE 409)
          /\ UNCHANGED faults
       \/ Fault("failed") /\ Answer(r, 500)
       \/ Fault("query") /\ Answer(r, 409)
    /\ UNCHANGED <<creator, ask>>

RequestStep(r) == CheckNumber(r) \/ InsertOrder(r) \/ ReadOrder(r)

Next == \E r \in Requests : RequestStep(r)

Spec == Init /\ [][Next]_vars

------------------------------------------------------------------------------
\* Type invariant; a request reads only the row of a number that exists.
TypeOK ==
    /\ creator \in [Numbers -> Requests \cup {NoRequest}]
    /\ pc \in [Requests -> {"idle", "insert", "read", "answered"}]
    /\ ask \in [Requests -> [user : Users, number : Numbers]]
    /\ answer \in [Requests -> {0, 200, 202, 409, 422, 500}]
    /\ faults \in 0 .. MaxFaults
    /\ \A r \in Requests : pc[r] = "read" => Exists(ask[r].number)

\* Some SELECT may have failed after its PREPARE.
QueryFailed == "query" \in FaultKinds /\ faults > 0

(***************************************************************************)
(* The answers tell the clients whose an order is, although requests for   *)
(* one number overtake each other: 202 goes to the request that made the   *)
(* row and to no other, 200 to its owner, 409 to others, and a number that *)
(* is refused is not stored for the refused request.  A failing query can  *)
(* make 409 wrong, and what is not a number is left to RefusedIsNotStored. *)
(***************************************************************************)
AnswerTellsOwner ==
    \A r \in Requests :
        LET n == ask[r].number IN
        pc[r] = "answered" =>
            /\ answer[r] = 202 => creator[n] = r
            /\ answer[r] = 200 => Exists(n) /\ OwnerOf(n) = ask[r].user /\ creator[n] # r
            /\ answer[r] = 409 =>
                /\ Exists(n) /\ creator[n] # r
                /\ OwnerOf(n) # ask[r].user \/ QueryFailed
            /\ answer[r] = 422 => creator[n] # r \/ n \in NotNumeric

(***************************************************************************)
(* A payload of the wrong format is answered 422 (SPECIFICATION.md:148)    *)
(* and leaves no order.                                                    *)
(***************************************************************************)
RefusedIsNotStored ==
    \A r \in Requests : pc[r] = "answered" /\ answer[r] = 422 =>
        creator[ask[r].number] # r

(***************************************************************************)
(* The order of a number never changes hands, in whichever order the       *)
(* uploads of two users arrive.                                            *)
(***************************************************************************)
OwnerIsKept ==
    [][\A n \in Numbers : Exists(n) => creator'[n] = creator[n]]_vars
==============================================================================
