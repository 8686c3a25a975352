------------------------------- MODULE Requests -------------------------------
(***************************************************************************)
(* What a client gets through the chain of middlewares and writers, and    *)
(* which cookies the server accepts: ValidationMiddleware, GzipMiddleware, *)
(* AuthMiddleware or SetAuthWriter, and the handlers, between which time   *)
(* passes and the process may die and start with other settings.           *)
(*                                                                         *)
(* A handler writes to SetAuthWriter (register and login), which writes to *)
(* CompressWriter (if the client accepts gzip), which writes to net/http.  *)
(* What the services do is the subject of the other modules; here they     *)
(* only have their outcomes, and the users that exist.                     *)
(***************************************************************************)
EXTENDS Config, FiniteSets

CONSTANTS
    Clients,      \* browsers: each keeps one cookie and waits for its answer
    Users,        \* ids of users; 0 is none
    Endpoints,    \* bound: the routes that are used
    MaxTime       \* bound: hours the system is watched

ASSUME RequestsAssumption ==
    /\ Users \subseteq Nat \ {0}
    /\ MaxTime \in Nat

VARIABLES
    now,
    users,        \* the ids of table user
    cookie,       \* the cookie a client keeps
    session,      \* what a client was last logged in as, and until when
    pc,           \* where the request of a client is
    request,      \* its route, and whether the client accepts gzip
    userID,       \* the user AuthMiddleware puts into its context
    response      \* what was written to its ResponseWriter

clientVars == <<cookie, session, pc, request, userID, response>>
vars == <<configVars, now, users, clientVars>>

NoToken == [user |-> 0, key |-> "", until |-> 0]
NoRequest == [endpoint |-> "none", accepts |-> ""]

(***************************************************************************)
(* A response: the header map, the part of it that was sent with the       *)
(* status (0 before that), and what the body consists of.  The grant is    *)
(* for the properties: the session of the login the response answers.      *)
(***************************************************************************)
Header == [type |-> "", encoding |-> "", userID |-> 0, cookie |-> NoToken]
Fresh == [status |-> 0, header |-> Header, sent |-> Header, body |-> {}, grant |-> NoToken]

Init ==
    /\ ConfigInit
    /\ now = 0
    /\ users = {}
    /\ cookie = [c \in Clients |-> NoToken]
    /\ session = [c \in Clients |-> NoToken]
    /\ pc = [c \in Clients |-> "idle"]
    /\ request = [c \in Clients |-> NoRequest]
    /\ userID = [c \in Clients |-> 0]
    /\ response = [c \in Clients |-> Fresh]

------------------------------------------------------------------------------
(***************************************************************************)
(* net/http: the first status counts, and the header is sent with it.      *)
(***************************************************************************)
SendHeader(r, code) ==
    IF r.status # 0 THEN r
    ELSE [r EXCEPT !.status = code, !.sent = r.header]

SendBody(r, chunk) == [SendHeader(r, 200) EXCEPT !.body = @ \cup {chunk}]

\* CompressWriter.ShouldCompress, of a client q that accepts gzip.
ShouldCompress(q, r) == q.accepts = "gzip" /\ r.header.type = "application/json"

\* CompressWriter.WriteHeader and Write.
CompressHeader(q, r, code) ==
    SendHeader(IF ShouldCompress(q, r) THEN [r EXCEPT !.header.encoding = "gzip"] ELSE r, code)

CompressBody(q, r) == SendBody(r, IF ShouldCompress(q, r) THEN "gzip" ELSE "plain")

\* CompressWriter.Close, deferred by GzipMiddleware.
CompressClose(q, r) == IF ShouldCompress(q, r) THEN SendBody(r, "end of gzip") ELSE r

\* Mutant: the setting is taken for nanoseconds.
GenerateJWTString_NoHours(u) == [user |-> u, key |-> settings.key, until |-> now]

\* GenerateJWTString: the claims and the key that signs them.
GenerateJWTString(u) ==
    [user |-> u, key |-> settings.key, until |-> now + settings.hours]

WithoutAuth == {"register", "login"}

\* SetAuthWriter.WriteHeader, in front of the handlers without authentication.
WriteHeader(q, r, code) ==
    LET u == r.header.userID IN
    CompressHeader(q, IF q.endpoint \in WithoutAuth /\ u # 0
                      THEN [r EXCEPT !.header.cookie = GenerateJWTString(u)] ELSE r, code)

\* http.Error.
Error(q, r, code) ==
    CompressBody(q, WriteHeader(q, [r EXCEPT !.header.type = "text/plain"], code))

\* Mutant: the status is written before the Content-Type.
WriteJSON_HeaderFirst(q, r) ==
    CompressBody(q, [WriteHeader(q, r, 200) EXCEPT !.header.type = "application/json"])

\* Content-Type, the status 200 and the encoder of encoding/json.
WriteJSON(q, r) ==
    LET typed == [r EXCEPT !.header.type = "application/json"]
    IN  CompressBody(q, WriteHeader(q, typed, 200))

\* The session a login is to start.
Grant(u) == [user |-> u, key |-> settings.key, until |-> now + settings.hours]

\* Mutant: the id is put into the header after the status is written.
LoggedIn_HeaderFirst(q, r, u) ==
    [WriteHeader(q, r, 200) EXCEPT !.header.userID = u, !.grant = Grant(u)]

\* The id of the user, for SetAuthWriter, and the status 200.
LoggedIn(q, r, u) ==
    WriteHeader(q, [r EXCEPT !.header.userID = u, !.grant = Grant(u)], 200)

------------------------------------------------------------------------------
\* The handler returns r; the deferred Close follows, and net/http answers.
Answer(c, r) ==
    /\ response' = [response EXCEPT ![c] = SendHeader(CompressClose(request[c], r), 200)]
    /\ pc' = [pc EXCEPT ![c] = "answered"]
    /\ UNCHANGED <<configVars, now, cookie, session, request, userID>>

Refuse(c, code) == Answer(c, Error(request[c], response[c], code))
OnlyStatus(c, code) == Answer(c, WriteHeader(request[c], response[c], code))

Goto(c, label) == pc' = [pc EXCEPT ![c] = label]

\* A client sends a request, with its cookie.
Send(c) ==
    /\ proc = "serving"
    /\ pc[c] = "idle"
    /\ \E e \in Endpoints, a \in {"", "gzip"} :
        request' = [request EXCEPT ![c] = [endpoint |-> e, accepts |-> a]]
    /\ Goto(c, "validate")
    /\ UNCHANGED <<configVars, now, users, cookie, session, userID, response>>

\* What a middleware in front of the other writers has.
Bare == NoRequest

\* A Content-Length over the limit is refused before GzipMiddleware.
ValidationMiddleware(c) ==
    /\ pc[c] = "validate"
    /\ \/ Answer(c, Error(Bare, response[c], 400))
       \/ /\ Goto(c, "gunzip")
          /\ UNCHANGED <<configVars, now, cookie, session, request, userID, response>>
    /\ UNCHANGED users

\* A body that is not the gzip its header says is answered on the bare writer.
GzipMiddleware(c) ==
    /\ pc[c] = "gunzip"
    /\ \/ Answer(c, SendHeader(response[c], 500))
       \/ /\ Goto(c, IF request[c].endpoint \in WithoutAuth THEN "handle" ELSE "auth")
          /\ UNCHANGED <<configVars, now, cookie, session, request, userID, response>>
    /\ UNCHANGED users

\* GetUserID: the signature is by the key of the process, and the time is not over.
Valid(token) == token.user # 0 /\ token.key = settings.key /\ now < token.until

\* Mutant: the id is looked at and not the error, which an expired token comes with.
AuthMiddleware_IgnoresError(c) ==
    /\ pc[c] = "auth"
    /\ IF cookie[c].user # 0 /\ cookie[c].key = settings.key
       THEN /\ userID' = [userID EXCEPT ![c] = cookie[c].user]
            /\ Goto(c, "handle")
            /\ UNCHANGED <<configVars, now, cookie, session, request, response>>
       ELSE Refuse(c, 401)
    /\ UNCHANGED users

\* Mutant: the answer 401 is written without a return.
AuthMiddleware_NoReturn(c) ==
    /\ pc[c] = "auth"
    /\ response' = [response EXCEPT ![c] =
                     IF Valid(cookie[c]) THEN @ ELSE Error(request[c], @, 401)]
    /\ userID' = [userID EXCEPT ![c] = IF Valid(cookie[c]) THEN cookie[c].user ELSE 0]
    /\ Goto(c, "handle")
    /\ UNCHANGED <<configVars, now, users, cookie, session, request>>

AuthMiddleware(c) ==
    /\ pc[c] = "auth"
    /\ IF Valid(cookie[c])
       THEN /\ userID' = [userID EXCEPT ![c] = cookie[c].user]
            /\ Goto(c, "handle")
            /\ UNCHANGED <<configVars, now, cookie, session, request, response>>
       ELSE Refuse(c, 401)
    /\ UNCHANGED users

Handles(c, endpoint) == pc[c] = "handle" /\ request[c].endpoint = endpoint

\* The checks of the handlers that take JSON: the type and the decoding of the body.
RefuseJSON(c) == Refuse(c, 400) \/ OnlyStatus(c, 400)

RegisterHandler(c) ==
    /\ Handles(c, "register")
    /\ \/ RefuseJSON(c) /\ UNCHANGED users
       \/ users # {} /\ Refuse(c, 409) /\ UNCHANGED users
       \/ Refuse(c, 500) /\ \E u \in Users : users' \in {users, users \cup {u}}
       \/ \E u \in Users \ users :
            /\ users' = users \cup {u}
            /\ Answer(c, LoggedIn(request[c], response[c], u))

LoginHandler(c) ==
    /\ Handles(c, "login")
    /\ \/ RefuseJSON(c) \/ Refuse(c, 401) \/ Refuse(c, 500)
       \/ \E u \in users : Answer(c, LoggedIn(request[c], response[c], u))
    /\ UNCHANGED users

\* The answers to an upload once the number is passed on: r is what is written so far.
UploadAnswers(c, r) ==
    \/ \E code \in {200, 202, 409} : Answer(c, WriteHeader(request[c], r, code))
    \/ Answer(c, Error(request[c], r, 500))

\* A payload that is not a number is answered 422 and passed on nevertheless.
RegisterOrderHandler(c) ==
    /\ Handles(c, "upload")
    /\ \/ \E code \in {400, 422} : Refuse(c, code)
       \/ UploadAnswers(c, response[c])
       \/ UploadAnswers(c, Error(request[c], response[c], 422))
    /\ UNCHANGED users

\* Both lists: an error, nothing to show, or rows.
ReadAllHandler(c) ==
    /\ Handles(c, "orders") \/ Handles(c, "withdrawals")
    /\ \/ Refuse(c, 500)
       \/ OnlyStatus(c, 204)
       \/ Answer(c, WriteJSON(request[c], response[c]))
    /\ UNCHANGED users

UserBalancesHandler(c) ==
    /\ Handles(c, "balance")
    /\ Refuse(c, 500) \/ Answer(c, WriteJSON(request[c], response[c]))
    /\ UNCHANGED users

WithdrawalAnswers(c, r) ==
    \/ \E code \in {200, 400, 402} : Answer(c, WriteHeader(request[c], r, code))
    \/ Answer(c, Error(request[c], r, 500))

\* A sum of 0 is answered 422 and passed on nevertheless.
CreateWithdrawalHandler(c) ==
    /\ Handles(c, "withdraw")
    /\ \/ RefuseJSON(c) \/ Refuse(c, 422)
       \/ WithdrawalAnswers(c, response[c])
       \/ WithdrawalAnswers(c, Error(request[c], response[c], 422))
    /\ UNCHANGED users

Handler(c) ==
    \/ RegisterHandler(c) \/ LoginHandler(c) \/ UserBalancesHandler(c)
    \/ RegisterOrderHandler(c) \/ ReadAllHandler(c) \/ CreateWithdrawalHandler(c)

------------------------------------------------------------------------------
\* The request of a client is over, and so are its variables in the server.
Done(c) ==
    /\ Goto(c, "idle")
    /\ request' = [request EXCEPT ![c] = NoRequest]
    /\ userID' = [userID EXCEPT ![c] = 0]
    /\ response' = [response EXCEPT ![c] = Fresh]
    /\ UNCHANGED <<configVars, now, users>>

\* The client gets its answer and keeps the cookie it came with.
Receive(c) ==
    LET r == response[c] IN
    /\ pc[c] = "answered"
    /\ cookie' = [cookie EXCEPT ![c] = IF r.sent.cookie # NoToken THEN r.sent.cookie ELSE @]
    /\ session' = [session EXCEPT ![c] =
                    IF r.status = 200 /\ r.grant # NoToken THEN r.grant ELSE @]
    /\ Done(c)

\* The answer is lost, or the client did not wait for it.
Lose(c) ==
    /\ pc[c] = "answered"
    /\ Done(c)
    /\ UNCHANGED <<cookie, session>>

Tick ==
    /\ now < MaxTime
    /\ now' = now + 1
    /\ UNCHANGED <<configVars, users, clientVars>>

\* The process is killed or exits, with every request it was handling.
Exit ==
    /\ proc = "serving"
    /\ GiveUp
    /\ pc' = [c \in Clients |-> "idle"]
    /\ request' = [c \in Clients |-> NoRequest]
    /\ userID' = [c \in Clients |-> 0]
    /\ response' = [c \in Clients |-> Fresh]
    /\ UNCHANGED <<launches, now, users, cookie, session>>

Next ==
    \/ Start /\ UNCHANGED <<now, users, clientVars>>
    \/ \E c \in Clients :
        \/ Send(c) \/ ValidationMiddleware(c) \/ GzipMiddleware(c) \/ AuthMiddleware(c)
        \/ Handler(c) \/ Receive(c) \/ Lose(c)
    \/ Tick
    \/ Exit

Spec == Init /\ [][Next]_vars

------------------------------------------------------------------------------
Codes == {200, 202, 204, 400, 401, 402, 409, 422, 500}

(***************************************************************************)
(* Type invariant: a request is on its way only while the process serves,  *)
(* a handler behind AuthMiddleware finds a user in its context, whose type *)
(* assertion would panic otherwise, and no answer is without a status.     *)
(***************************************************************************)
TypeOK ==
    /\ proc \in {"down", "flags", "env", "run", "serving"}
    /\ launches \in 0 .. MaxLaunches
    /\ now \in 0 .. MaxTime
    /\ users \subseteq Users
    /\ userID \in [Clients -> Users \cup {0}]
    /\ \A c \in Clients :
        /\ pc[c] # "idle" => proc = "serving"
        /\ pc[c] = "handle" => (userID[c] = 0 <=> request[c].endpoint \in WithoutAuth)
        /\ pc[c] = "answered" <=> response[c].status # 0
        /\ pc[c] = "answered" => response[c].status \in Codes

(***************************************************************************)
(* The body of an answer is what its Content-Encoding says: one complete   *)
(* gzip stream or plain text, and gzip only for clients that accept it.    *)
(* CompressWriter decides this anew from the header map in WriteHeader,    *)
(* Write and Close (compress/gzip.go).                                     *)
(***************************************************************************)
EncodingTellsBody ==
    \A c \in Clients : pc[c] = "answered" =>
        IF response[c].sent.encoding = "gzip"
        THEN request[c].accepts = "gzip" /\ response[c].body = {"gzip", "end of gzip"}
        ELSE response[c].body \subseteq {"plain"}

(***************************************************************************)
(* An answer has a cookie exactly if it says that a login succeeded, and   *)
(* then one that is good for this user: through SetAuthWriter, which finds *)
(* the user in the header map and has to act before the status is sent.    *)
(***************************************************************************)
CookieTellsLogin ==
    \A c \in Clients : pc[c] = "answered" =>
        /\ response[c].sent.cookie = response[c].grant
        /\ response[c].grant # NoToken => response[c].status = 200

(***************************************************************************)
(* A client is served as a user only if it was told that it is logged in   *)
(* as this user, by a process with this key, and its time is not over.     *)
(***************************************************************************)
AuthorisedBySession ==
    [][\A c \in Clients : userID[c] = 0 /\ userID'[c] # 0 =>
            session[c].user = userID'[c] /\ Valid(session[c])]_vars

(***************************************************************************)
(* A client that was told that it is logged in is not answered 401 before  *)
(* its time is over, unless the process was started with another key, and  *)
(* whatever else was answered, lost or restarted in between.               *)
(***************************************************************************)
SessionLasts ==
    [][\A c \in Clients : pc[c] = "auth" /\ pc'[c] = "answered" => ~Valid(session[c])]_vars
==============================================================================
