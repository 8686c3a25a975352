---------------------------- MODULE RequestsProofs ----------------------------
(***************************************************************************)
(* Proofs about Requests: what every answer looks like after it went       *)
(* through the writers, and what follows for the cookies clients keep.     *)
(***************************************************************************)
EXTENDS Requests, ConfigProofs

Keys == {"", Defaults.key} \cup {l.env.key.value : l \in Launches}
Tokens == [user : Users \cup {0}, key : Keys, until : Int]
Types == {"", "text/plain", "application/json"}
Headers == [type : Types, encoding : {"", "gzip"}, userID : Users \cup {0}, cookie : Tokens]
Chunks == {"plain", "gzip", "end of gzip"}
Responses == [status : Nat, header : Headers, sent : Headers, body : SUBSET Chunks,
              grant : Tokens]
SomeRequests == [endpoint : Endpoints \cup {"none"}, accepts : {"", "gzip"}]
Labels == {"idle", "validate", "gunzip", "auth", "handle", "answered"}

LEMMA NoTokenType == NoToken \in Tokens /\ Fresh \in Responses /\ Header \in Headers
  BY DEF NoToken, Tokens, Keys, Types, Chunks, Fresh, Responses, Header, Headers

USE DEF Types, Chunks

------------------------------------------------------------------------------
(***************************************************************************)
(* An answer without cookie and JSON: not yet written, or plain.           *)
(***************************************************************************)
Plain(r) ==
    /\ r \in Responses
    /\ r.header.type # "application/json"
    /\ r.header.userID = 0 /\ r.header.cookie = NoToken
    /\ r.header.encoding = ""
    /\ r.sent.cookie = NoToken /\ r.grant = NoToken /\ r.sent.encoding = ""
    /\ r.body \subseteq {"plain"}
    /\ r.status \in Codes \cup {0}

\* What an answer has to be like, for the request q it is written to.
Good(q, r) ==
    /\ r \in Responses
    /\ r.status \in Codes
    /\ r.sent.cookie = r.grant
    /\ r.grant # NoToken => r.status = 200
    /\ IF r.sent.encoding = "gzip"
       THEN q.accepts = "gzip" /\ r.body = {"gzip", "end of gzip"}
       ELSE r.body \subseteq {"plain"}

\* The answer as the client gets it: Answer adds Close and the status.
Final(q, r) == SendHeader(CompressClose(q, r), 200)

LEMMA FreshPlain == Plain(Fresh)
  BY NoTokenType DEF Plain, Fresh, Header, Codes

LEMMA CodesArePositive == 200 \in Codes /\ \A code \in Codes : code \in Nat /\ code # 0
  BY DEF Codes

\* net/http: the first status takes the header with it, and a later one is ignored.
LEMMA HeaderSent ==
  ASSUME NEW r \in Responses, NEW code \in Codes
  PROVE  /\ SendHeader(r, code) \in Responses
         /\ SendHeader(r, code).header = r.header
         /\ SendHeader(r, code).grant = r.grant
         /\ SendHeader(r, code).body = r.body
         /\ SendHeader(r, code).status # 0
         /\ r.status = 0 => /\ SendHeader(r, code).status = code
                            /\ SendHeader(r, code).sent = r.header
         /\ r.status # 0 => SendHeader(r, code) = r
  <1>1. CASE r.status = 0
    <2>1. SendHeader(r, code) = [r EXCEPT !.status = code, !.sent = r.header]
      BY <1>1 DEF SendHeader
    <2>2. /\ [r EXCEPT !.status = code, !.sent = r.header] \in Responses
          /\ [r EXCEPT !.status = code, !.sent = r.header].status = code
          /\ [r EXCEPT !.status = code, !.sent = r.header].sent = r.header
          /\ [r EXCEPT !.status = code, !.sent = r.header].header = r.header
          /\ [r EXCEPT !.status = code, !.sent = r.header].grant = r.grant
          /\ [r EXCEPT !.status = code, !.sent = r.header].body = r.body
      BY CodesArePositive DEF Responses
    <2>3. code # 0 BY CodesArePositive
    <2> QED BY <1>1, <2>1, <2>2, <2>3
  <1>2. CASE r.status # 0
    BY <1>2 DEF SendHeader, Responses
  <1> QED BY <1>1, <1>2

LEMMA BodySent ==
  ASSUME NEW r \in Responses, r.status # 0, NEW chunk \in Chunks
  PROVE  /\ SendBody(r, chunk) \in Responses
         /\ SendBody(r, chunk).header = r.header
         /\ SendBody(r, chunk).grant = r.grant
         /\ SendBody(r, chunk).status = r.status
         /\ SendBody(r, chunk).sent = r.sent
         /\ SendBody(r, chunk).body = r.body \cup {chunk}
  <1>1. SendBody(r, chunk) = [r EXCEPT !.body = @ \cup {chunk}]
    BY DEF SendBody, SendHeader
  <1> QED BY <1>1 DEF Responses

LEMMA SendHeaderPlain ==
  ASSUME NEW r, Plain(r), NEW code \in Codes
  PROVE  Plain(SendHeader(r, code)) /\ SendHeader(r, code).status # 0
  <1>2. r \in Responses BY DEF Plain
  <1>3. CASE r.status = 0
    <2>0. PICK s : s = SendHeader(r, code) OBVIOUS
    <2>1. /\ s \in Responses /\ s.header = r.header /\ s.grant = r.grant
          /\ s.body = r.body /\ s.status = code /\ s.sent = r.header /\ s.status # 0
      BY <2>0, <1>2, <1>3, HeaderSent
    <2>2. Plain(s) BY <2>1 DEF Plain
    <2> QED BY <2>0, <2>1, <2>2
  <1>4. CASE r.status # 0
    BY <1>2, <1>4, HeaderSent
  <1> QED BY <1>3, <1>4

LEMMA ErrorPlain ==
  ASSUME NEW q \in SomeRequests, NEW r, Plain(r), NEW code \in Codes
  PROVE  Plain(Error(q, r, code)) /\ Error(q, r, code).status # 0
  <1> DEFINE s == [r EXCEPT !.header.type = "text/plain"]
             t == SendHeader(s, code)
             e == SendBody(t, "plain")
  <1>1. Plain(s) BY DEF Plain, Responses, Headers
  <1>2. s.header.userID = 0 /\ s.header.type = "text/plain" /\ s \in Responses
    BY DEF Plain, Responses, Headers
  <1>3. WriteHeader(q, s, code) = t
    BY <1>1, <1>2 DEF WriteHeader, CompressHeader, ShouldCompress
  <1> HIDE DEF s
  <1>4. Plain(t) /\ t.status # 0 BY <1>1, SendHeaderPlain
  <1>5. t.header.type = "text/plain" BY <1>2, HeaderSent
  <1>6. Error(q, r, code) = e
    BY <1>3, <1>5 DEF Error, CompressBody, ShouldCompress, s
  <1> HIDE DEF t
  <1>7. /\ e \in Responses /\ e.header = t.header /\ e.grant = t.grant
        /\ e.status = t.status /\ e.sent = t.sent
        /\ e.body = t.body \cup {"plain"}
    BY <1>4, BodySent DEF Plain
  <1> HIDE DEF e
  <1> QED BY <1>4, <1>6, <1>7 DEF Plain

LEMMA WriteHeaderPlain ==
  ASSUME NEW q \in SomeRequests, NEW r, Plain(r), NEW code \in Codes
  PROVE  Plain(WriteHeader(q, r, code)) /\ WriteHeader(q, r, code).status # 0
  <1>1. WriteHeader(q, r, code) = SendHeader(r, code)
    BY DEF WriteHeader, CompressHeader, ShouldCompress, Plain
  <1> QED BY <1>1, SendHeaderPlain

LEMMA PlainGood ==
  ASSUME NEW q \in SomeRequests, NEW r, Plain(r), r.status # 0
  PROVE  Good(q, Final(q, r))
  <1>1. Final(q, r) = r
    BY DEF Final, CompressClose, ShouldCompress, Plain, SendHeader
  <1> QED BY <1>1 DEF Plain, Good

\* The body of JSON, for a client that accepts gzip and for one that does not.
LEMMA GzipBodyGood ==
  ASSUME NEW q \in SomeRequests, q.accepts = "gzip", NEW w \in Responses,
         w.status # 0, w.status \in Codes, w.body = {}, w.sent = w.header,
         w.header.type = "application/json", w.header.encoding = "gzip",
         w.header.cookie = NoToken, w.grant = NoToken
  PROVE  Good(q, Final(q, CompressBody(q, w)))
  <1>1. PICK b : b = SendBody(w, "gzip") OBVIOUS
  <1>2. /\ b \in Responses /\ b.header = w.header /\ b.grant = w.grant
        /\ b.status = w.status /\ b.sent = w.sent /\ b.body = w.body \cup {"gzip"}
    BY <1>1, BodySent
  <1>3. PICK e : e = SendBody(b, "end of gzip") OBVIOUS
  <1>4. /\ e \in Responses /\ e.header = b.header /\ e.grant = b.grant
        /\ e.status = b.status /\ e.sent = b.sent /\ e.body = b.body \cup {"end of gzip"}
    <2>1. b \in Responses /\ b.status # 0 BY <1>2
    <2> QED BY <1>3, <2>1, BodySent
  <1>5. CompressBody(q, w) = b BY <1>1 DEF CompressBody, ShouldCompress
  <1>6. CompressClose(q, b) = e BY <1>2, <1>3 DEF CompressClose, ShouldCompress
  <1>7. Final(q, b) = e BY <1>2, <1>4, <1>6 DEF Final, SendHeader
  <1>8. e.body = {"gzip", "end of gzip"} BY <1>2, <1>4
  <1> QED BY <1>2, <1>4, <1>5, <1>7, <1>8 DEF Good

LEMMA PlainBodyGood ==
  ASSUME NEW q \in SomeRequests, q.accepts # "gzip", NEW w \in Responses,
         w.status # 0, w.status \in Codes, w.body = {}, w.sent = w.header,
         w.header.encoding = "", w.header.cookie = NoToken, w.grant = NoToken
  PROVE  Good(q, Final(q, CompressBody(q, w)))
  <1>1. PICK b : b = SendBody(w, "plain") OBVIOUS
  <1>2. /\ b \in Responses /\ b.header = w.header /\ b.grant = w.grant
        /\ b.status = w.status /\ b.sent = w.sent /\ b.body = w.body \cup {"plain"}
    BY <1>1, BodySent
  <1>3. CompressBody(q, w) = b BY <1>1 DEF CompressBody, ShouldCompress
  <1>4. Final(q, b) = b BY <1>2 DEF Final, CompressClose, ShouldCompress, SendHeader
  <1> QED BY <1>2, <1>3, <1>4 DEF Good

LEMMA JSONGood ==
  ASSUME NEW q \in SomeRequests
  PROVE  Good(q, Final(q, WriteJSON(q, Fresh)))
  <1>1. PICK t : t = [Fresh EXCEPT !.header.type = "application/json"] OBVIOUS
  <1>2. /\ t \in Responses /\ t.header.userID = 0 /\ t.status = 0
        /\ t.header.type = "application/json" /\ t.body = {} /\ t.grant = NoToken
        /\ t.header.cookie = NoToken /\ t.header.encoding = ""
    BY <1>1, NoTokenType DEF Fresh, Header, Responses, Headers
  <1>3. PICK c : c = IF q.accepts = "gzip" THEN [t EXCEPT !.header.encoding = "gzip"] ELSE t OBVIOUS
  <1>4. /\ c \in Responses /\ c.status = 0 /\ c.body = {} /\ c.grant = NoToken
        /\ c.header.type = "application/json" /\ c.header.cookie = NoToken
        /\ c.header.encoding = (IF q.accepts = "gzip" THEN "gzip" ELSE "")
    BY <1>2, <1>3 DEF Responses, Headers
  <1>5. PICK w : w = SendHeader(c, 200) OBVIOUS
  <1>6. /\ w \in Responses /\ w.header = c.header /\ w.grant = c.grant
        /\ w.body = c.body /\ w.status # 0 /\ w.status = 200 /\ w.sent = c.header
    <2>1. 200 \in Codes /\ c \in Responses /\ c.status = 0 BY <1>4, CodesArePositive
    <2>2. /\ SendHeader(c, 200) \in Responses
          /\ SendHeader(c, 200).status # 0 /\ SendHeader(c, 200).status = 200
          /\ SendHeader(c, 200).sent = c.header /\ SendHeader(c, 200).header = c.header
          /\ SendHeader(c, 200).grant = c.grant /\ SendHeader(c, 200).body = c.body
      BY <2>1, HeaderSent
    <2> QED BY <1>5, <2>2
  <1>7. WriteHeader(q, t, 200) = w
    BY <1>2, <1>3, <1>5 DEF WriteHeader, CompressHeader, ShouldCompress, SomeRequests
  <1>8. WriteJSON(q, Fresh) = CompressBody(q, w) BY <1>1, <1>7 DEF WriteJSON
  <1>9. w.status \in Codes BY <1>6, CodesArePositive
  <1>10. CASE q.accepts = "gzip"
    <2>1. w.header.encoding = "gzip" BY <1>4, <1>6, <1>10
    <2> QED BY <2>1, <1>4, <1>6, <1>8, <1>9, <1>10, GzipBodyGood
  <1>11. CASE q.accepts # "gzip"
    <2>1. w.header.encoding = "" BY <1>4, <1>6, <1>11
    <2>2. /\ w \in Responses /\ w.status # 0 /\ w.body = {} /\ w.sent = w.header
          /\ w.header.cookie = NoToken /\ w.grant = NoToken
      BY <1>4, <1>6
    <2>3. Good(q, Final(q, CompressBody(q, w))) BY <1>9, <1>11, <2>1, <2>2, PlainBodyGood
    <2> QED BY <1>8, <2>3
  <1> QED BY <1>10, <1>11

\* The answer to a login carries the cookie its grant describes.
LEMMA LoggedInGood ==
  ASSUME NEW q \in SomeRequests, q.endpoint \in WithoutAuth, NEW u \in Users,
         Grant(u) \in Tokens
  PROVE  Good(q, Final(q, LoggedIn(q, Fresh, u)))
  <1>1. PICK g : g = Grant(u) /\ g = GenerateJWTString(u) /\ g \in Tokens
    BY DEF Grant, GenerateJWTString
  <1>2. PICK f : f = [Fresh EXCEPT !.header.userID = u, !.grant = g] OBVIOUS
  <1>3. /\ f \in Responses /\ f.header.userID = u /\ f.status = 0
        /\ f.header.type = "" /\ f.body = {} /\ f.grant = g
        /\ f.header.encoding = ""
    BY <1>1, <1>2, NoTokenType DEF Fresh, Header, Responses, Headers
  <1>4. PICK c : c = [f EXCEPT !.header.cookie = g] OBVIOUS
  <1>5. /\ c \in Responses /\ c.status = 0 /\ c.body = {} /\ c.grant = g
        /\ c.header.type = "" /\ c.header.cookie = g /\ c.header.encoding = ""
    BY <1>1, <1>3, <1>4 DEF Responses, Headers
  <1>6. u # 0 BY RequestsAssumption
  <1>7. WriteHeader(q, f, 200) = SendHeader(c, 200)
    BY <1>1, <1>3, <1>4, <1>5, <1>6 DEF WriteHeader, CompressHeader, ShouldCompress
  <1>8. LoggedIn(q, Fresh, u) = SendHeader(c, 200) BY <1>1, <1>2, <1>7 DEF LoggedIn
  <1>9. PICK w : w = SendHeader(c, 200) OBVIOUS
  <1>10. 200 \in Codes /\ c \in Responses /\ c.status = 0 BY <1>5, CodesArePositive
  <1>11. /\ w \in Responses /\ w.status # 0 /\ w.status = 200
         /\ w.sent = c.header /\ w.header = c.header
         /\ w.grant = c.grant /\ w.body = c.body
    BY <1>9, <1>10, HeaderSent
  <1>12. Final(q, w) = w
    BY <1>5, <1>11 DEF Final, CompressClose, ShouldCompress, SendHeader
  <1>13. w.status \in Codes BY <1>11, CodesArePositive
  <1>14. Good(q, w)
    <2>1. w.sent.encoding # "gzip" /\ w.sent.cookie = g /\ w.grant = g BY <1>5, <1>11
    <2>2. w.body \subseteq {"plain"} BY <1>5, <1>11
    <2> QED BY <2>1, <2>2, <1>11, <1>13 DEF Good
  <1> QED BY <1>8, <1>9, <1>12, <1>14

------------------------------------------------------------------------------
(***************************************************************************)
(* The start of the process, as far as the tokens depend on it.            *)
(***************************************************************************)
ProcInv ==
    /\ proc \in {"down", "flags", "env", "run", "serving"}
    /\ launches \in 0 .. MaxLaunches
    /\ proc \in {"flags", "env", "run"} => launch \in Launches
    /\ settings.key \in Keys
    /\ settings.hours \in Int

LEMMA ZeroIsTyped == Zero.key \in Keys /\ Zero.hours \in Int
  BY DEF Zero, Fields, Keys

LEMMA StartKeepsProc == ProcInv /\ Start => ProcInv'
  <1> SUFFICES ASSUME ProcInv, Start PROVE ProcInv' OBVIOUS
  <1> USE ConfigAssumption DEF ProcInv
  <1>1. CASE \E l \in Launches : Launch(l) BY <1>1 DEF Launch
  <1>2. CASE ParseFlags
    <2>1. FromArgs(launch.flags).key = Zero.key /\ FromArgs(launch.flags).hours = Zero.hours
      BY DEF FromArgs, Zero, Fields
    <2> QED BY <1>2, <2>1, ZeroIsTyped DEF ParseFlags, GiveUp
  <1>3. CASE ParseEnv
    <2>1. settings'.key = FromEnv("key") /\ settings'.hours = FromEnv("hours")
      BY <1>3 DEF ParseEnv, Fields
    <2>2. launch \in Launches BY <1>3 DEF ParseEnv
    <2>3. FromEnv("key") \in Keys
      BY <2>2 DEF FromEnv, Defaults, Keys
    <2>4. FromEnv("hours") \in Int
      BY <2>2 DEF FromEnv, Defaults
    <2> QED BY <1>3, <2>1, <2>3, <2>4 DEF ParseEnv
  <1>4. CASE Run BY <1>4, ZeroIsTyped DEF Run, GiveUp
  <1> QED BY <1>1, <1>2, <1>3, <1>4 DEF Start

------------------------------------------------------------------------------
(***************************************************************************)
(* The inductive invariant: nothing is written before a request is         *)
(* answered, every answer is good, and a client keeps the cookie of the    *)
(* session it was told of.                                                 *)
(***************************************************************************)
ClientInv(c) ==
    /\ pc[c] # "idle" => proc = "serving"
    /\ pc[c] \in {"idle", "validate", "gunzip", "auth"} => userID[c] = 0
    /\ pc[c] = "auth" => request[c].endpoint \notin WithoutAuth
    /\ pc[c] = "handle" => (userID[c] = 0 <=> request[c].endpoint \in WithoutAuth)
    /\ pc[c] # "answered" => response[c] = Fresh
    /\ pc[c] = "answered" => Good(request[c], response[c])

RequestsInv ==
    /\ ProcInv
    /\ now \in 0 .. MaxTime
    /\ users \subseteq Users
    /\ cookie \in [Clients -> Tokens]
    /\ session = cookie
    /\ pc \in [Clients -> Labels]
    /\ request \in [Clients -> SomeRequests]
    /\ userID \in [Clients -> Users \cup {0}]
    /\ response \in [Clients -> Responses]
    /\ \A c \in Clients : ClientInv(c)

LEMMA AnswerKeeps ==
  ASSUME RequestsInv, NEW c \in Clients, pc[c] # "idle", NEW r,
         Good(request[c], Final(request[c], r)), Answer(c, r), users' \subseteq Users
  PROVE  RequestsInv'
  <1> DEFINE f == Final(request[c], r)
  <1>1. response' = [response EXCEPT ![c] = f] /\ pc' = [pc EXCEPT ![c] = "answered"]
    BY DEF Answer, Final
  <1>2. UNCHANGED <<proc, launch, settings, launches, now, cookie, session, request, userID>>
    BY DEF Answer, configVars
  <1>3. f \in Responses /\ Good(request[c], f) BY DEF Good
  <1> HIDE DEF f
  <1>4. pc' \in [Clients -> Labels] /\ response' \in [Clients -> Responses]
    BY <1>1, <1>3 DEF RequestsInv, Labels
  <1>5. ProcInv' BY <1>2 DEF RequestsInv, ProcInv
  <1>6. proc = "serving" BY DEF RequestsInv, ClientInv
  <1>7. ASSUME NEW d \in Clients PROVE ClientInv(d)'
    <2>1. CASE d = c
      <3>1. pc'[d] = "answered" /\ response'[d] = f /\ request'[d] = request[c]
        BY <1>1, <1>2, <2>1 DEF RequestsInv
      <3>2. Good(request'[d], response'[d]) BY <3>1, <1>3
      <3>3. Good(request[d], response[d])' BY <3>2 DEF Good
      <3> QED BY <3>1, <3>3, <1>2, <1>6 DEF ClientInv
    <2>2. CASE d # c
      <3>1. /\ pc'[d] = pc[d] /\ response'[d] = response[d] /\ request'[d] = request[d]
            /\ userID'[d] = userID[d] /\ proc' = proc
        BY <1>1, <1>2, <2>2 DEF RequestsInv
      <3>2. ClientInv(d) BY DEF RequestsInv
      <3>3. pc[d] = "answered" => Good(request[d], response[d])' BY <3>1, <3>2 DEF ClientInv, Good
      <3> QED BY <3>1, <3>2, <3>3 DEF ClientInv
    <2> QED BY <2>1, <2>2
  <1> QED BY <1>2, <1>4, <1>5, <1>7 DEF RequestsInv

\* A step of the request c that writes nothing.
LEMMA SilentKeeps ==
  ASSUME RequestsInv, NEW c \in Clients, NEW label \in Labels \ {"idle", "answered"},
         proc = "serving", pc[c] # "answered",
         NEW q \in SomeRequests, NEW u \in Users \cup {0},
         label \in {"validate", "gunzip", "auth"} => u = 0,
         label = "auth" => q.endpoint \notin WithoutAuth,
         label = "handle" => (u = 0 <=> q.endpoint \in WithoutAuth),
         Goto(c, label),
         request' = [request EXCEPT ![c] = q], userID' = [userID EXCEPT ![c] = u],
         UNCHANGED <<configVars, now, users, cookie, session, response>>
  PROVE  RequestsInv'
  <1>1. UNCHANGED <<proc, launch, settings, launches, now, users, cookie, session, response>>
    BY DEF configVars
  <1>2. pc' = [pc EXCEPT ![c] = label] BY DEF Goto
  <1>3. /\ pc' \in [Clients -> Labels] /\ request' \in [Clients -> SomeRequests]
        /\ userID' \in [Clients -> Users \cup {0}]
    BY <1>2 DEF RequestsInv
  <1>4. ProcInv' BY <1>1 DEF RequestsInv, ProcInv
  <1>5. ASSUME NEW d \in Clients PROVE ClientInv(d)'
    <2>1. ClientInv(d) BY DEF RequestsInv
    <2>2. CASE d = c
      <3>1. pc'[d] = label /\ request'[d] = q /\ userID'[d] = u /\ response'[d] = Fresh
        BY <1>1, <1>2, <2>1, <2>2 DEF RequestsInv, ClientInv
      <3> QED BY <3>1, <1>1 DEF ClientInv
    <2>3. CASE d # c
      <3>1. /\ pc'[d] = pc[d] /\ response'[d] = response[d] /\ request'[d] = request[d]
            /\ userID'[d] = userID[d] /\ proc' = proc
        BY <1>1, <1>2, <2>3 DEF RequestsInv
      <3> QED BY <3>1, <2>1 DEF ClientInv, Good
    <2> QED BY <2>2, <2>3
  <1> QED BY <1>1, <1>3, <1>4, <1>5 DEF RequestsInv

\* What can be written to a fresh response by http.Error and by WriteHeader.
LEMMA PlainAnswers ==
  ASSUME NEW q \in SomeRequests, NEW code \in Codes
  PROVE  /\ Good(q, Final(q, Error(q, Fresh, code)))
         /\ Good(q, Final(q, WriteHeader(q, Fresh, code)))
         /\ Good(q, Final(q, Error(Bare, Fresh, code)))
         /\ Good(q, Final(q, SendHeader(Fresh, code)))
         /\ Good(q, Final(q, Error(q, Error(q, Fresh, 422), code)))
         /\ Good(q, Final(q, WriteHeader(q, Error(q, Fresh, 422), code)))
  <1>1. Bare \in SomeRequests BY DEF Bare, NoRequest, SomeRequests
  <1>2. 422 \in Codes BY DEF Codes
  <1>3. PICK r : r = Error(q, Fresh, 422) /\ Plain(r) BY <1>2, FreshPlain, ErrorPlain
  <1>4. Good(q, Final(q, Error(q, Fresh, code))) BY FreshPlain, ErrorPlain, PlainGood
  <1>5. Good(q, Final(q, WriteHeader(q, Fresh, code))) BY FreshPlain, WriteHeaderPlain, PlainGood
  <1>6. Good(q, Final(q, Error(Bare, Fresh, code))) BY <1>1, FreshPlain, ErrorPlain, PlainGood
  <1>7. Good(q, Final(q, SendHeader(Fresh, code))) BY FreshPlain, SendHeaderPlain, PlainGood
  <1>8. Good(q, Final(q, Error(q, r, code))) BY <1>3, ErrorPlain, PlainGood
  <1>9. Good(q, Final(q, WriteHeader(q, r, code))) BY <1>3, WriteHeaderPlain, PlainGood
  <1> QED BY <1>3, <1>4, <1>5, <1>6, <1>7, <1>8, <1>9

------------------------------------------------------------------------------
(***************************************************************************)
(* One lemma per middleware and handler.                                   *)
(***************************************************************************)
LEMMA RefuseKeeps ==
  ASSUME RequestsInv, NEW c \in Clients, pc[c] \notin {"idle", "answered"},
         NEW code \in Codes, Refuse(c, code) \/ OnlyStatus(c, code), users' \subseteq Users
  PROVE  RequestsInv'
  <1>1. response[c] = Fresh /\ request[c] \in SomeRequests
    BY DEF RequestsInv, ClientInv
  <1>2. CASE Refuse(c, code)
    BY <1>1, <1>2, PlainAnswers, AnswerKeeps DEF Refuse
  <1>3. CASE OnlyStatus(c, code)
    BY <1>1, <1>3, PlainAnswers, AnswerKeeps DEF OnlyStatus
  <1> QED BY <1>2, <1>3

LEMMA SendKeeps ==
  ASSUME RequestsInv, NEW c \in Clients, Send(c)
  PROVE  RequestsInv'
  <1>1. PICK e \in Endpoints, a \in {"", "gzip"} :
          request' = [request EXCEPT ![c] = [endpoint |-> e, accepts |-> a]]
    BY DEF Send
  <1>2. PICK q \in SomeRequests : request' = [request EXCEPT ![c] = q]
    BY <1>1 DEF SomeRequests
  <1>3. userID[c] = 0 /\ userID' = [userID EXCEPT ![c] = 0]
    BY DEF Send, RequestsInv, ClientInv
  <1>4. "validate" \in Labels \ {"idle", "answered"} BY DEF Labels
  <1> QED BY <1>2, <1>3, <1>4, SilentKeeps DEF Send

LEMMA PassOnKeeps ==
  ASSUME RequestsInv, NEW c \in Clients, pc[c] \in {"validate", "gunzip"},
         NEW label \in Labels \ {"idle", "answered"},
         label = "auth" => request[c].endpoint \notin WithoutAuth,
         label = "handle" => request[c].endpoint \in WithoutAuth,
         Goto(c, label),
         UNCHANGED <<configVars, now, users, cookie, session, request, userID, response>>
  PROVE  RequestsInv'
  <1>1. /\ userID[c] = 0 /\ request[c] \in SomeRequests /\ proc = "serving"
    BY DEF RequestsInv, ClientInv
  <1>2. /\ request' = [request EXCEPT ![c] = request[c]]
        /\ userID' = [userID EXCEPT ![c] = 0]
    BY <1>1 DEF RequestsInv
  <1> QED BY <1>1, <1>2, SilentKeeps

LEMMA ValidationMiddlewareKeeps ==
  ASSUME RequestsInv, NEW c \in Clients, ValidationMiddleware(c)
  PROVE  RequestsInv'
  <1>1. pc[c] = "validate" /\ users' = users /\ response[c] = Fresh
        /\ request[c] \in SomeRequests
    BY DEF ValidationMiddleware, RequestsInv, ClientInv
  <1>2. CASE Answer(c, Error(Bare, response[c], 400))
    <2>1. 400 \in Codes BY DEF Codes
    <2>2. Good(request[c], Final(request[c], Error(Bare, response[c], 400)))
      BY <1>1, <2>1, PlainAnswers
    <2> QED BY <1>1, <1>2, <2>2, AnswerKeeps DEF RequestsInv
  <1>3. CASE Goto(c, "gunzip") /\ UNCHANGED <<configVars, now, cookie, session, request,
                                              userID, response>>
    BY <1>1, <1>3, PassOnKeeps DEF Labels
  <1> QED BY <1>2, <1>3 DEF ValidationMiddleware

LEMMA GzipMiddlewareKeeps ==
  ASSUME RequestsInv, NEW c \in Clients, GzipMiddleware(c)
  PROVE  RequestsInv'
  <1>1. pc[c] = "gunzip" /\ users' = users /\ response[c] = Fresh
        /\ request[c] \in SomeRequests
    BY DEF GzipMiddleware, RequestsInv, ClientInv
  <1>2. CASE Answer(c, SendHeader(response[c], 500))
    <2>1. 500 \in Codes BY DEF Codes
    <2>2. Good(request[c], Final(request[c], SendHeader(response[c], 500)))
      BY <1>1, <2>1, PlainAnswers
    <2> QED BY <1>1, <1>2, <2>2, AnswerKeeps DEF RequestsInv
  <1>3. CASE /\ Goto(c, IF request[c].endpoint \in WithoutAuth THEN "handle" ELSE "auth")
             /\ UNCHANGED <<configVars, now, cookie, session, request, userID, response>>
    <2>1. CASE request[c].endpoint \in WithoutAuth
      BY <1>1, <1>3, <2>1, PassOnKeeps DEF Labels
    <2>2. CASE request[c].endpoint \notin WithoutAuth
      BY <1>1, <1>3, <2>2, PassOnKeeps DEF Labels
    <2> QED BY <2>1, <2>2
  <1> QED BY <1>2, <1>3 DEF GzipMiddleware

LEMMA AuthMiddlewareKeeps ==
  ASSUME RequestsInv, NEW c \in Clients, AuthMiddleware(c)
  PROVE  RequestsInv'
  <1>1. pc[c] = "auth" /\ users' = users /\ proc = "serving" /\ users' \subseteq Users
    BY DEF AuthMiddleware, RequestsInv, ClientInv
  <1>2. CASE Valid(cookie[c])
    <2>1. PICK u \in Users : u = cookie[c].user
      BY <1>2 DEF Valid, RequestsInv, Tokens
    <2>2. u # 0 BY RequestsAssumption
    <2>3. /\ userID' = [userID EXCEPT ![c] = u] /\ Goto(c, "handle")
          /\ UNCHANGED <<configVars, now, users, cookie, session, request, response>>
      BY <1>1, <1>2, <2>1 DEF AuthMiddleware
    <2>4. /\ request' = [request EXCEPT ![c] = request[c]]
          /\ request[c] \in SomeRequests /\ request[c].endpoint \notin WithoutAuth
      BY <1>1, <2>3 DEF RequestsInv, ClientInv
    <2>5. "handle" \in Labels \ {"idle", "answered"} BY DEF Labels
    <2> QED BY <1>1, <2>1, <2>2, <2>3, <2>4, <2>5, SilentKeeps
  <1>3. CASE ~Valid(cookie[c])
    <2>1. 401 \in Codes BY DEF Codes
    <2> QED BY <1>1, <1>3, <2>1, RefuseKeeps DEF AuthMiddleware
  <1> QED BY <1>2, <1>3

LEMMA LoginKeeps ==
  ASSUME RequestsInv, NEW c \in Clients, pc[c] = "handle",
         request[c].endpoint \in WithoutAuth, NEW u \in Users, users' \subseteq Users,
         Answer(c, LoggedIn(request[c], response[c], u))
  PROVE  RequestsInv'
  <1>1. response[c] = Fresh /\ request[c] \in SomeRequests
    BY DEF RequestsInv, ClientInv
  <1>2. Grant(u) \in Tokens
    <2>1. settings.key \in Keys /\ settings.hours \in Int /\ now \in Nat
      BY DEF RequestsInv, ProcInv
    <2> QED BY <2>1 DEF Grant, Tokens
  <1>3. Good(request[c], Final(request[c], LoggedIn(request[c], response[c], u)))
    BY <1>1, <1>2, LoggedInGood
  <1> QED BY <1>3, AnswerKeeps

LEMMA HandlerKeeps ==
  ASSUME RequestsInv, NEW c \in Clients, Handler(c)
  PROVE  RequestsInv'
  <1>1. /\ pc[c] = "handle" /\ response[c] = Fresh /\ request[c] \in SomeRequests
        /\ users \subseteq Users
    BY DEF Handler, RegisterHandler, LoginHandler, UserBalancesHandler, RegisterOrderHandler,
           ReadAllHandler, CreateWithdrawalHandler, Handles, RequestsInv, ClientInv
  <1>2. {200, 202, 204, 400, 401, 402, 409, 422, 500} \subseteq Codes BY DEF Codes
  <1>3. ASSUME NEW code \in Codes, Refuse(c, code) \/ OnlyStatus(c, code), users' \subseteq Users
        PROVE RequestsInv'
    BY <1>1, <1>3, RefuseKeeps
  <1>4. ASSUME users' = users, Answer(c, WriteJSON(request[c], response[c]))
        PROVE RequestsInv'
    BY <1>1, <1>4, JSONGood, AnswerKeeps
  <1>5. ASSUME users' = users, NEW code \in Codes,
               \/ Answer(c, WriteHeader(request[c], Error(request[c], response[c], 422), code))
               \/ Answer(c, Error(request[c], Error(request[c], response[c], 422), code))
        PROVE RequestsInv'
    BY <1>1, <1>5, PlainAnswers, AnswerKeeps
  <1>6. CASE RegisterHandler(c)
    <2>1. CASE (\E code \in Codes : Refuse(c, code) \/ OnlyStatus(c, code)) /\ users' \subseteq Users
      BY <2>1, <1>3
    <2>2. CASE \E u \in Users \ users : /\ users' = users \cup {u}
                                       /\ Answer(c, LoggedIn(request[c], response[c], u))
      <3>1. request[c].endpoint \in WithoutAuth
        BY <1>6 DEF RegisterHandler, Handles, WithoutAuth
      <3> QED BY <1>1, <2>2, <3>1, LoginKeeps
    <2> QED BY <1>1, <1>2, <1>6, <2>1, <2>2 DEF RegisterHandler, RefuseJSON
  <1>7. CASE LoginHandler(c)
    <2>1. CASE \E code \in Codes : Refuse(c, code) \/ OnlyStatus(c, code)
      BY <1>1, <2>1, <1>3, <1>7 DEF LoginHandler
    <2>2. CASE \E u \in users : Answer(c, LoggedIn(request[c], response[c], u))
      <3>1. request[c].endpoint \in WithoutAuth /\ users' = users
        BY <1>7 DEF LoginHandler, Handles, WithoutAuth
      <3> QED BY <1>1, <2>2, <3>1, LoginKeeps
    <2> QED BY <1>2, <1>7, <2>1, <2>2 DEF LoginHandler, RefuseJSON
  <1>8. CASE RegisterOrderHandler(c)
    <2>1. users' = users BY <1>8 DEF RegisterOrderHandler
    <2> QED BY <1>1, <1>2, <1>3, <1>5, <1>8, <2>1
            DEF RegisterOrderHandler, UploadAnswers, Refuse, OnlyStatus
  <1>9. CASE ReadAllHandler(c)
    BY <1>1, <1>2, <1>3, <1>4, <1>9 DEF ReadAllHandler
  <1>10. CASE UserBalancesHandler(c)
    BY <1>1, <1>2, <1>3, <1>4, <1>10 DEF UserBalancesHandler
  <1>11. CASE CreateWithdrawalHandler(c)
    <2>1. users' = users BY <1>11 DEF CreateWithdrawalHandler
    <2> QED BY <1>1, <1>2, <1>3, <1>5, <1>11, <2>1
            DEF CreateWithdrawalHandler, WithdrawalAnswers, RefuseJSON, Refuse, OnlyStatus
  <1> QED BY <1>6, <1>7, <1>8, <1>9, <1>10, <1>11 DEF Handler

LEMMA DoneKeeps ==
  ASSUME RequestsInv, NEW c \in Clients, Done(c),
         cookie' \in [Clients -> Tokens], session' = cookie'
  PROVE  RequestsInv'
  <1>1. UNCHANGED <<proc, launch, settings, launches, now, users>> BY DEF Done, configVars
  <1>2. /\ pc' = [pc EXCEPT ![c] = "idle"]
        /\ request' = [request EXCEPT ![c] = NoRequest]
        /\ userID' = [userID EXCEPT ![c] = 0]
        /\ response' = [response EXCEPT ![c] = Fresh]
    BY DEF Done, Goto
  <1>3. NoRequest \in SomeRequests BY DEF NoRequest, SomeRequests
  <1>4. /\ pc' \in [Clients -> Labels] /\ request' \in [Clients -> SomeRequests]
        /\ userID' \in [Clients -> Users \cup {0}] /\ response' \in [Clients -> Responses]
    BY <1>2, <1>3, NoTokenType DEF RequestsInv, Labels
  <1>5. ProcInv' BY <1>1 DEF RequestsInv, ProcInv
  <1>6. ASSUME NEW d \in Clients PROVE ClientInv(d)'
    <2>1. ClientInv(d) BY DEF RequestsInv
    <2>2. CASE d = c
      <3>1. pc'[d] = "idle" /\ userID'[d] = 0 /\ response'[d] = Fresh
        BY <1>2, <2>2 DEF RequestsInv
      <3> QED BY <3>1 DEF ClientInv
    <2>3. CASE d # c
      <3>1. /\ pc'[d] = pc[d] /\ response'[d] = response[d] /\ request'[d] = request[d]
            /\ userID'[d] = userID[d] /\ proc' = proc
        BY <1>1, <1>2, <2>3 DEF RequestsInv
      <3>2. pc[d] = "answered" => Good(request[d], response[d])'
        BY <3>1, <2>1 DEF ClientInv, Good
      <3> QED BY <3>1, <3>2, <2>1 DEF ClientInv
    <2> QED BY <2>2, <2>3
  <1> QED BY <1>1, <1>4, <1>5, <1>6 DEF RequestsInv

\* What the client is told and the cookie that comes with it are the same.
LEMMA ReceiveKeeps ==
  ASSUME RequestsInv, NEW c \in Clients, Receive(c)
  PROVE  RequestsInv'
  <1>1. PICK r : r = response[c] OBVIOUS
  <1>2. Good(request[c], r) BY <1>1 DEF Receive, RequestsInv, ClientInv
  <1>3. r.grant \in Tokens /\ r.sent.cookie = r.grant /\ (r.grant # NoToken => r.status = 200)
    BY <1>2 DEF Good, Responses
  <1>4. PICK k : k = IF r.grant # NoToken THEN r.grant ELSE cookie[c] OBVIOUS
  <1>5. k \in Tokens BY <1>3, <1>4 DEF RequestsInv
  <1>6. cookie' = [cookie EXCEPT ![c] = k] /\ session' = [session EXCEPT ![c] = k]
    BY <1>1, <1>3, <1>4 DEF Receive, RequestsInv
  <1>7. cookie' \in [Clients -> Tokens] /\ session' = cookie' BY <1>5, <1>6 DEF RequestsInv
  <1> QED BY <1>7, DoneKeeps DEF Receive

LEMMA LoseKeeps ==
  ASSUME RequestsInv, NEW c \in Clients, Lose(c)
  PROVE  RequestsInv'
  BY DoneKeeps DEF Lose, RequestsInv

LEMMA TickKeeps ==
  ASSUME RequestsInv, Tick
  PROVE  RequestsInv'
  <1>1. /\ UNCHANGED <<proc, launch, settings, launches, users, cookie, session, pc, request,
                       userID, response>>
        /\ now' = now + 1 /\ now < MaxTime
    BY DEF Tick, configVars, clientVars
  <1>2. ProcInv' BY <1>1 DEF RequestsInv, ProcInv
  <1>3. now' \in 0 .. MaxTime BY <1>1, RequestsAssumption DEF RequestsInv
  <1>4. ASSUME NEW d \in Clients PROVE ClientInv(d)'
    BY <1>1 DEF RequestsInv, ClientInv, Good
  <1> QED BY <1>1, <1>2, <1>3, <1>4 DEF RequestsInv

LEMMA ExitKeeps ==
  ASSUME RequestsInv, Exit
  PROVE  RequestsInv'
  <1>1. NoRequest \in SomeRequests BY DEF NoRequest, SomeRequests
  <1>2. ProcInv' BY ZeroIsTyped DEF Exit, GiveUp, RequestsInv, ProcInv
  <1>3. /\ pc' \in [Clients -> Labels] /\ request' \in [Clients -> SomeRequests]
        /\ userID' \in [Clients -> Users \cup {0}] /\ response' \in [Clients -> Responses]
    BY <1>1, NoTokenType DEF Exit, Labels
  <1>4. ASSUME NEW d \in Clients PROVE ClientInv(d)'
    <2>1. pc'[d] = "idle" /\ userID'[d] = 0 /\ response'[d] = Fresh BY DEF Exit
    <2> QED BY <2>1 DEF ClientInv
  <1>5. UNCHANGED <<now, users, cookie, session>> BY DEF Exit
  <1> QED BY <1>2, <1>3, <1>4, <1>5 DEF RequestsInv

\* While the process starts there are no requests.
LEMMA StartKeeps ==
  ASSUME RequestsInv, Start, UNCHANGED <<now, users, clientVars>>
  PROVE  RequestsInv'
  <1>1. ProcInv' BY StartKeepsProc DEF RequestsInv
  <1>2. proc # "serving" BY DEF Start, Launch, ParseFlags, ParseEnv, Run
  <1>3. UNCHANGED <<now, users, cookie, session, pc, request, userID, response>>
    BY DEF clientVars
  <1>4. ASSUME NEW d \in Clients PROVE ClientInv(d)'
    <2>1. ClientInv(d) BY DEF RequestsInv
    <2>2. pc[d] = "idle" BY <1>2, <2>1 DEF ClientInv
    <2> QED BY <1>3, <2>1, <2>2 DEF ClientInv
  <1> QED BY <1>1, <1>3, <1>4 DEF RequestsInv

------------------------------------------------------------------------------
LEMMA InitEstablishes == Init => RequestsInv
  <1> SUFFICES ASSUME Init PROVE RequestsInv OBVIOUS
  <1>1. NoRequest \in SomeRequests BY DEF NoRequest, SomeRequests
  <1>2. ProcInv BY ZeroIsTyped, ConfigAssumption DEF Init, ConfigInit, ProcInv
  <1>3. ASSUME NEW d \in Clients PROVE ClientInv(d)
    BY DEF Init, ClientInv
  <1>4. /\ now \in 0 .. MaxTime /\ users \subseteq Users
        /\ cookie \in [Clients -> Tokens] /\ session = cookie
    BY NoTokenType, RequestsAssumption DEF Init
  <1>5. /\ pc \in [Clients -> Labels] /\ request \in [Clients -> SomeRequests]
        /\ userID \in [Clients -> Users \cup {0}] /\ response \in [Clients -> Responses]
    BY <1>1, NoTokenType DEF Init, Labels
  <1> QED BY <1>2, <1>3, <1>4, <1>5 DEF RequestsInv

LEMMA StepKeeps == RequestsInv /\ [Next]_vars => RequestsInv'
  <1> SUFFICES ASSUME RequestsInv, [Next]_vars PROVE RequestsInv' OBVIOUS
  <1>1. CASE Start /\ UNCHANGED <<now, users, clientVars>> BY <1>1, StartKeeps
  <1>2. ASSUME NEW c \in Clients,
               \/ Send(c) \/ ValidationMiddleware(c) \/ GzipMiddleware(c) \/ AuthMiddleware(c)
               \/ Handler(c) \/ Receive(c) \/ Lose(c)
        PROVE  RequestsInv'
    BY <1>2, SendKeeps, ValidationMiddlewareKeeps, GzipMiddlewareKeeps, AuthMiddlewareKeeps,
       HandlerKeeps, ReceiveKeeps, LoseKeeps
  <1>3. CASE Tick BY <1>3, TickKeeps
  <1>4. CASE Exit BY <1>4, ExitKeeps
  <1>5. CASE UNCHANGED vars
    <2>1. UNCHANGED <<proc, launch, settings, launches, now, users, cookie, session, pc, request,
                      userID, response>>
      BY <1>5 DEF vars, configVars, clientVars
    <2>2. ProcInv' BY <2>1 DEF RequestsInv, ProcInv
    <2>3. ASSUME NEW d \in Clients PROVE ClientInv(d)'
      BY <2>1 DEF RequestsInv, ClientInv, Good
    <2> QED BY <2>1, <2>2, <2>3 DEF RequestsInv
  <1> QED BY <1>1, <1>2, <1>3, <1>4, <1>5 DEF Next

(***************************************************************************)
(* The invariant of Requests holds: requests start and end as their pc     *)
(* says, the answers are good, and cookies are those of told sessions.     *)
(***************************************************************************)
THEOREM RequestsInvariant == Spec => []RequestsInv
  BY InitEstablishes, StepKeeps, PTL DEF Spec

(***************************************************************************)
(* A handler behind AuthMiddleware always finds a user in its context, no  *)
(* answer is without a status, and no request outlives its process.        *)
(***************************************************************************)
THEOREM RequestsTypeCorrect == Spec => []TypeOK
  <1>1. RequestsInv => TypeOK
    <2> SUFFICES ASSUME RequestsInv PROVE TypeOK OBVIOUS
    <2>1. ASSUME NEW c \in Clients
          PROVE  /\ pc[c] # "idle" => proc = "serving"
                 /\ pc[c] = "handle" => (userID[c] = 0 <=> request[c].endpoint \in WithoutAuth)
                 /\ pc[c] = "answered" <=> response[c].status # 0
                 /\ pc[c] = "answered" => response[c].status \in Codes
      <3>1. ClientInv(c) BY DEF RequestsInv
      <3>2. pc[c] = "answered" => response[c].status \in Codes BY <3>1 DEF ClientInv, Good
      <3>3. pc[c] # "answered" => response[c].status = 0 BY <3>1 DEF ClientInv, Fresh
      <3> QED BY <3>1, <3>2, <3>3, CodesArePositive DEF ClientInv
    <2> QED BY <2>1 DEF RequestsInv, ProcInv, TypeOK
  <1> QED BY <1>1, RequestsInvariant, PTL

(***************************************************************************)
(* The body of every answer is what its Content-Encoding says, whatever    *)
(* the handlers write and in which order (compress/gzip.go).               *)
(***************************************************************************)
THEOREM EncodingTellsBodyCorrect == Spec => []EncodingTellsBody
  <1>1. RequestsInv => EncodingTellsBody
    BY DEF RequestsInv, ClientInv, Good, EncodingTellsBody
  <1> QED BY <1>1, RequestsInvariant, PTL

(***************************************************************************)
(* An answer carries a cookie exactly if it reports a login, and then the  *)
(* one for this user (SetAuthWriter.WriteHeader, middlewares/auth.go).     *)
(***************************************************************************)
THEOREM CookieTellsLoginCorrect == Spec => []CookieTellsLogin
  <1>1. RequestsInv => CookieTellsLogin
    BY DEF RequestsInv, ClientInv, Good, CookieTellsLogin
  <1> QED BY <1>1, RequestsInvariant, PTL

------------------------------------------------------------------------------
\* What a step of the request d does to the labels and the users in the contexts.
LEMMA HandlerAnswers ==
  ASSUME NEW d \in Clients, Handler(d)
  PROVE  pc[d] = "handle" /\ userID' = userID /\ pc' = [pc EXCEPT ![d] = "answered"]
  <1>1. \A r : Answer(d, r) => userID' = userID /\ pc' = [pc EXCEPT ![d] = "answered"]
    BY DEF Answer
  <1> QED BY <1>1 DEF Handler, RegisterHandler, LoginHandler, UserBalancesHandler,
       RegisterOrderHandler, ReadAllHandler, CreateWithdrawalHandler, Handles, RefuseJSON,
       UploadAnswers, WithdrawalAnswers, Refuse, OnlyStatus

LEMMA RequestSteps ==
  ASSUME RequestsInv, Next, NEW c \in Clients
  PROVE  \/ pc'[c] = pc[c] /\ userID'[c] = userID[c]
         \/ pc'[c] = "idle" /\ userID'[c] = 0
         \/ pc[c] # "auth" /\ userID'[c] = userID[c]
         \/ AuthMiddleware(c)
  <1>0. pc \in [Clients -> Labels] /\ userID \in [Clients -> Users \cup {0}] BY DEF RequestsInv
  <1>1. CASE Start /\ UNCHANGED <<now, users, clientVars>> BY <1>1 DEF clientVars
  <1>2. ASSUME NEW d \in Clients,
               Send(d) \/ ValidationMiddleware(d) \/ GzipMiddleware(d)
        PROVE  /\ pc[d] # "auth" /\ userID' = userID
               /\ \E label \in Labels : pc' = [pc EXCEPT ![d] = label]
    BY <1>2 DEF Send, ValidationMiddleware, GzipMiddleware, Answer, Goto, Labels
  <1>3. ASSUME NEW d \in Clients, AuthMiddleware(d)
        PROVE  /\ \E u : userID' = [userID EXCEPT ![d] = u]
               /\ \E label \in Labels : pc' = [pc EXCEPT ![d] = label]
    <2>1. CASE Valid(cookie[d]) BY <1>3, <2>1 DEF AuthMiddleware, Goto, Labels
    <2>2. CASE ~Valid(cookie[d])
      <3>1. userID' = userID /\ pc' = [pc EXCEPT ![d] = "answered"]
        BY <1>3, <2>2 DEF AuthMiddleware, Refuse, Answer
      <3>2. userID' = [userID EXCEPT ![d] = userID[d]] BY <1>0, <3>1
      <3> QED BY <3>1, <3>2 DEF Labels
    <2> QED BY <2>1, <2>2
  <1>4. ASSUME NEW d \in Clients, Receive(d) \/ Lose(d)
        PROVE  pc' = [pc EXCEPT ![d] = "idle"] /\ userID' = [userID EXCEPT ![d] = 0]
    BY <1>4 DEF Receive, Lose, Done, Goto
  <1>5. CASE Tick BY <1>5 DEF Tick, clientVars
  <1>6. CASE Exit BY <1>6 DEF Exit
  <1>7. ASSUME NEW d \in Clients,
               \/ Send(d) \/ ValidationMiddleware(d) \/ GzipMiddleware(d) \/ AuthMiddleware(d)
               \/ Handler(d) \/ Receive(d) \/ Lose(d)
        PROVE  \/ pc'[c] = pc[c] /\ userID'[c] = userID[c]
               \/ pc'[c] = "idle" /\ userID'[c] = 0
               \/ pc[c] # "auth" /\ userID'[c] = userID[c]
               \/ AuthMiddleware(c)
    <2>1. CASE Send(d) \/ ValidationMiddleware(d) \/ GzipMiddleware(d) BY <1>0, <1>2, <2>1
    <2>2. CASE AuthMiddleware(d)
      <3>1. CASE d = c BY <2>2, <3>1
      <3>2. CASE d # c BY <1>0, <1>3, <2>2, <3>2
      <3> QED BY <3>1, <3>2
    <2>3. CASE Handler(d)
      <3>1. pc[d] = "handle" /\ userID' = userID /\ pc' = [pc EXCEPT ![d] = "answered"]
        BY <2>3, HandlerAnswers
      <3> QED BY <1>0, <3>1
    <2>4. CASE Receive(d) \/ Lose(d) BY <1>0, <1>4, <2>4
    <2> QED BY <1>7, <2>1, <2>2, <2>3, <2>4
  <1> QED BY <1>1, <1>5, <1>6, <1>7 DEF Next

(***************************************************************************)
(* Whoever is served as a user was told that it is logged in as this user, *)
(* by a process with this key, and its time is not over (GetUserID).       *)
(***************************************************************************)
THEOREM AuthorisedBySessionCorrect == Spec => AuthorisedBySession
  <1>1. ASSUME RequestsInv, [Next]_vars, NEW c \in Clients, userID[c] = 0, userID'[c] # 0
        PROVE  session[c].user = userID'[c] /\ Valid(session[c])
    <2>1. ~UNCHANGED vars BY <1>1 DEF vars, clientVars
    <2>2. AuthMiddleware(c) BY <1>1, <2>1, RequestSteps
    <2>3. CASE Valid(cookie[c])
      <3>1. userID' = [userID EXCEPT ![c] = cookie[c].user]
        BY <2>2, <2>3 DEF AuthMiddleware
      <3> QED BY <1>1, <2>3, <3>1 DEF RequestsInv
    <2>4. CASE ~Valid(cookie[c])
      BY <1>1, <2>2, <2>4 DEF AuthMiddleware, Refuse, Answer
    <2> QED BY <2>3, <2>4
  <1>2. RequestsInv /\ [Next]_vars =>
          [\A c \in Clients : userID[c] = 0 /\ userID'[c] # 0 =>
              session[c].user = userID'[c] /\ Valid(session[c])]_vars
    BY <1>1
  <1> QED BY <1>2, RequestsInvariant, PTL DEF Spec, AuthorisedBySession

(***************************************************************************)
(* No session is ended early: the answer 401 means that the time is over,  *)
(* that the key is another one, or that there was no session.              *)
(***************************************************************************)
THEOREM SessionLastsCorrect == Spec => SessionLasts
  <1>1. ASSUME RequestsInv, [Next]_vars, NEW c \in Clients, pc[c] = "auth", pc'[c] = "answered"
        PROVE  ~Valid(session[c])
    <2>1. ~UNCHANGED vars BY <1>1 DEF vars, clientVars
    <2>2. AuthMiddleware(c) BY <1>1, <2>1, RequestSteps
    <2>3. session[c] = cookie[c] BY <1>1 DEF RequestsInv
    <2>4. ASSUME Valid(cookie[c]) PROVE FALSE
      <3>1. pc' = [pc EXCEPT ![c] = "handle"] BY <2>2, <2>4 DEF AuthMiddleware, Goto
      <3> QED BY <1>1, <3>1 DEF RequestsInv
    <2> QED BY <2>3, <2>4
  <1>2. RequestsInv /\ [Next]_vars =>
          [\A c \in Clients : pc[c] = "auth" /\ pc'[c] = "answered" => ~Valid(session[c])]_vars
    BY <1>1
  <1> QED BY <1>2, RequestsInvariant, PTL DEF Spec, SessionLasts

(***************************************************************************)
(* Whatever the command line and the environment, the process is about to  *)
(* serve with the settings asked for, however often it starts and exits.   *)
(***************************************************************************)
THEOREM ServesAsAskedCorrect == Spec => []ServesAsAsked
  <1>1. Init => StartInv BY DEF Init, ConfigInit, StartInv, ServesAsAsked
  <1>2. Next => Start \/ GiveUp \/ UNCHANGED configVars
    <2>1. ASSUME NEW c \in Clients,
                 \/ Send(c) \/ ValidationMiddleware(c) \/ GzipMiddleware(c) \/ AuthMiddleware(c)
                 \/ Handler(c) \/ Receive(c) \/ Lose(c)
          PROVE  UNCHANGED configVars
      <3>1. \A r : Answer(c, r) => UNCHANGED configVars BY DEF Answer
      <3>2. CASE \/ Send(c) \/ ValidationMiddleware(c) \/ GzipMiddleware(c)
                 \/ AuthMiddleware(c) \/ Receive(c) \/ Lose(c)
        BY <3>1, <3>2 DEF Send, ValidationMiddleware, GzipMiddleware, AuthMiddleware, Refuse,
           Receive, Lose, Done
      <3>3. CASE Handler(c)
        BY <3>1, <3>3 DEF Handler, RegisterHandler, LoginHandler, UserBalancesHandler,
           RegisterOrderHandler, ReadAllHandler, CreateWithdrawalHandler, RefuseJSON,
           UploadAnswers, WithdrawalAnswers, Refuse, OnlyStatus
      <3> QED BY <2>1, <3>2, <3>3
    <2> QED BY <2>1 DEF Next, Tick, Exit
  <1>3. StartInv /\ [Next]_vars => StartInv'
    <2>1. StartInv /\ UNCHANGED configVars => StartInv'
      BY DEF StartInv, ServesAsAsked, Asked, HasVariable, configVars
    <2> QED BY <1>2, <2>1, StartKeepsInv, GiveUpKeeps DEF vars
  <1>4. StartInv => ServesAsAsked BY DEF StartInv
  <1> QED BY <1>1, <1>3, <1>4, PTL DEF Spec
==============================================================================
