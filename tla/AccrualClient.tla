---------------------------- MODULE AccrualClient ----------------------------
(***************************************************************************)
(* AccrualRepository: how the workers share one client of the accrual      *)
(* system, and what becomes of the pause that an answer 429 asks for.      *)
(*                                                                         *)
(* GetOrder has a value receiver.  Each call works on a copy of the        *)
(* repository, taken when it is called: the copy's retryAfter is what      *)
(* CanDoRequest and GetSleepDuration look at, and what a 429 sets.         *)
(* Time is counted in the nanoseconds of time.Duration.                    *)
(***************************************************************************)
EXTENDS Integers

CONSTANTS
    Workers,
    Second,      \* bound: nanoseconds in a second, few enough to count
    Pauses,      \* values of Retry-After, in seconds
    MaxTime      \* bound: nanoseconds the client is watched

VARIABLES
    now,
    retryAfter,  \* the field of the repository that the service has; 0 is the zero time
    copy,        \* the retryAfter of the copy that GetOrder of a worker works on
    pc,          \* where GetOrder of a worker is; "gone" once the process has died
    wake,        \* when its time.Sleep is over
    told         \* until when the worker was last told to wait

vars == <<now, retryAfter, copy, pc, wake, told>>

Init ==
    /\ now = 1
    /\ retryAfter = 0
    /\ copy = [w \in Workers |-> 0]
    /\ pc = [w \in Workers |-> "idle"]
    /\ wake = [w \in Workers |-> 0]
    /\ told = [w \in Workers |-> 0]

CanDoRequest(until) == until = 0 \/ until < now

\* The number of seconds to wait, taken for a number of nanoseconds.
GetSleepDuration(until) == (until - now) \div Second

Goto(w, label) == pc' = [pc EXCEPT ![w] = label]

\* A worker calls GetOrder, which sleeps if the copy says so.
GetOrder(w) ==
    /\ pc[w] = "idle"
    /\ copy' = [copy EXCEPT ![w] = retryAfter]
    /\ IF CanDoRequest(retryAfter)
       THEN Goto(w, "send") /\ UNCHANGED wake
       ELSE /\ Goto(w, "asleep")
            /\ wake' = [wake EXCEPT ![w] = now + GetSleepDuration(retryAfter)]
    /\ UNCHANGED <<now, retryAfter, told>>

Wake(w) ==
    /\ pc[w] = "asleep"
    /\ wake[w] <= now
    /\ Goto(w, "send")
    /\ UNCHANGED <<now, retryAfter, copy, wake, told>>

\* The request is on its way.
Get(w) ==
    /\ pc[w] = "send"
    /\ Goto(w, "waiting")
    /\ UNCHANGED <<now, retryAfter, copy, wake, told>>

\* 429 with a Retry-After that is a number of seconds: the copy is told of it.
TooManyRequests(w) ==
    /\ pc[w] = "waiting"
    /\ \E seconds \in Pauses :
        /\ copy' = [copy EXCEPT ![w] = now + seconds]
        /\ told' = [told EXCEPT ![w] = now + seconds * Second]
    /\ Goto(w, "idle")
    /\ UNCHANGED <<now, retryAfter, wake>>

\* Any other answer, or none, or a Retry-After that is not a number.
Return(w) ==
    /\ pc[w] = "waiting"
    /\ Goto(w, "idle")
    /\ UNCHANGED <<now, retryAfter, copy, wake, told>>

\* 429 without a Retry-After: GetOrder indexes an empty slice, and the process dies.
Panic(w) ==
    /\ pc[w] = "waiting"
    /\ pc' = [v \in Workers |-> "gone"]
    /\ UNCHANGED <<now, retryAfter, copy, wake, told>>

Tick ==
    /\ now < MaxTime
    /\ now' = now + 1
    /\ UNCHANGED <<retryAfter, copy, pc, wake, told>>

Next ==
    \/ \E w \in Workers :
        GetOrder(w) \/ Wake(w) \/ Get(w) \/ TooManyRequests(w) \/ Return(w) \/ Panic(w)
    \/ Tick

Spec == Init /\ [][Next]_vars

------------------------------------------------------------------------------
(***************************************************************************)
(* "Retry-After: 60" (SPECIFICATION.md:358): a worker that was told to     *)
(* wait sends nothing until then.  It is what GetOrder has CanDoRequest    *)
(* and GetSleepDuration for (repositories/accrual.go:64).                  *)
(***************************************************************************)
PauseIsKept ==
    [][\A w \in Workers : pc[w] = "send" /\ pc'[w] = "waiting" => told[w] <= now]_vars
==============================================================================
