------------------------------ MODULE RewardOnce ------------------------------
(***************************************************************************)
(* What order processing promises (SPECIFICATION.md:15-16): an accepted    *)
(* order for which the accrual system grants points is credited to its     *)
(* owner at most once, and nothing else is credited.                       *)
(***************************************************************************)
EXTENDS Naturals

CONSTANT Orders

VARIABLES
    accepted,   \* the orders that were uploaded
    granted,    \* those the accrual system granted points for
    points      \* how many times each order was credited

vars == <<accepted, granted, points>>

Init ==
    /\ accepted = {}
    /\ granted = {}
    /\ points = [o \in Orders |-> 0]

Accept(o) ==
    /\ o \notin accepted
    /\ accepted' = accepted \cup {o}
    /\ UNCHANGED <<granted, points>>

Grant(o) ==
    /\ o \in accepted \ granted
    /\ granted' = granted \cup {o}
    /\ UNCHANGED <<accepted, points>>

Credit(o) ==
    /\ o \in granted
    /\ points[o] = 0
    /\ points' = [points EXCEPT ![o] = 1]
    /\ UNCHANGED <<accepted, granted>>

Next == \E o \in Orders : Accept(o) \/ Grant(o) \/ Credit(o)

Spec == Init /\ [][Next]_vars
==============================================================================
