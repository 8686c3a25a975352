-------------------------------- MODULE Bonus --------------------------------
(***************************************************************************)
(* What the loyalty system promises its users end to end                   *)
(* (SPECIFICATION.md:9-16): an order that was accepted and for which the   *)
(* accrual system grants points pays these points to the account of its    *)
(* owner, at most once; points leave an account only as withdrawals that   *)
(* its balance covers.                                                     *)
(***************************************************************************)
EXTENDS Integers

CONSTANTS Users, Orders, Amounts, Owner, Points

VARIABLES
    accepted,    \* the orders that were uploaded
    granted,     \* those the accrual system granted points for
    paid,        \* those whose points were added to a balance
    balance,     \* the current points of a user
    withdrawn    \* the points used since the registration

vars == <<accepted, granted, paid, balance, withdrawn>>

Init ==
    /\ accepted = {} /\ granted = {} /\ paid = {}
    /\ balance = [u \in Users |-> 0]
    /\ withdrawn = [u \in Users |-> 0]

Accept(o) ==
    /\ o \notin accepted
    /\ accepted' = accepted \cup {o}
    /\ UNCHANGED <<granted, paid, balance, withdrawn>>

Grant(o) ==
    /\ o \in accepted \ granted
    /\ granted' = granted \cup {o}
    /\ UNCHANGED <<accepted, paid, balance, withdrawn>>

Pay(o) ==
    /\ o \in granted \ paid
    /\ paid' = paid \cup {o}
    /\ balance' = [balance EXCEPT ![Owner[o]] = @ + Points[o]]
    /\ UNCHANGED <<accepted, granted, withdrawn>>

Withdraw(u, a) ==
    /\ a <= balance[u]
    /\ balance' = [balance EXCEPT ![u] = @ - a]
    /\ withdrawn' = [withdrawn EXCEPT ![u] = @ + a]
    /\ UNCHANGED <<accepted, granted, paid>>

Next ==
    \/ \E o \in Orders : Accept(o) \/ Grant(o) \/ Pay(o)
    \/ \E u \in Users, a \in Amounts : Withdraw(u, a)

Spec == Init /\ [][Next]_vars
==============================================================================
