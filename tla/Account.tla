------------------------------- MODULE Account -------------------------------
(***************************************************************************)
(* What a loyalty account promises (SPECIFICATION.md:206-267): points come *)
(* in as accruals, go out as withdrawals that the balance covers, and the  *)
(* two sums a user sees change together.                                   *)
(***************************************************************************)
EXTENDS Integers

CONSTANTS Users, Amounts, Rewards

VARIABLES
    balance,     \* the current points of a user
    withdrawn    \* the points used since the registration

vars == <<balance, withdrawn>>

Init ==
    /\ balance = [u \in Users |-> 0]
    /\ withdrawn = [u \in Users |-> 0]

Earn(u, a) ==
    /\ balance' = [balance EXCEPT ![u] = @ + a]
    /\ UNCHANGED withdrawn

Withdraw(u, a) ==
    /\ a <= balance[u]
    /\ balance' = [balance EXCEPT ![u] = @ - a]
    /\ withdrawn' = [withdrawn EXCEPT ![u] = @ + a]

Next ==
    \E u \in Users :
        \/ \E a \in Rewards : Earn(u, a)
        \/ \E a \in Amounts : Withdraw(u, a)

Spec == Init /\ [][Next]_vars
==============================================================================
