------------------------------- MODULE MCServer -------------------------------
(* Instances of Server for TLC.                                             *)
EXTENDS Server

CONSTANTS u1, u2, r1, r2

\* The orders are one user's, and the other user may withdraw nevertheless.
FirstOwner == [o \in Orders |-> u1]
SecondOwner == [o \in Orders |-> u2]
PointsByOrder == [o \in Orders |-> o]

\* u1, whose orders they are, asks for a point, and u2 for the sum of 0.
TwoUsersInit ==
    /\ Init
    /\ ask[r1].user = u1 /\ ask[r1].amount = 1
    /\ ask[r2].user = u2 /\ ask[r2].amount = 0

TwoUsersAsk == TwoUsersInit /\ [][Next]_vars /\ Fairness
==============================================================================
