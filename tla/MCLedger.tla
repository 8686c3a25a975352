------------------------------- MODULE MCLedger -------------------------------
(* Instances of Ledger for TLC.                                             *)
EXTENDS Ledger

\* A sum a client may ask for: the handler checks no sign.
Sums == {-1, 0, 1}
==============================================================================
