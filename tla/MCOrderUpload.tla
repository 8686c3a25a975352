---------------------------- MODULE MCOrderUpload ----------------------------
(* Instances of OrderUpload for TLC.                                        *)
EXTENDS OrderUpload, TLC

Symmetry == Permutations(Users) \cup Permutations(Requests) \cup Permutations(Valid)
==============================================================================
