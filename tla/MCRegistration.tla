---------------------------- MODULE MCRegistration ----------------------------
(* Instances of Registration for TLC; symmetry is not used with liveness.    *)
EXTENDS Registration
==============================================================================
