--------------------------- MODULE MCLeaderElection ---------------------------
(* Model-checking instances of LeaderElection. *)
EXTENDS LeaderElection, TLC

CONSTANTS d1, d2, d3

DriverSymmetry == Permutations(Driver)
=============================================================================
