--------------------------- MODULE MCClusterHealth ---------------------------
(* Model-checking instance of ClusterHealth. *)
EXTENDS ClusterHealth, TLC

CONSTANTS n1, n2, api, health

NodeSymmetry == Permutations({n1, n2})
=============================================================================
