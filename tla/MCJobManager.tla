---------------------------- MODULE MCJobManager ----------------------------
(* Model-checking instances of JobManager: one job of one task, or of two
   replicas and a spare task for a speculative duplicate. *)
EXTENDS JobManager, TLC

CONSTANTS n1, n2, j1, t1, t2, d1, c1, c2, c3

OneJob == [t \in Task |-> j1]
CopySymmetry == Permutations(Copy)
AgentSymmetry == CopySymmetry \cup Permutations(Node)
=============================================================================
