------------------------------ MODULE MCFailover ------------------------------
(* Model-checking instance of Failover. *)
EXTENDS Failover, TLC

CONSTANTS d1, d2, a1, c1, c2, j1, j2, t1, t2

AnyFault == {"crash", "lead", "call", "raise", "cancel"}
Submission(k, withKey, n) == [kind |-> k, keyed |-> withKey, size |-> n]
Load(cs, e, f, ks, ns) ==
    [calls |-> cs, elections |-> e, faults |-> f, kinds |-> ks, nodes |-> ns]

(* One key submitted twice; a replicated job and a job of one task, with a
   takeover or two and any fault, or two crashes; a job by name, which nothing
   persists when it is submitted. *)
MCWorkload ==
    LET twice == [c \in {c1, c2} |-> Submission("task", TRUE, 1)]
        once(k, n) == [c \in {c1} |-> Submission(k, FALSE, n)]
        both == {a1, Here}
    IN  {Load(twice, 2, 1, {"crash"}, {}),
         Load(once("task", 2), 1, 1, AnyFault, both),
         Load(once("task", 1), 2, 1, AnyFault, both),
         Load(once("task", 1), 2, 2, {"crash"}, both),
         Load(once("byName", 1), 2, 1, AnyFault, {a1})}

Identities == Permutations(Driver) \cup Permutations(Caller) \cup Permutations(Job)
              \cup Permutations(Task)
=============================================================================
