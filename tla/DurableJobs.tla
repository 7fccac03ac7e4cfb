------------------------------ MODULE DurableJobs ------------------------------
(***************************************************************************)
(* What the durable state of ClusterMesh promises about a job, whoever      *)
(* leads: the stored outcome is one that really happened, and the store     *)
(* forgets an outcome only for a job that a failover has loaded.            *)
(***************************************************************************)
CONSTANTS Job

Cause == {"returned", "raised", "cancelled"}
Final == {"COMPLETED", "FAILED", "CANCELLED"}
CauseOf == [s \in Final |-> CASE s = "COMPLETED" -> "returned"
                              [] s = "FAILED"    -> "raised"
                              [] s = "CANCELLED" -> "cancelled"]

VARIABLES
    stored,     \* the state in a job's row, "none" before there is one
    facts,      \* what has happened to the executions of a job
    resumed     \* jobs that a new leader has loaded

vars == <<stored, facts, resumed>>

Init ==
    /\ stored = [j \in Job |-> "none"]
    /\ facts = [j \in Job |-> {}]
    /\ resumed = {}

(* An execution ends, or a client gives the job up. *)
Happens(j, c) ==
    /\ facts' = [facts EXCEPT ![j] = @ \cup {c}]
    /\ UNCHANGED <<stored, resumed>>

(* A row says that the job is under way. *)
StoreOpen(j) ==
    /\ stored[j] \in Final => j \in resumed
    /\ \E s \in {"PENDING", "RUNNING"} : stored' = [stored EXCEPT ![j] = s]
    /\ UNCHANGED <<facts, resumed>>

(* A row tells an outcome, in place of another one if there are two. *)
StoreFinal(j, s) ==
    /\ CauseOf[s] \in facts[j]
    /\ stored' = [stored EXCEPT ![j] = s]
    /\ UNCHANGED <<facts, resumed>>

Resume ==
    /\ resumed' = resumed \cup {j \in Job : stored[j] # "none"}
    /\ UNCHANGED <<stored, facts>>

Next ==
    \/ \E j \in Job, c \in Cause : Happens(j, c)
    \/ \E j \in Job : StoreOpen(j)
    \/ \E j \in Job, s \in Final : StoreFinal(j, s)
    \/ Resume

Spec == Init /\ [][Next]_vars
=============================================================================
