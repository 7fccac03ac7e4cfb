------------------------------- MODULE SimCluster -------------------------------
(***************************************************************************)
(* The simulated cluster (mesh/sim/cluster.py) that the chaos scripts         *)
(* (mesh/sim/chaos.py) and the soak test (mesh/sim/soak.py) drive, without a   *)
(* job manager.  One thread runs it tick by tick: first the events that are   *)
(* due, then heartbeats, verdicts and progress.  Living agents heartbeat in    *)
(* every tick and killed ones are marked dead, so that a node is HEALTHY       *)
(* exactly while it is alive.  A partition only sets an attribute that nobody  *)
(* reads.                                                                     *)
(***************************************************************************)
EXTENDS Naturals, FiniteSets

CONSTANTS
    SimNode,        \* simulated agents
    SimTasks,       \* bound: tasks, named in the order of their submission
    SimWork         \* total_work of a task, in ticks

ASSUME SimAssumption ==
    /\ SimTasks \in Nat /\ SimWork \in Nat \ {0}
    /\ IsFiniteSet(SimNode) /\ "none" \notin SimNode

VARIABLES
    alive,      \* agents that were not killed
    spiked,     \* agents preempted once: their CPU stays at 95 % for ever
    simTask     \* submitted tasks: state, node, progress

simVars == <<alive, spiked, simTask>>

Nowhere == "none"
SimTask == DOMAIN simTask
SimInit == alive = SimNode /\ spiked = {} /\ simTask = <<>>

(* to_node and placement: the task needs one core.  Placing a task reduces no
   capacity. *)
Idle(nodes) == nodes \ spiked
-----------------------------------------------------------------------------
(* SimCluster.submit: the node with the best score, any that has a core free;
   a task without a node stays PENDING, nobody looks at it again. *)
SimSubmit ==
    /\ Cardinality(SimTask) < SimTasks
    /\ \E n \in IF Idle(alive) = {} THEN {Nowhere} ELSE Idle(alive) :
         simTask' = [t \in 1..(Cardinality(SimTask) + 1) |->
            IF t \in SimTask THEN simTask[t]
            ELSE [state |-> IF n = Nowhere THEN "PENDING" ELSE "RUNNING",
                  node |-> n, progress |-> 0]]
    /\ UNCHANGED <<alive, spiked>>

(* ChaosController.preempt. *)
Spike(n) == spiked' = spiked \cup {n} /\ UNCHANGED <<alive, simTask>>

(* WorkStealer.steal for the orphans of one node, in order: each takes another
   node, unless only one is healthy; it restores no progress, its checkpoints
   not being those the cluster saves, and loses none. *)
OneEach(healthy) == TRUE
Apart(healthy) == Cardinality(healthy) # 1
Stolen(orphans, healthy, target) ==
    \A t \in orphans :
        LET used == {target[o] : o \in {o \in orphans : o < t}}
            free == Idle(healthy) \ (IF Apart(healthy) THEN used ELSE {})
        IN  target[t] \in IF free = {} THEN {Nowhere} ELSE free

(* ChaosController.kill_node: the agent is killed and the node forced DEAD, and
   that change of its state starts the stealing. *)
Kill(n) ==
    LET orphans == {t \in SimTask : simTask[t].node = n /\ simTask[t].state = "RUNNING"}
    IN  /\ n \in alive
        /\ alive' = alive \ {n}
        /\ \E target \in [orphans -> alive' \cup {Nowhere}] :
             /\ Stolen(orphans, alive', target)
             /\ simTask' = [t \in SimTask |->
                  IF t \notin orphans THEN simTask[t]
                  ELSE [simTask[t] EXCEPT !.node = target[t],
                          !.state = IF target[t] = Nowhere THEN "PENDING" ELSE "RUNNING"]]
        /\ UNCHANGED spiked

(* The rest of a tick: every RUNNING task advances by the length of it. *)
SimTick ==
    /\ simTask' = [t \in SimTask |->
         IF simTask[t].state # "RUNNING" THEN simTask[t]
         ELSE [simTask[t] EXCEPT !.progress = @ + 1,
                 !.state = IF simTask[t].progress + 1 >= SimWork THEN "COMPLETED" ELSE @]]
    /\ UNCHANGED <<alive, spiked>>

SimNext == SimSubmit \/ SimTick \/ \E n \in SimNode : Kill(n) \/ Spike(n)

SimSpec == SimInit /\ [][SimNext]_simVars
-----------------------------------------------------------------------------
(* Every variable stays in its type. *)
SimTypeOK ==
    /\ alive \subseteq SimNode /\ spiked \subseteq SimNode
    /\ SimTask = 1..Cardinality(SimTask)
    /\ \A t \in SimTask : simTask[t] \in [state : {"PENDING", "RUNNING", "COMPLETED"},
                             node : SimNode \cup {Nowhere}, progress : 0..SimWork]

(* Whatever is killed and preempted, a task that runs is on a living node, and
   losing a node strands a task only when no idle node is left, or when more
   tasks than idle nodes lose it together and several nodes are healthy: one
   healthy node takes them all. *)
StrandedInCrowd ==
    [][LET strands == {t \in SimTask : /\ simTask[t].state = "RUNNING"
                                       /\ simTask'[t].state = "PENDING"}
           lost == {t \in SimTask : simTask[t].state = "RUNNING" /\ simTask[t].node \notin alive'}
       IN  /\ \A t \in SimTask' : simTask'[t].state = "RUNNING" => simTask'[t].node \in alive'
           /\ strands # {} => \/ Idle(alive') = {}
                              \/ /\ Cardinality(alive') > 1
                                 /\ Cardinality(Idle(alive')) < Cardinality(lost)]_simVars
=============================================================================
