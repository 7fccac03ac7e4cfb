---------------------------- MODULE ClusterHealth ----------------------------
(***************************************************************************)
(* Failure detection in the driver: the per-node heartbeat FSM             *)
(* (mesh/health/heartbeat.py), the membership tables of DriverCluster      *)
(* (mesh/driver/cluster.py) and the part of JobManager.handle_node_death   *)
(* that writes them.  Three kinds of threads touch the same dictionaries   *)
(* without a lock: gRPC threads (registration, heartbeats, preemption      *)
(* warnings), the health loop (evaluate_all, once a second) and every      *)
(* caller of live_nodes / get_state (the REST API, the websockets, submit).*)
(*                                                                         *)
(* Time.  One tick is the period of the health loop.  Only the age of the  *)
(* last heartbeat matters, and only up to the DEAD threshold, so `elapsed` *)
(* saturates at Horizon: the clock itself is unbounded.                    *)
(***************************************************************************)
EXTENDS Integers

CONSTANTS
    Node,             \* node ids
    HealthLoop,       \* the thread of DriverServer._health_loop
    Poller,           \* threads that call live_nodes / get_state
    None,             \* the target of a thread that evaluates nothing
    Interval,         \* ticks per heartbeat interval
    SuspectedMisses,  \* suspected_threshold
    DeadMisses        \* dead_threshold

ASSUME IntervalAssumption == Interval \in Nat \ {0}
ASSUME ThresholdAssumption ==
    /\ SuspectedMisses \in Nat \ {0}
    /\ DeadMisses \in Nat \ {0}
    /\ SuspectedMisses =< DeadMisses
ASSUME ThreadAssumption == HealthLoop \notin Poller
ASSUME NoneAssumption == None \notin Node

NodeState == {"HEALTHY", "SUSPECTED", "DEAD", "PREEMPTED", "OFFLINE"}
Verdicts == {"HEALTHY", "SUSPECTED", "DEAD"}
Evaluator == Poller \cup {HealthLoop}
Horizon == DeadMisses * Interval

VARIABLES
    elapsed,       \* clock() - _last_heartbeat[n], saturated at Horizon
    state,         \* HeartbeatTracker._states ("OFFLINE" when absent)
    explicitDead,  \* HeartbeatTracker._explicit_dead
    registered,    \* keys of DriverCluster._nodes
    nodeState,     \* Node.state of the entry in _nodes
    remote,        \* keys of DriverCluster._remote_agents
    todo,          \* nodes evaluate_all has still to visit in this pass
    swept,         \* the pass of this tick has been made
    pc,            \* where each evaluating thread is
    target,        \* the node it works on
    wasDead,       \* evaluate_all's `old` was DEAD already
    verdict,       \* evaluate's `state`, before it is written
    up,            \* agents that are running and reach the driver
    checked,       \* history: nodes whose verdict was written in this tick
    lapsed,        \* history: nodes that were once silent up to the threshold
    recovered      \* history: handle_node_death ran since the last sign of life

tables == <<registered, nodeState, remote>>
tracker == <<elapsed, state, explicitDead>>
threads == <<pc, target, wasDead, verdict>>
loop == <<todo, swept>>
history == <<checked, lapsed, recovered>>
vars == <<elapsed, state, explicitDead, registered, nodeState, remote, todo,
          swept, pc, target, wasDead, verdict, up, checked, lapsed, recovered>>

(* Keys of _last_heartbeat: record_heartbeat adds a node that never registered. *)
Tracked == {n \in Node : state[n] # "OFFLINE"}

(* HeartbeatTracker.missed_count rounds down; rounding up counts a heartbeat
   as missed before it is due. *)
MissedRoundedUp(n) == (elapsed[n] + Interval - 1) \div Interval
Missed(n) == elapsed[n] \div Interval

(* HeartbeatTracker.evaluate, without the assignment; the tests of the two
   thresholds are in this order, and a version that swaps them. *)
VerdictSuspectedFirst(n) ==
    IF n \in explicitDead THEN "DEAD"
    ELSE IF Missed(n) >= SuspectedMisses THEN "SUSPECTED"
    ELSE IF Missed(n) >= DeadMisses THEN "DEAD" ELSE "HEALTHY"
Verdict(n) ==
    IF n \in explicitDead \/ Missed(n) >= DeadMisses THEN "DEAD"
    ELSE IF Missed(n) >= SuspectedMisses THEN "SUSPECTED" ELSE "HEALTHY"

Init ==
    /\ elapsed = [n \in Node |-> 0]
    /\ state = [n \in Node |-> "OFFLINE"]
    /\ explicitDead = {}
    /\ registered = {} /\ remote = {}
    /\ nodeState = [n \in Node |-> "HEALTHY"]
    /\ todo = {} /\ swept = FALSE
    /\ pc = [e \in Evaluator |-> "idle"]
    /\ target = [e \in Evaluator |-> None]
    /\ wasDead = FALSE
    /\ verdict = [e \in Evaluator |-> "HEALTHY"]
    /\ up = {} /\ checked = {} /\ lapsed = {} /\ recovered = {}
-----------------------------------------------------------------------------
(* gRPC threads *)

SignOfLife(n) ==
    /\ elapsed' = [elapsed EXCEPT ![n] = 0]
    /\ state' = [state EXCEPT ![n] = "HEALTHY"]
    /\ explicitDead' = explicitDead \ {n}
    /\ recovered' = recovered \ {n}
    /\ UNCHANGED <<checked, lapsed>>

(* AgentDaemon.start registers once; DriverServicer.RegisterNode enters the
   node in all three tables. *)
RegisterNode(n) ==
    /\ n \notin up
    /\ up' = up \cup {n}
    /\ SignOfLife(n)
    /\ registered' = registered \cup {n}
    /\ nodeState' = [nodeState EXCEPT ![n] = "HEALTHY"]
    /\ remote' = remote \cup {n}
    /\ UNCHANGED <<threads, loop>>

(* DriverServicer.Heartbeat: the remote handle is not restored. *)
Heartbeat(n) ==
    /\ n \in up
    /\ SignOfLife(n)
    /\ UNCHANGED <<tables, threads, loop, up>>

(* DriverServicer.PreemptionWarning: only the Node entry is marked. *)
PreemptionWarning(n) ==
    /\ n \in up
    /\ nodeState' = IF n \in registered
                    THEN [nodeState EXCEPT ![n] = "PREEMPTED"] ELSE nodeState
    /\ UNCHANGED <<tracker, registered, remote, threads, loop, up, history>>

(* The agent process ends, or its loop breaks on the first failed call. *)
AgentStops(n) ==
    /\ up' = up \ {n}
    /\ n \in up
    /\ UNCHANGED <<tracker, tables, threads, loop, history>>
-----------------------------------------------------------------------------
(* Evaluation: read, then write.  Nothing separates two threads in between. *)

(* A thread returns; a version that forgets where it was. *)
ReturnHalfway(e) == UNCHANGED pc /\ target' = [target EXCEPT ![e] = None]
Return(e) ==
    /\ pc' = [pc EXCEPT ![e] = "idle"]
    /\ target' = [target EXCEPT ![e] = None]

(* evaluate_all takes a snapshot of the keys of _last_heartbeat; a version
   that goes through the registered nodes forgets the others. *)
StartPassRegistered ==
    /\ pc[HealthLoop] = "idle" /\ todo = {} /\ ~swept
    /\ todo' = registered
    /\ swept' = (registered = {})
    /\ UNCHANGED <<tracker, tables, threads, up, history>>
StartPass ==
    /\ pc[HealthLoop] = "idle" /\ todo = {} /\ ~swept
    /\ todo' = Tracked
    /\ swept' = (Tracked = {})
    /\ UNCHANGED <<tracker, tables, threads, up, history>>

Decide(e, n) ==
    /\ pc[e] = "idle"
    /\ IF e = HealthLoop THEN n \in todo ELSE n \in registered
    /\ pc' = [pc EXCEPT ![e] = "decided"]
    /\ target' = [target EXCEPT ![e] = n]
    /\ wasDead' = IF e = HealthLoop THEN state[n] = "DEAD" ELSE wasDead
    /\ verdict' = [verdict EXCEPT ![e] = Verdict(n)]
    /\ UNCHANGED <<tracker, tables, loop, up, history>>

(* evaluate writes the verdict; only evaluate_all compares it with `old` and
   notifies, and only DEAD makes DriverCluster._on_state_change act. *)
Write(e) ==
    LET n == target[e] IN
    /\ pc[e] = "decided"
    /\ state' = [state EXCEPT ![n] = verdict[e]]
    /\ checked' = checked \cup {n}
    /\ IF e = HealthLoop
       THEN /\ todo' = todo \ {n}
            /\ swept' = (todo' = {})
            /\ IF verdict[e] = "DEAD" /\ ~wasDead
               THEN /\ pc' = [pc EXCEPT ![e] = "notified"]
                    /\ UNCHANGED target
               ELSE Return(e)
       ELSE Return(e) /\ UNCHANGED loop
    /\ verdict' = [verdict EXCEPT ![e] = "HEALTHY"]
    /\ wasDead' = (wasDead /\ e # HealthLoop)
    /\ UNCHANGED <<elapsed, explicitDead, tables, up, lapsed, recovered>>

(* handle_node_death, first half: update_node_state and the remote handle. *)
ForgetAgent ==
    LET n == target[HealthLoop] IN
    /\ pc[HealthLoop] = "notified"
    /\ nodeState' = IF n \in registered
                    THEN [nodeState EXCEPT ![n] = "DEAD"] ELSE nodeState
    /\ remote' = remote \ {n}
    /\ recovered' = recovered \cup {n}
    /\ pc' = [pc EXCEPT ![HealthLoop] = "forgot"]
    /\ UNCHANGED <<tracker, registered, target, wasDead, verdict, loop, up,
                   checked, lapsed>>

(* handle_node_death, second half: force_state(DEAD), which notifies again,
   and so enters the handler again, when a heartbeat came in between. *)
ForceDead ==
    LET n == target[HealthLoop] IN
    /\ pc[HealthLoop] = "forgot"
    /\ state' = [state EXCEPT ![n] = "DEAD"]
    /\ explicitDead' = explicitDead \cup {n}
    /\ pc' = [pc EXCEPT ![HealthLoop] =
                IF state[n] # "DEAD" THEN "notified" ELSE "recovering"]
    /\ UNCHANGED <<elapsed, tables, target, wasDead, verdict, loop, up, history>>

(* The rest of handle_node_death (waiting, stealing, assignment RPCs) runs in
   the health loop's thread for as long as it takes; see JobManager. *)
RecoveryEnds ==
    /\ pc[HealthLoop] = "recovering"
    /\ Return(HealthLoop)
    /\ UNCHANGED <<tracker, tables, wasDead, verdict, loop, up, history>>

(* Time passes once the loop has made its pass, or while it is held up by a
   recovery; a read-write pair of dictionary accesses takes less than a tick. *)
Tick ==
    /\ \A e \in Evaluator : pc[e] \in {"idle", "recovering"}
    /\ swept \/ pc[HealthLoop] = "recovering"
    /\ elapsed' = [n \in Node |->
                     IF n \in Tracked /\ elapsed[n] < Horizon
                     THEN elapsed[n] + 1 ELSE elapsed[n]]
    /\ lapsed' = lapsed \cup {n \in Node : elapsed'[n] = Horizon}
    /\ checked' = {}
    /\ swept' = FALSE
    /\ UNCHANGED <<state, explicitDead, tables, threads, todo, up, recovered>>

(* Nothing of this is stored: a driver that restarts knows no node, while the
   agents go on sending heartbeats to it. *)
DriverRestart ==
    /\ elapsed' = [n \in Node |-> 0]
    /\ state' = [n \in Node |-> "OFFLINE"]
    /\ explicitDead' = {} /\ registered' = {} /\ remote' = {}
    /\ nodeState' = [n \in Node |-> "HEALTHY"]
    /\ todo' = {} /\ swept' = FALSE
    /\ pc' = [e \in Evaluator |-> "idle"]
    /\ target' = [e \in Evaluator |-> None]
    /\ wasDead' = FALSE
    /\ verdict' = [e \in Evaluator |-> "HEALTHY"]
    /\ checked' = {} /\ lapsed' = {} /\ recovered' = {}
    /\ UNCHANGED up
-----------------------------------------------------------------------------
Evaluate(e) == (\E n \in Node : Decide(e, n)) \/ Write(e)

Next ==
    \/ \E n \in Node : \/ RegisterNode(n) \/ Heartbeat(n)
                       \/ PreemptionWarning(n) \/ AgentStops(n)
    \/ StartPass
    \/ \E e \in Evaluator : Evaluate(e)
    \/ ForgetAgent \/ ForceDead \/ RecoveryEnds
    \/ Tick
    \/ DriverRestart

(* The health loop's thread runs, every thread finishes what it began, and
   time passes whatever else happens: callers that evaluate again and again do
   not stop the clock (SF).  Agents, API calls and restarts owe nothing. *)
Fairness ==
    /\ WF_vars(StartPass) /\ WF_vars(Evaluate(HealthLoop))
    /\ WF_vars(ForgetAgent) /\ WF_vars(ForceDead) /\ WF_vars(RecoveryEnds)
    /\ SF_vars(Tick)
    /\ \A e \in Poller : WF_vars(Write(e))

Spec == Init /\ [][Next]_vars
FairSpec == Spec /\ Fairness
-----------------------------------------------------------------------------
(* Every variable stays in its type. *)
TypeOK ==
    /\ elapsed \in [Node -> 0..Horizon]
    /\ state \in [Node -> NodeState]
    /\ explicitDead \subseteq Node /\ registered \subseteq Node
    /\ nodeState \in [Node -> NodeState]
    /\ remote \subseteq Node /\ todo \subseteq Node
    /\ swept \in BOOLEAN
    /\ pc \in [Evaluator ->
                 {"idle", "decided", "notified", "forgot", "recovering"}]
    /\ target \in [Evaluator -> Node \cup {None}]
    /\ \A e \in Evaluator : pc[e] # "idle" => target[e] \in Node
    /\ wasDead \in BOOLEAN
    /\ verdict \in [Evaluator -> Verdicts]
    /\ up \subseteq Node /\ checked \subseteq Node
    /\ lapsed \subseteq Node /\ recovered \subseteq Node

(* Whatever threads wrote to the table in this tick, and in whatever order, a
   node visited in this tick is DEAD once it has been silent for DeadMisses
   intervals, and not HEALTHY once silent for SuspectedMisses of them: the
   detection times the heartbeat FSM promises. *)
CurrentVerdict ==
    \A n \in checked :
        /\ elapsed[n] >= Horizon => state[n] = "DEAD"
        /\ elapsed[n] >= SuspectedMisses * Interval => state[n] # "HEALTHY"

(* A node whose heartbeats always came in time is never called dead by
   anything: not in the tracker, not in the node table, no recovery of its
   tasks starts and the driver keeps the handle it sends tasks through. *)
PunctualNodeKept ==
    \A n \in Node \ lapsed :
        /\ state[n] # "DEAD" /\ nodeState[n] # "DEAD"
        /\ n \notin explicitDead /\ n \notin recovered
        /\ n \in registered => n \in remote

(* A node that stops for good ends up DEAD (or unknown to a restarted driver)
   and stays so: stale verdicts of concurrent evaluations die out. *)
SilentNodeDies ==
    \A n \in Node :
        <>[](n \notin up) => <>[](state[n] \in {"DEAD", "OFFLINE"})

(* A node that stops for good and is known to be DEAD has had its tasks
   recovered: handle_node_death ran since its last heartbeat. *)
DeathIsHandled ==
    \A n \in Node :
        <>[](n \notin up) => <>[](state[n] = "DEAD" => n \in recovered)
=============================================================================
