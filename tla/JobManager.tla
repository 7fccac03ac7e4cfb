------------------------------ MODULE JobManager ------------------------------
(***************************************************************************)
(* The driver's JobManager (mesh/driver/job_manager.py) on a DriverCluster *)
(* of real agents: submission, dispatch, completion, failure, cancellation *)
(* and the recovery of tasks when a node dies or is preempted, with the    *)
(* helpers in mesh/recovery and the gRPC handlers of mesh/driver/server.py *)
(* that call it.                                                           *)
(*                                                                         *)
(* Driver threads (submitters, the health loop, gRPC handlers, the         *)
(* platform loop) and executions of tasks (`copy`: a thread of the driver  *)
(* or of an agent) interleave at every point where the code releases the   *)
(* lock, makes a call or writes a field another thread reads.              *)
(***************************************************************************)
EXTENDS Integers, FiniteSets

CONSTANTS
    Node,          \* machines registered with the driver
    Simulated,     \* nodes without an agent: their tasks run in the driver
    Job, Task,
    JobOf,         \* the job of a task: several tasks are replicas
    Spare,         \* tasks kept for speculative duplicates
    Copy,          \* executions of tasks; bounds those alive at a time
    Health,        \* the health loop's thread
    Preemptor,     \* gRPC threads that handle preemption warnings
    Platform,      \* the thread of MeshPlatform.run_forever
    None,
    Cancellable,   \* jobs a client may cancel, once: a bound
    MaxFaults,     \* bound on crashes, deaths, rejoins and preemptions
    MaxMoves       \* bound on rebalancing actions

ASSUME JobOfAssumption == JobOf \in [Task -> Job] /\ Spare \subseteq Task
ASSUME CancellableAssumption == Cancellable \subseteq Job
ASSUME NodeAssumption ==
    /\ Simulated \subseteq Node /\ None \notin Node
    /\ "driver" \notin Node /\ "gone" \notin Node   \* the places below are no nodes
ASSUME NoneAssumption == None \notin Task /\ None \notin Copy
ASSUME BoundAssumption == MaxFaults \in Nat /\ MaxMoves \in Nat
ASSUME ThreadAssumption ==
    /\ Health \notin Job \cup Preemptor \cup {Platform}
    /\ Platform \notin Job \cup Preemptor
    /\ Job \cap Preemptor = {}

Thread == Job \cup Preemptor \cup {Health, Platform}   \* a job's submitter has its name
Driver == "driver"                  \* the place of local executions
Gone == "gone"                      \* the place of a report whose agent crashed
Terminal == {"COMPLETED", "FAILED", "CANCELLED"}
JobState == Terminal \cup {"NONE", "PENDING", "RUNNING"}
TaskState == {"PENDING", "RUNNING", "MIGRATING", "COMPLETED", "FAILED"}
Active == {"RUNNING", "PENDING", "MIGRATING"}

VARIABLES
    jobState,      \* Job.state; "NONE" before the job exists
    winner,        \* Job.completed_task_id
    result,        \* Job.result: the task it came from
    known,         \* keys of DriverCluster._tasks
    taskState,     \* TaskSpec.state
    assigned,      \* TaskSpec.assigned_node
    running,       \* JobManager._running: "no", or a local or remote entry
    speculative,   \* SpeculativeExecutor._speculative
    started,       \* keys of SpeculativeExecutor._start_times
    dead,          \* nodes the heartbeat tracker calls DEAD
    remote,        \* keys of DriverCluster._remote_agents
    up,            \* agents whose process runs
    agentRunning,  \* AgentTaskRunner._running of every agent: <<node, task>>
    thread,        \* driver threads: program counter and locals
    copy,          \* executions: program counter and locals
    interruptOf,   \* TaskExecutor._interrupts: whose event is registered
    interrupted,   \* executions whose event is set
    cancelling,    \* jobs whose cancel_job is under way
    cancelled,     \* history, bound: jobs cancel_job was called for
    finished,      \* history: tasks whose function has returned
    decided,       \* history: tasks that ended once, or were not accepted
    faults, moves  \* bounds

jobs == <<jobState, winner, result>>
tasks == <<known, taskState, assigned>>
spec == <<speculative, started>>
cluster == <<dead, remote, up>>
events == <<interruptOf, interrupted>>
cancels == <<cancelling, cancelled>>
bounds == <<faults, moves>>
history == <<finished, decided>>
vars == <<jobState, winner, result, known, taskState, assigned, running,
          speculative, started, dead, remote, up, agentRunning, thread, copy,
          interruptOf, interrupted, cancelling, cancelled, finished, decided,
          faults, moves>>

Agent == Node \ Simulated
TasksOf(j) == {t \in Task \ Spare : JobOf[t] = j}   \* _job_tasks[j]
Live == Node \ dead                                   \* live_nodes()
OtherActive(t) == {u \in TasksOf(JobOf[t]) \ {t} : taskState[u] \in Active}
IdleThread == [pc |-> "idle", node |-> None, todo |-> {}, task |-> None]
IdleCopy == [pc |-> "idle", task |-> None, place |-> None,
             outcome |-> "none", losers |-> {}]

(* The events executor.interrupt finds for these tasks, and a version that
   does not check for one. *)
EventsUnchecked(ts) == {interruptOf[t] : t \in ts}
Events(ts) == {interruptOf[t] : t \in ts} \ {None}

Init ==
    /\ jobState = [j \in Job |-> "NONE"]
    /\ winner = [j \in Job |-> None] /\ result = [j \in Job |-> None]
    /\ known = {}
    /\ taskState = [t \in Task |-> "PENDING"]
    /\ assigned = [t \in Task |-> None]
    /\ running = [t \in Task |-> "no"]
    /\ speculative = [t \in Task |-> None] /\ started = {}
    /\ dead = {} /\ remote = Agent /\ up = Agent /\ agentRunning = {}
    /\ thread = [a \in Thread |-> IdleThread]
    /\ copy = [c \in Copy |-> IdleCopy]
    /\ interruptOf = [t \in Task |-> None] /\ interrupted = {}
    /\ cancelling = {} /\ cancelled = {} /\ finished = {} /\ decided = {}
    /\ faults = 0 /\ moves = 0
-----------------------------------------------------------------------------
(* Nodes come and go.  Every one of these counts against MaxFaults. *)

Fault == faults < MaxFaults /\ faults' = faults + 1 /\ UNCHANGED moves

(* An agent process dies with what it executes; a report the driver already
   handles is handled to its end. *)
AgentCrash(n) ==
    /\ Fault
    /\ n \in up /\ up' = up \ {n}
    /\ agentRunning' = {r \in agentRunning : r[1] # n}
    /\ copy' = [c \in Copy |->
                  IF copy[c].place # n THEN copy[c]
                  ELSE IF copy[c].pc \in {"run", "report", "finally"}
                       THEN IdleCopy ELSE [copy[c] EXCEPT !.place = Gone]]
    /\ UNCHANGED <<jobs, tasks, running, spec, dead, remote, thread, events,
                   cancels, history>>

(* AgentDaemon.start and DriverServicer.RegisterNode. *)
AgentRegisters(n) ==
    /\ Fault
    /\ n \in Agent \ up
    /\ up' = up \cup {n} /\ remote' = remote \cup {n} /\ dead' = dead \ {n}
    /\ UNCHANGED <<jobs, tasks, running, spec, agentRunning, thread, copy,
                   events, cancels, history>>

(* A heartbeat of a node that was called dead by mistake: the tracker calls
   it HEALTHY again, the handle to its agent is gone. *)
LateHeartbeat(n) ==
    /\ Fault
    /\ n \in dead \cap (up \cup Simulated) /\ dead' = dead \ {n}
    /\ UNCHANGED <<jobs, tasks, running, spec, remote, up, agentRunning,
                   thread, copy, events, cancels, history>>

(* live_nodes, get_state and get_dead_nodes evaluate and write DEAD; nobody
   is notified. *)
PolledDead(n) ==
    /\ Fault
    /\ n \in Live /\ dead' = dead \cup {n}
    /\ UNCHANGED <<jobs, tasks, running, spec, remote, up, agentRunning,
                   thread, copy, events, cancels, history>>

(* The health loop finds n silent (crashed or cut off) and calls
   handle_node_death, which drops the handle to the agent first. *)
DeclareDead(n) ==
    /\ Fault
    /\ n \in Live /\ thread[Health].pc = "idle"
    /\ dead' = dead \cup {n} /\ remote' = remote \ {n}
    /\ thread' = [thread EXCEPT ![Health].pc = "pausing", ![Health].node = n]
    /\ UNCHANGED <<jobs, tasks, running, spec, up, agentRunning, copy, events,
                   cancels, history>>

(* DriverServicer.PreemptionWarning calls handle_preemption. *)
PreemptionWarning(a, n) ==
    /\ Fault
    /\ a \in Preemptor /\ n \in up /\ thread[a].pc = "idle"
    /\ thread' = [thread EXCEPT ![a].pc = "pausing", ![a].node = n]
    /\ UNCHANGED <<jobs, tasks, running, spec, cluster, agentRunning, copy,
                   events, cancels, history>>
-----------------------------------------------------------------------------
(* handle_node_death and handle_preemption, from the locked section on *)

(* An exception ends a gRPC call; it ends the health and platform loops for
   good. *)
Raise(a) ==
    thread' = [thread EXCEPT ![a] =
                 [IdleThread EXCEPT !.pc =
                    IF a \in {Health, Platform} THEN "ended" ELSE "idle"]]

(* _pause_task for every running task of the node: an RPC that may raise and
   that the agent's runner ignores, or the event of a local execution. *)
PauseTasks(a) ==
    LET n == thread[a].node
        ts == {t \in Task : running[t] # "no" /\ assigned[t] = n}
    IN  /\ thread[a].pc = "pausing"
        /\ \/ /\ ts = {} \/ n \notin remote \/ n \in up
              /\ thread' = [thread EXCEPT ![a].pc = "waiting", ![a].todo = ts]
              /\ interrupted' = IF n \in remote THEN interrupted
                                ELSE interrupted \cup Events(ts)
           \/ /\ ts # {} /\ n \in remote
              /\ Raise(a)
              /\ UNCHANGED interrupted
        /\ UNCHANGED <<jobs, tasks, running, spec, cluster, agentRunning, copy,
                       interruptOf, cancels, history, bounds>>

(* WorkStealer.find_orphaned_tasks over a snapshot of the tasks *)
FindOrphans(a) ==
    LET orphans == {t \in known : assigned[t] = thread[a].node
                                  /\ taskState[t] = "RUNNING"}
    IN  /\ thread' = [thread EXCEPT ![a] =
                        IF orphans = {} THEN IdleThread
                        ELSE [@ EXCEPT !.pc = "stealing", !.todo = orphans]]
        /\ UNCHANGED <<jobs, tasks, running, spec, cluster, agentRunning, copy,
                       events, cancels, history, bounds>>

(* The wait ends when the interrupted tasks have left _running ... *)
AllPaused(a) ==
    /\ thread[a].pc = "waiting" /\ \A t \in thread[a].todo : running[t] = "no"
    /\ FindOrphans(a)

(* ... or when two seconds have passed; a wait without a deadline does not. *)
WaitForever(a) == a # a
PauseTimeout(a) ==
    /\ thread[a].pc = "waiting" /\ \E t \in thread[a].todo : running[t] # "no"
    /\ FindOrphans(a)

(* WorkStealer.steal: `fit` are the healthy nodes, and those with room among
   them decide which placements come out; a node is used twice only if it is
   the only healthy one. *)
Steal(a) ==
    LET ts == thread[a].todo
        nodes == IF a = Health THEN Live ELSE Live \ {thread[a].node}
    IN  /\ thread[a].pc = "stealing"
        /\ \E fit \in SUBSET nodes : \E place \in [ts -> fit \cup {None}] :
              /\ \A t, u \in ts : t # u /\ place[t] = place[u]
                                  => place[t] = None \/ Cardinality(fit) = 1
              /\ assigned' = [t \in Task |->
                                IF t \in ts THEN place[t] ELSE assigned[t]]
              /\ taskState' = [t \in Task |->
                                 IF t \notin ts THEN taskState[t]
                                 ELSE IF place[t] = None THEN "PENDING"
                                                         ELSE "RUNNING"]
              /\ thread' = [thread EXCEPT ![a] =
                              [@ EXCEPT !.pc = "dispatching", !.node = None,
                                        !.todo = {t \in ts : place[t] # None}]]
        /\ UNCHANGED <<jobs, known, running, spec, cluster, agentRunning, copy,
                       events, cancels, history, bounds>>
-----------------------------------------------------------------------------
(* _dispatch.  A thread holds the list of tasks it still has to dispatch. *)

(* The recovery handlers skip tasks of jobs that ended; a submitter does not
   look.  The list may be worked off in any order. *)
NextDispatch(a) ==
    /\ thread[a].pc = "dispatching"
    /\ \/ thread[a].todo = {} /\ thread' = [thread EXCEPT ![a] = IdleThread]
       \/ \E t \in thread[a].todo :
            IF a \notin Job /\ jobState[JobOf[t]] \in Terminal
            THEN thread' = [thread EXCEPT ![a].todo = @ \ {t}]
            ELSE thread' = [thread EXCEPT ![a].pc = "checked", ![a].task = t,
                                          ![a].todo = @ \ {t}]
    /\ UNCHANGED <<jobs, tasks, running, spec, cluster, agentRunning, copy,
                   events, cancels, history, bounds>>

Dispatched(a) ==
    thread' = [thread EXCEPT ![a].pc = "dispatching", ![a].node = None,
                             ![a].task = None]

StartCopy(t, place, pc) ==
    \E c \in Copy :
        /\ copy[c] = IdleCopy
        /\ copy' = [copy EXCEPT ![c] =
                      [pc |-> pc, task |-> t, place |-> place,
                       outcome |-> "none", losers |-> {}]]

(* `if spec.task_id in self._running`, and a check of local entries alone *)
EnteredLocally(t) == running[t] = "local"
Entered(t) == running[t] # "no"

(* _dispatch_remote up to the RPC: the entry in _running is the only thing
   that keeps a task from being sent twice. *)
EnterRemote(a) ==
    LET t == thread[a].task IN
    /\ thread[a].pc = "checked" /\ assigned[t] \in remote
    /\ started' = started \cup {t}
    /\ IF Entered(t)
       THEN Dispatched(a) /\ UNCHANGED running
       ELSE /\ running' = [running EXCEPT ![t] = "remote"]
            /\ thread' = [thread EXCEPT ![a].pc = "assigning",
                                        ![a].node = assigned[t]]
    /\ UNCHANGED <<jobs, tasks, speculative, cluster, agentRunning, copy,
                   events, cancels, history, bounds>>

(* _start_local_execution, for a task whose node has no agent handle *)
EnterLocal(a) ==
    LET t == thread[a].task IN
    /\ thread[a].pc = "checked" /\ assigned[t] \notin remote
    /\ started' = started \cup {t}
    /\ Dispatched(a)
    /\ IF Entered(t)
       THEN UNCHANGED <<running, copy>>
       ELSE /\ running' = [running EXCEPT ![t] = "local"]
            /\ StartCopy(t, Driver, "begin")
    /\ UNCHANGED <<jobs, tasks, speculative, cluster, agentRunning, events,
                   cancels, history, bounds>>

(* The AssignTask RPC: the agent takes the task unless it already runs it,
   and the answer may get lost; an exception or a refusal fails the task. *)
AssignRpc(a) ==
    LET t == thread[a].task
        n == thread[a].node
        accepts == n \in up /\ <<n, t>> \notin agentRunning
        fails == /\ thread' = [thread EXCEPT ![a].pc = "failing"]
                 /\ decided' = decided \cup {t}
    IN  /\ thread[a].pc = "assigning"
        /\ \/ /\ accepts
              /\ agentRunning' = agentRunning \cup {<<n, t>>}
              /\ StartCopy(t, n, "run")
              /\ \/ Dispatched(a) /\ UNCHANGED decided
                 \/ fails
           \/ fails /\ UNCHANGED <<agentRunning, copy>>
        /\ UNCHANGED <<jobs, tasks, running, spec, cluster, events, cancels,
                       finished, bounds>>

(* First step of _on_task_complete and _on_task_failed *)
PopEntry(t) ==
    /\ running' = [running EXCEPT ![t] = "no"]
    /\ started' = started \ {t}
    /\ speculative' = [speculative EXCEPT ![t] = None]

(* Every caller of _on_task_failed sets the state of the task first. *)
FailTask(t) ==
    /\ taskState' = [taskState EXCEPT ![t] = "FAILED"]
    /\ PopEntry(t)

(* The rest of _on_task_failed, with on_replica_failure *)
FailJobOf(t) ==
    LET j == JobOf[t] IN
    jobState' = IF Cardinality(TasksOf(j)) > 1 /\ OtherActive(t) # {}
                THEN jobState ELSE [jobState EXCEPT ![j] = "FAILED"]

AssignFailed(a) ==
    /\ thread[a].pc = "failing"
    /\ FailTask(thread[a].task)
    /\ thread' = [thread EXCEPT ![a].pc = "failed"]
    /\ UNCHANGED <<jobs, known, assigned, cluster, agentRunning, copy, events, cancels,
                   history, bounds>>

(* The entry is popped once more after _on_task_failed. *)
AssignFailedJob(a) ==
    /\ thread[a].pc = "failed"
    /\ FailJobOf(thread[a].task)
    /\ running' = [running EXCEPT ![thread[a].task] = "no"]
    /\ Dispatched(a)
    /\ UNCHANGED <<winner, result, tasks, spec, cluster, agentRunning, copy,
                   events, cancels, history, bounds>>
-----------------------------------------------------------------------------
(* submit: one submission per job *)

(* The job and its tasks are entered and placed.  A single task goes wherever
   it fits; replicas use a node twice only when every live node has one. *)
Submit(j) ==
    LET ts == TasksOf(j) IN
    /\ jobState[j] = "NONE" /\ thread[j].pc = "idle"
    /\ jobState' = [jobState EXCEPT ![j] = "PENDING"]
    /\ known' = known \cup ts
    /\ \E place \in [ts -> Live \cup {None}] :
          /\ \A t, u \in ts :
                t # u /\ place[t] = place[u] /\ place[t] # None
                => Live \subseteq {place[v] : v \in ts}
          /\ assigned' = [t \in Task |->
                            IF t \in ts THEN place[t] ELSE assigned[t]]
          /\ taskState' = [t \in Task |->
                             IF t \in ts /\ place[t] # None THEN "RUNNING"
                                                            ELSE taskState[t]]
          /\ thread' = [thread EXCEPT ![j].pc = "placed",
                          ![j].todo = {t \in ts : place[t] # None}]
    /\ UNCHANGED <<winner, result, running, spec, cluster, agentRunning, copy,
                   events, cancels, history, bounds>>

SubmitRuns(j) ==
    /\ thread[j].pc = "placed"
    /\ jobState' = [jobState EXCEPT ![j] = "RUNNING"]
    /\ thread' = [thread EXCEPT ![j].pc = "dispatching"]
    /\ UNCHANGED <<winner, result, tasks, running, spec, cluster, agentRunning,
                   copy, events, cancels, history, bounds>>

(* _cancel_task for the tasks in ts, which fails at one of them when its RPC
   raises: the agent forgets the task, whose thread runs on; an execution in
   the driver has its event set. *)
CancelTasks(ts) ==
    /\ \A t \in ts : assigned[t] \in remote => assigned[t] \in up
    /\ agentRunning' = agentRunning \
                         {<<assigned[t], t>> : t \in {u \in ts : assigned[u] \in remote}}
    /\ interrupted' = interrupted \cup
                        Events({t \in ts : assigned[t] \notin remote})
    /\ taskState' = [t \in Task |-> IF t \in ts THEN "FAILED" ELSE taskState[t]]

CancelRaises(ts) == \E t \in ts : assigned[t] \in remote

(* cancel_job, the tasks first; a raising RPC leaves it half done. *)
CancelJob(j) ==
    /\ jobState[j] # "NONE" /\ j \in Cancellable \ cancelled
    /\ cancelled' = cancelled \cup {j}
    /\ \/ CancelTasks(TasksOf(j)) /\ cancelling' = cancelling \cup {j}
       \/ \E ts \in SUBSET TasksOf(j) :
             /\ CancelRaises(TasksOf(j) \ ts) /\ CancelTasks(ts)
             /\ UNCHANGED cancelling
    /\ UNCHANGED <<jobs, known, assigned, running, spec, cluster, thread, copy,
                   interruptOf, history, bounds>>

CancelJobEnds(j) ==
    /\ j \in cancelling /\ cancelling' = cancelling \ {j}
    /\ jobState' = [jobState EXCEPT ![j] = "CANCELLED"]
    /\ UNCHANGED <<winner, result, tasks, running, spec, cluster, agentRunning,
                   thread, copy, events, cancelled, history, bounds>>
-----------------------------------------------------------------------------
(* The platform loop: rebalancing and speculation, both without a look at the
   state of what they touch *)

(* run_rebalance for one action of Rebalancer.analyze, which picks any task
   of an overloaded node, whatever its state. *)
Rebalance(t, to) ==
    /\ moves < MaxMoves /\ moves' = moves + 1
    /\ thread[Platform].pc = "idle"
    /\ t \in known /\ assigned[t] \in Live \ {to} /\ to \in Live
    /\ \/ /\ assigned[t] \in remote => assigned[t] \in up
          /\ interrupted' = IF assigned[t] \in remote THEN interrupted
                            ELSE interrupted \cup Events({t})
          /\ assigned' = [assigned EXCEPT ![t] = to]
          /\ taskState' = [taskState EXCEPT ![t] = "MIGRATING"]
          /\ thread' = [thread EXCEPT ![Platform].pc = "checked",
                                      ![Platform].task = t]
       \/ /\ assigned[t] \in remote
          /\ Raise(Platform)
          /\ UNCHANGED <<interrupted, assigned, taskState>>
    /\ UNCHANGED <<jobs, known, running, spec, cluster, agentRunning, copy,
                   interruptOf, cancels, history, faults>>

(* check_speculation for one straggler: any started RUNNING task may be slow
   compared with another one.  A duplicate that is not placed stays PENDING. *)
Speculate(t, dup) ==
    /\ thread[Platform].pc = "idle"
    /\ t \in known \cap started /\ taskState[t] = "RUNNING"
    /\ speculative[t] = None
    /\ \E u \in known \ {t} : taskState[u] = "RUNNING"
    /\ jobState[JobOf[t]] \notin Terminal
    /\ dup \in Spare \ known /\ JobOf[dup] = JobOf[t]
    /\ known' = known \cup {dup}
    /\ \/ \E n \in Live :
            /\ assigned' = [assigned EXCEPT ![dup] = n]
            /\ taskState' = [taskState EXCEPT ![dup] = "RUNNING"]
            /\ speculative' = [speculative EXCEPT ![t] = dup]
            /\ thread' = [thread EXCEPT ![Platform].pc = "checked",
                                        ![Platform].task = dup]
       \/ UNCHANGED <<assigned, taskState, speculative, thread>>
    /\ UNCHANGED <<jobs, running, started, cluster, agentRunning, copy, events,
                   cancels, history, bounds>>
-----------------------------------------------------------------------------
(* Executions.  In the driver: the thread of _start_local_execution with
   TaskExecutor.execute; on a node: the thread of AgentTaskRunner.assign, whose
   report DriverServicer.TaskComplete handles. *)

Runs(c) == copy[c].pc = "run"

(* clear_interrupt, then execute registers an event of its own. *)
LocalBegins(c) ==
    LET t == copy[c].task IN
    /\ copy[c].pc = "begin"
    /\ copy' = [copy EXCEPT ![c].pc = "run"]
    /\ interruptOf' = [interruptOf EXCEPT ![t] = c]
    /\ interrupted' = interrupted \ {c, interruptOf[t]}
    /\ UNCHANGED <<jobs, tasks, running, spec, cluster, agentRunning, thread,
                   cancels, history, bounds>>

(* The `finally` clause of execute pops the event; setting it aside only is
   the version that does not. *)
KeepEvent(c, t) ==
    /\ interrupted' = interrupted \ {c}
    /\ UNCHANGED interruptOf
Deregister(c, t) ==
    /\ interruptOf' = [interruptOf EXCEPT ![t] = None]
    /\ interrupted' = interrupted \ {c}

(* The task's function returns, raises, or notices its event and is
   interrupted; execute takes the event back in every case. *)
LocalEnds(c) ==
    LET t == copy[c].task IN
    /\ Runs(c) /\ copy[c].place = Driver
    /\ \/ /\ copy' = [copy EXCEPT ![c].pc = "returned", ![c].outcome = "value"]
          /\ taskState' = [taskState EXCEPT ![t] = "COMPLETED"]
          /\ finished' = finished \cup {t}
          /\ decided' = decided \cup {t}
       \/ /\ copy' = [copy EXCEPT ![c].pc = "failing"]
          /\ decided' = decided \cup {t}
          /\ UNCHANGED <<taskState, finished>>
       \/ /\ c \in interrupted
          /\ copy' = [copy EXCEPT ![c].pc = "returned"]
          /\ UNCHANGED <<taskState, history>>
    /\ Deregister(c, t)
    /\ UNCHANGED <<jobs, known, assigned, running, spec, cluster, agentRunning,
                   thread, cancels, bounds>>

(* `if spec.state == TaskState.COMPLETED`, whoever set it: an interrupted
   execution neither completes nor fails its task, as it would without the
   test or with an `else`. *)
AlwaysComplete(t) == IF t \in Task THEN "completing" ELSE "finally"
CompleteOrFail(t) == IF taskState[t] = "COMPLETED" THEN "completing" ELSE "failing"
AfterReturn(t) == IF taskState[t] = "COMPLETED" THEN "completing" ELSE "finally"

LocalReturned(c) ==
    /\ copy[c].pc = "returned"
    /\ copy' = [copy EXCEPT ![c].pc = AfterReturn(copy[c].task)]
    /\ UNCHANGED <<jobs, tasks, running, spec, cluster, agentRunning, thread,
                   events, cancels, history, bounds>>

(* An agent's runner never registers an event: pause and cancel do not reach
   the function. *)
AgentEnds(c) ==
    /\ Runs(c) /\ copy[c].place \in Node
    /\ \/ /\ copy' = [copy EXCEPT ![c].pc = "report", ![c].outcome = "value"]
          /\ finished' = finished \cup {copy[c].task}
       \/ /\ copy' = [copy EXCEPT ![c].pc = "report", ![c].outcome = "error"]
          /\ UNCHANGED finished
    /\ decided' = decided \cup {copy[c].task}
    /\ UNCHANGED <<jobs, tasks, running, spec, cluster, agentRunning, thread,
                   events, cancels, bounds>>

(* DriverServicer.TaskComplete sets the state of the task, whichever node the
   report comes from; or the report is lost, which the agent swallows. *)
TaskComplete(c) ==
    LET t == copy[c].task
        ok == copy[c].outcome = "value"
    IN  /\ copy[c].pc = "report"
        /\ \/ /\ ok /\ copy' = [copy EXCEPT ![c].pc = "completing"]
              /\ taskState' = [taskState EXCEPT ![t] = "COMPLETED"]
           \/ ~ok /\ copy' = [copy EXCEPT ![c].pc = "failing"] /\ UNCHANGED taskState
           \/ copy' = [copy EXCEPT ![c].pc = "finally"] /\ UNCHANGED taskState
        /\ UNCHANGED <<jobs, known, assigned, running, spec, cluster,
                       agentRunning, thread, events, cancels, history, bounds>>

(* _on_task_complete.  Clearing the speculation record first leaves no
   duplicate to look up and cancel. *)
CompletePops(c) ==
    /\ copy[c].pc = "completing"
    /\ PopEntry(copy[c].task)
    /\ copy' = [copy EXCEPT ![c].pc = "popped"]
    /\ UNCHANGED <<jobs, tasks, cluster, agentRunning, thread, events, cancels,
                   history, bounds>>

(* on_replica_complete names the winner and the replicas to cancel. *)
CompleteJob(c) ==
    LET t == copy[c].task
        j == JobOf[t]
        replicated == Cardinality(TasksOf(j)) > 1
    IN  /\ copy[c].pc = "popped"
        /\ jobState' = [jobState EXCEPT ![j] = "COMPLETED"]
        /\ winner' = IF replicated THEN [winner EXCEPT ![j] = t] ELSE winner
        /\ copy' = [copy EXCEPT ![c].pc = "cancelling",
                      ![c].losers = IF replicated THEN OtherActive(t) ELSE {}]
        /\ UNCHANGED <<result, tasks, running, spec, cluster, agentRunning,
                       thread, events, cancels, history, bounds>>

(* The losers are cancelled before the result is stored.  A raising RPC ends
   the handler of TaskComplete; in a local execution it lands in the clause
   that fails the task. *)
CancelLosers(c) ==
    LET losers == copy[c].losers
        local == copy[c].place = Driver
    IN  /\ copy[c].pc = "cancelling"
        /\ \/ /\ CancelTasks(losers)
              /\ copy' = [copy EXCEPT ![c].pc = "storing", ![c].losers = {}]
           \/ \E ts \in SUBSET losers :
                /\ CancelRaises(losers \ ts)
                /\ CancelTasks(ts)
                /\ copy' = [copy EXCEPT ![c].losers = {},
                              ![c].pc = IF local THEN "failing" ELSE "finally"]
        /\ UNCHANGED <<jobs, known, assigned, running, spec, cluster, thread,
                       interruptOf, cancels, history, bounds>>

(* job.result = result, after the job is COMPLETED for everyone to see *)
StoreResult(c) ==
    LET t == copy[c].task IN
    /\ copy[c].pc = "storing"
    /\ result' = [result EXCEPT ![JobOf[t]] =
                    IF copy[c].outcome = "value" THEN t ELSE None]
    /\ copy' = [copy EXCEPT ![c].pc = "finally"]
    /\ UNCHANGED <<jobState, winner, tasks, running, spec, cluster,
                   agentRunning, thread, events, cancels, history, bounds>>

(* _on_task_failed *)
FailPops(c) ==
    /\ copy[c].pc = "failing"
    /\ FailTask(copy[c].task)
    /\ copy' = [copy EXCEPT ![c].pc = "failed"]
    /\ UNCHANGED <<jobs, known, assigned, cluster, agentRunning, thread, events, cancels,
                   history, bounds>>

FailJob(c) ==
    /\ copy[c].pc = "failed"
    /\ FailJobOf(copy[c].task)
    /\ copy' = [copy EXCEPT ![c].pc = "finally"]
    /\ UNCHANGED <<winner, result, tasks, running, spec, cluster, agentRunning,
                   thread, events, cancels, history, bounds>>

(* The `finally` clauses remove the entry of the task, whoever entered it;
   the agent's without a `finally` would stay. *)
LeaveDriverOnly(n, t) ==
    /\ running' = IF n = Driver THEN [running EXCEPT ![t] = "no"] ELSE running
    /\ UNCHANGED agentRunning
Leave(n, t) ==
    /\ running' = IF n = Driver THEN [running EXCEPT ![t] = "no"] ELSE running
    /\ agentRunning' = agentRunning \ {<<n, t>>}

Finally(c) ==
    /\ copy[c].pc = "finally"
    /\ copy' = [copy EXCEPT ![c] = IdleCopy]
    /\ Leave(copy[c].place, copy[c].task)
    /\ UNCHANGED <<jobs, tasks, spec, cluster, thread, events, cancels, history,
                   bounds>>
-----------------------------------------------------------------------------
Environment ==
    \E n \in Node : \/ AgentCrash(n) \/ AgentRegisters(n) \/ LateHeartbeat(n)
                    \/ PolledDead(n) \/ DeclareDead(n)
                    \/ \E a \in Preemptor : PreemptionWarning(a, n)

Api == \E j \in Job : Submit(j) \/ CancelJob(j) \/ CancelJobEnds(j)

PlatformLoop ==
    \E t \in Task : \/ \E n \in Node : Rebalance(t, n)
                    \/ \E dup \in Spare : Speculate(t, dup)

ThreadStep(a) ==
    \/ PauseTasks(a) \/ AllPaused(a) \/ PauseTimeout(a)
    \/ Steal(a) \/ NextDispatch(a) \/ EnterRemote(a) \/ EnterLocal(a)
    \/ AssignRpc(a) \/ AssignFailed(a) \/ AssignFailedJob(a)
    \/ a \in Job /\ SubmitRuns(a)

CopyStep(c) ==
    \/ LocalBegins(c) \/ LocalEnds(c) \/ LocalReturned(c) \/ AgentEnds(c)
    \/ TaskComplete(c) \/ CompletePops(c) \/ CompleteJob(c) \/ CancelLosers(c)
    \/ StoreResult(c) \/ FailPops(c) \/ FailJob(c) \/ Finally(c)

Next ==
    \/ Environment \/ Api \/ PlatformLoop
    \/ \E a \in Thread : ThreadStep(a)
    \/ \E c \in Copy : CopyStep(c)

Spec == Init /\ [][Next]_vars

(* Threads run: RPCs return or time out, waits end, and the functions of
   tasks return. *)
FairSpec ==
    /\ Spec
    /\ \A a \in Thread : WF_vars(ThreadStep(a))
    /\ \A c \in Copy : WF_vars(CopyStep(c))
-----------------------------------------------------------------------------
ThreadPC == {"idle", "pausing", "waiting", "stealing",
             "dispatching", "checked", "assigning", "failing", "failed",
             "placed", "ended"}
CopyPC == {"idle", "begin", "run", "report", "returned", "completing",
           "popped", "cancelling", "storing", "failing", "failed", "finally"}

ThreadType == [pc : ThreadPC, node : Node \cup {None}, todo : SUBSET Task,
               task : Task \cup {None}]
CopyType == [pc : CopyPC, task : Task \cup {None},
             place : Agent \cup {None, Driver, Gone},
             outcome : {"none", "value", "error"}, losers : SUBSET Task]

JobTypes ==
    /\ jobState \in [Job -> JobState]
    /\ winner \in [Job -> Task \cup {None}]
    /\ result \in [Job -> Task \cup {None}]
TaskTypes ==
    /\ known \subseteq Task
    /\ taskState \in [Task -> TaskState]
    /\ assigned \in [Task -> Node \cup {None}]
EntryTypes ==
    /\ running \in [Task -> {"no", "local", "remote"}]
    /\ speculative \in [Task -> Task \cup {None}]
    /\ started \subseteq Task
ClusterTypes ==
    /\ dead \subseteq Node /\ remote \subseteq Agent /\ up \subseteq Agent
    /\ agentRunning \subseteq Agent \X Task
EventTypes ==
    /\ interruptOf \in [Task -> Copy \cup {None}]
    /\ interrupted \subseteq Copy
BookTypes ==
    /\ cancelling \subseteq Job /\ cancelled \subseteq Job
    /\ finished \subseteq Task /\ decided \subseteq Task
    /\ faults \in 0..MaxFaults /\ moves \in 0..MaxMoves

(* Every variable stays in its type. *)
TypeOK ==
    /\ JobTypes /\ TaskTypes /\ EntryTypes /\ ClusterTypes /\ EventTypes
    /\ BookTypes
    /\ thread \in [Thread -> ThreadType]
    /\ copy \in [Copy -> CopyType]

(* No job is reported COMPLETED, names a winner or carries a result unless
   the function of one of its own tasks has returned: interruptions, lost
   reports, decided assignments and recoveries never pass for a completion. *)
NoFalseCompletion ==
    \A j \in Job :
        /\ jobState[j] = "COMPLETED" => \E t \in finished : JobOf[t] = j
        /\ winner[j] # None => winner[j] \in finished /\ JobOf[winner[j]] = j
        /\ result[j] # None => result[j] \in finished /\ JobOf[result[j]] = j

(* A job fails only when a task of it raised or an assignment of it failed:
   deaths, preemptions, interruptions and moves alone never fail a job. *)
FailureHasCause ==
    \A j \in Job : jobState[j] = "FAILED" => \E t \in decided : JobOf[t] = j

Executes(c, t) == copy[c].task = t /\ copy[c].pc \in {"begin", "run"}

(* However nodes die, return and are preempted, and however often a task is
   moved, two executions of it never overlap before the first of them has
   returned or raised, or an assignment of it has failed: the entry in
   _running is enough to serialise interruptions and migrations. *)
OneExecutor ==
    \A t \in Task \ decided :
        \A c, d \in Copy : Executes(c, t) /\ Executes(d, t) => c = d

(* A local entry of _running, or an entry of an agent's _running, has an
   execution of that task behind it that will remove it: no such entry keeps
   a task from being started again for ever. *)
EntriesBacked ==
    /\ \A t \in Task : running[t] = "local" =>
          \E c \in Copy : copy[c].task = t /\ copy[c].place = Driver
    /\ \A r \in agentRunning :
          \E c \in Copy : copy[c].task = r[2] /\ copy[c].place = r[1]

(* An event registered for a task belongs to an execution of that task, and
   only such an execution is ever told to stop. *)
EventsBelong ==
    /\ \A t \in Task : interruptOf[t] # None =>
          copy[interruptOf[t]].task = t /\ Runs(interruptOf[t])
    /\ \A c \in interrupted : Runs(c) /\ copy[c].place = Driver

(* Every thread of the driver gets through what it began: pauses that nobody
   answers, lost answers and tasks nobody can take do not hold it up. *)
HandlersEnd ==
    \A a \in Thread : thread[a].pc # "idle" ~> thread[a].pc \in {"idle", "ended"}
-----------------------------------------------------------------------------
(* What the documentation promises and the code does not keep *)

(* fault-tolerance.md: "100% of orphaned tasks reassigned": once the crashed
   agents are known to be dead and recovery is over, a RUNNING task of a
   running job, whose node is alive, is executed by somebody. *)
OrphansResent ==
    /\ \A a \in Thread : thread[a].pc = "idle"
    /\ Agent \ up # {} /\ Agent \ up \subseteq dead
    =>
        \A t \in Task :
            /\ taskState[t] = "RUNNING" /\ jobState[JobOf[t]] = "RUNNING"
            /\ assigned[t] \in Live \cap (up \cup Simulated)
            /\ t \notin decided
            => \E c \in Copy : copy[c].task = t
=============================================================================
