------------------------------- MODULE Failover -------------------------------
(***************************************************************************)
(* Several drivers over one store: submission with an idempotency key,      *)
(* dispatch, completion and failure as mesh/driver/job_manager.py persists  *)
(* them, and the takeover of a new leader (mesh/driver/ha/coordinator.py),  *)
(* with crashes of drivers and agents and lost calls.                       *)
(*                                                                         *)
(* Python objects matter: resume_from_store replaces the objects in the     *)
(* tables while submissions and executions keep the ones they have.  The    *)
(* objects a process has made for a job or a task form a sequence; its      *)
(* tables hold the last, a thread holds an index.  The lead is the flag     *)
(* is_leader (LeaderElection): several drivers may have it set.  Recovery   *)
(* of tasks from dead agents is part of JobManager.                         *)
(***************************************************************************)
EXTENDS Naturals, Sequences, FiniteSets

CONSTANTS
    Driver, Agent,
    Caller,         \* client calls of submit, one submission each
    Job, Task,      \* the ids uuid4 may return
    None, Here,     \* no node; a node whose tasks run inside the driver
    Workload        \* what the callers submit, and the bounds on the elections
                    \* and on the faults: crashes, lost leads, lost calls, task
                    \* failures and cancellations

Final == {"COMPLETED", "FAILED", "CANCELLED"}
Active == {"RUNNING", "PENDING", "MIGRATING"}
JobState == {"PENDING", "RUNNING"} \cup Final
TaskState == {"PENDING", "RUNNING", "COMPLETED", "FAILED"}
Kind == {"task", "byName"}      \* submit, submit_remote_by_name

ASSUME FailoverAssumption ==
    /\ None \notin Job \cup Task \cup Driver /\ Caller \cap Driver = {}
    /\ IsFiniteSet(Task)
    /\ \A w \in Workload :
         /\ w.elections \in Nat /\ w.faults \in Nat
         /\ DOMAIN w.calls \subseteq Caller
         /\ \A c \in DOMAIN w.calls :
              w.calls[c] \in [kind : {"task", "byName"}, keyed : BOOLEAN, size : Nat \ {0}]

VARIABLES
    alive, leads,   \* drivers that run, that believe they lead
    mem,        \* a driver process: its tables, threads and unfinished saves
    agent,      \* an agent process: its driver, _running, and its executions
    call,       \* the threads that submit (Caller) or resume (Driver)
    members,    \* job_id of the task specs, per job
    keyed,      \* jobs submitted with the idempotency key
    jobRow, taskRow,        \* the store
    facts, resumed,         \* history: see DurableJobs
    raced,      \* history: processes where two lookups of the key overlapped
    overtaken,  \* history: drivers whose tables miss a row written since their
                \* resume, by another driver or from an object the tables lost
    elections, faults,  \* those that are left
    fitting     \* the nodes that fit the tasks

procs == <<alive, leads>>
ids == <<members, keyed>>
rows == <<jobRow, taskRow>>
history == <<facts, resumed, raced, overtaken>>
bounds == <<elections, faults, fitting>>
vars == <<procs, mem, agent, call, ids, rows, history, bounds>>

Fault(kind) ==
    /\ faults.left > 0 /\ kind \in faults.kinds
    /\ faults' = [faults EXCEPT !.left = @ - 1]
JobOf(t) == CHOOSE j \in Job : t \in members[j]
Fresh ==
    [jobs  |-> [j \in Job |-> <<>>],    \* Job objects: their states
     tasks |-> [t \in Task |-> <<>>],   \* TaskSpec objects
     list  |-> [j \in Job |-> {}],      \* _job_tasks
     key   |-> None,                    \* _idempotency
     running |-> {},                    \* _running
     handles |-> {},                    \* _remote_agents
     local |-> {}, interrupted |-> {},  \* run threads, and those told to stop
     saves |-> {}]                      \* handlers that have not persisted yet
Down(d) == [up |-> FALSE, home |-> d, entry |-> {}, execs |-> [t \in Task |-> 0]]
Idle == [pc |-> "idle", at |-> None, kind |-> "task", keyed |-> FALSE, size |-> 1,
         job |-> None, todo |-> {}, cur |-> None]

Table(s) == s[Len(s)]
JobKnown(d, j) == mem[d].jobs[j] # <<>>
TaskKnown(d, t) == mem[d].tasks[t] # <<>>
Resuming(d, kind) == [Idle EXCEPT !.pc = "jobs", !.at = d, !.kind = kind]
Serves(d) == d \in alive /\ (call[d].pc = "idle" \/ call[d].kind # "start")

(* All drivers run and none leads yet; the agents have registered. *)
Init ==
    /\ alive = Driver /\ leads = {}
    /\ \E home \in [Agent -> Driver] :
         /\ mem = [d \in Driver |->
                     [Fresh EXCEPT !.handles = {a \in Agent : home[a] = d}]]
         /\ agent = [a \in Agent |-> [Down(home[a]) EXCEPT !.up = TRUE]]
    /\ \E w \in Workload :
         /\ call = [x \in Caller \cup Driver |->
                IF x \notin DOMAIN w.calls THEN Idle
                ELSE [Idle EXCEPT !.pc = "called", !.kind = w.calls[x].kind,
                        !.keyed = w.calls[x].keyed, !.size = w.calls[x].size]]
         /\ elections = w.elections
         /\ faults = [left |-> w.faults, kinds |-> w.kinds] /\ fitting = w.nodes
    /\ members = [j \in Job |-> {}] /\ keyed = {}
    /\ jobRow = [j \in Job |-> "none"]
    /\ taskRow = [t \in Task |-> [state |-> "none", node |-> None]]
    /\ facts = [j \in Job |-> {}] /\ resumed = {} /\ raced = {} /\ overtaken = {}
-----------------------------------------------------------------------------
(* Processes and leadership *)

(* start: coordinator.start comes first, and resumes before the gRPC server
   and the API are there; its second resume changes nothing more. *)
DriverStart(d) ==
    /\ d \notin alive
    /\ alive' = alive \cup {d}
    /\ \/ /\ elections > 0 /\ elections' = elections - 1
          /\ leads' = leads \cup {d}
          /\ call' = [call EXCEPT ![d] = Resuming(d, "start")]
       \/ UNCHANGED <<leads, elections, call>>
    /\ UNCHANGED <<mem, agent, ids, rows, history, faults, fitting>>

(* _try_become_leader in the renewal loop, which waits for its callback. *)
BecomeLeader(d) ==
    /\ d \in alive \ leads /\ call[d].pc = "idle"
    /\ elections > 0 /\ elections' = elections - 1
    /\ leads' = leads \cup {d}
    /\ call' = [call EXCEPT ![d] = Resuming(d, "resume")]
    /\ UNCHANGED <<alive, mem, agent, ids, rows, history, faults, fitting>>

LoseLead(d) ==
    /\ d \in leads /\ Fault("lead")
    /\ leads' = leads \ {d}
    /\ UNCHANGED <<alive, mem, agent, call, ids, rows, history, elections, fitting>>

Survives(d) == leads
Deposed(d) == leads \ {d}

DriverCrash(d) ==
    /\ d \in alive /\ Fault("crash")
    /\ alive' = alive \ {d} /\ leads' = Deposed(d)
    /\ mem' = [mem EXCEPT ![d] = Fresh]
    /\ call' = [x \in DOMAIN call |->
                  IF call[x].at = d
                  THEN [Idle EXCEPT !.pc = IF x \in Driver THEN "idle" ELSE "done"]
                  ELSE call[x]]
    /\ raced' = raced \ {d} /\ overtaken' = overtaken \ {d}
    /\ UNCHANGED <<agent, ids, rows, facts, resumed, elections, fitting>>

(* An agent registers once, with the driver it is configured for. *)
AgentStart(a, d) ==
    /\ ~agent[a].up /\ Serves(d)
    /\ agent' = [agent EXCEPT ![a] = [Down(d) EXCEPT !.up = TRUE]]
    /\ mem' = [mem EXCEPT ![d].handles = @ \cup {a}]
    /\ UNCHANGED <<procs, call, ids, rows, history, bounds>>

AgentCrash(a) ==
    /\ agent[a].up /\ Fault("crash")
    /\ agent' = [agent EXCEPT ![a] = Down(agent[a].home)]
    /\ UNCHANGED <<procs, mem, call, ids, rows, history, elections, fitting>>
-----------------------------------------------------------------------------
(* _persist_task and _persist_job write what the object is now.  A leader
   deposed between the test of is_leader and the write is one that has not
   noticed yet. *)
WriteFirst(d, j, i) ==
    IF d \in leads
    THEN /\ jobRow' = [jobRow EXCEPT ![j] = mem[d].jobs[j][1]]
         /\ overtaken' = overtaken \cup
              IF i = Len(mem[d].jobs[j]) THEN alive \ {d} ELSE alive
    ELSE UNCHANGED <<jobRow, overtaken>>
WriteJob(d, j, i) ==
    IF d \in leads
    THEN /\ jobRow' = [jobRow EXCEPT ![j] = mem[d].jobs[j][i]]
         /\ overtaken' = overtaken \cup
              IF i = Len(mem[d].jobs[j]) THEN alive \ {d} ELSE alive
    ELSE UNCHANGED <<jobRow, overtaken>>

WriteTask(d, t, row) ==
    taskRow' = IF d \in leads THEN [taskRow EXCEPT ![t] = row] ELSE taskRow

SaveRecord(t, ti, ji, by) == [task |-> t, ti |-> ti, ji |-> ji, by |-> by, pc |-> "task"]

(* _cancel_task for the tasks us: the RPC to an agent that is gone raises and
   leaves the rest undone.  Agents only forget the entry. *)
Reachable(d, u) ==
    LET n == Table(mem[d].tasks[u]).node
    IN  n \in mem[d].handles => agent[n].up
Forgotten(agents, d, us) ==
    [a \in Agent |-> [agents[a] EXCEPT !.entry =
        @ \ {u \in us : Table(mem[d].tasks[u]).node = a /\ a \in mem[d].handles}]]
CancelUpTo(d, us, done) ==
    /\ done \subseteq {u \in us : Reachable(d, u)}
    /\ us \subseteq done \/ \E u \in us : ~Reachable(d, u)
Interrupted(d, us) ==
    {u \in us \cap mem[d].local :
        Table(mem[d].tasks[u]).node \notin mem[d].handles}

(* A Job or TaskSpec object gets a new state. *)
SetJob(js, j, i, s) == [js EXCEPT ![j][i] = s]
SetTask(tasks, t, i, s) == [tasks EXCEPT ![t][i].state = s]
SetTables(tasks, us, s) ==
    [t \in Task |-> IF t \in us THEN [tasks[t] EXCEPT ![Len(tasks[t])].state = s]
                                ELSE tasks[t]]
Others(d, t) ==
    {u \in mem[d].list[JobOf(t)] \ {t} : Table(mem[d].tasks[u]).state \in Active}
Several(d, t) == Cardinality(mem[d].list[JobOf(t)]) > 1

(* _on_task_complete up to the first save.  When a cancellation raises, the
   report is answered with an error; the thread of a local execution takes the
   error for the task's own. *)
Completes(d, t, ti, ji, by, threads, agents) ==
    LET m == mem[d]
        others == IF Several(d, t) THEN Others(d, t) ELSE {}
    IN  \E done \in SUBSET others :
        /\ CancelUpTo(d, others, done)
        /\ mem' = [mem EXCEPT ![d] = [m EXCEPT
             !.jobs = SetJob(m.jobs, JobOf(t), ji, "COMPLETED"),
             !.tasks = SetTables(SetTask(m.tasks, t, ti,
                  IF done # others /\ by = Here THEN "FAILED" ELSE "COMPLETED"),
                  done, "FAILED"),
             !.running = m.running \ {t},
             !.local = threads,
             !.interrupted = (m.interrupted \cup Interrupted(d, done)) \cap threads,
             !.saves = IF done = others \/ by = Here
                       THEN m.saves \cup {SaveRecord(t, ti, ji, by)} ELSE m.saves]]
        /\ agent' = Forgotten(agents, d, done)

(* _on_task_failed: the failure that leaves no replica is not persisted.  The
   object of index 0 is in no table. *)
Fails(d, t, ti, ji, by, threads) ==
    LET m == mem[d]
        goesOn == Several(d, t) /\ Others(d, t) # {}
        lastReplica == Several(d, t) /\ Others(d, t) = {}
    IN  mem' = [mem EXCEPT ![d] = [m EXCEPT
          !.jobs = IF goesOn THEN m.jobs ELSE SetJob(m.jobs, JobOf(t), ji, "FAILED"),
          !.tasks = IF ti = 0 THEN m.tasks ELSE SetTask(m.tasks, t, ti, "FAILED"),
          !.running = m.running \ {t},
          !.local = threads,
          !.interrupted = m.interrupted \cap threads,
          !.saves = IF lastReplica THEN m.saves
                    ELSE m.saves \cup {SaveRecord(t, ti, ji, by)}]]

PersistTask(d, p) ==
    /\ p \in mem[d].saves /\ p.pc = "task"
    /\ WriteTask(d, p.task,
         IF p.ti = 0 THEN [taskRow[p.task] EXCEPT !.state = "FAILED"]
                     ELSE mem[d].tasks[p.task][p.ti])
    /\ mem' = [mem EXCEPT ![d].saves = (@ \ {p}) \cup {[p EXCEPT !.pc = "job"]}]
    /\ UNCHANGED <<procs, agent, call, ids, jobRow, history, bounds>>

PersistJob(d, p) ==
    /\ p \in mem[d].saves /\ p.pc = "job"
    /\ WriteJob(d, JobOf(p.task), p.ji)
    /\ mem' = [mem EXCEPT ![d].saves = @ \ {p}]
    /\ UNCHANGED <<procs, agent, call, ids, taskRow, facts, resumed, raced, bounds>>

-----------------------------------------------------------------------------
(* Submission *)

(* The lookup of the idempotency key; a caller that finds one waits for its job. *)
LookUp(c, d) ==
    /\ call[c].pc = "called" /\ Serves(d)
    /\ call' = [call EXCEPT ![c] = [@ EXCEPT !.at = d,
         !.pc = IF call[c].keyed /\ mem[d].key # None THEN "done" ELSE "new"]]
    /\ raced' = IF call[c].keyed /\ \E b \in Caller \ {c} :
                        call[b].pc = "new" /\ call[b].at = d /\ call[b].keyed
                THEN raced \cup {d} ELSE raced
    /\ UNCHANGED <<procs, mem, agent, ids, rows, facts, resumed, overtaken, bounds>>

Unused == Task \ UNION {members[j] : j \in Job}

NoKey(d, c, j) == mem[d].key
KeyEntered(d, c, j) == IF call[c].keyed THEN j ELSE mem[d].key

(* The job, its key and its tasks are entered in the tables. *)
Enter(c, j, ts) ==
    /\ call[c].pc = "new" /\ members[j] = {} /\ ts \subseteq Unused
    /\ Cardinality(ts) = call[c].size
    /\ members' = [members EXCEPT ![j] = ts]
    /\ keyed' = IF call[c].keyed THEN keyed \cup {j} ELSE keyed
    /\ LET d == call[c].at
           m == mem[d]
       IN  mem' = [mem EXCEPT ![d] = [m EXCEPT
             !.jobs = [m.jobs EXCEPT ![j] = <<"PENDING">>],
             !.tasks = [t \in Task |->
                 IF t \in ts THEN <<[state |-> "PENDING", node |-> None]>> ELSE m.tasks[t]],
             !.list = [m.list EXCEPT ![j] = ts],
             !.key = KeyEntered(d, c, j)]]
    /\ call' = [call EXCEPT ![c] = [@ EXCEPT !.pc = "place", !.job = j, !.todo = ts]]
    /\ UNCHANGED <<procs, agent, rows, history, bounds>>

(* Placement: replicas on different nodes.  The job is RUNNING even if it was
   cancelled meanwhile. *)
Place(c) ==
    LET d == call[c].at
        m == mem[d]
    IN  /\ call[c].pc = "place"
        /\ \E f \in [call[c].todo -> ((mem[d].handles \cup {Here}) \cap fitting) \cup {None}] :
             /\ \A t, u \in call[c].todo : f[t] = f[u] => t = u \/ f[t] = None
             /\ mem' = [mem EXCEPT ![d] = [m EXCEPT
                  !.jobs = SetJob(m.jobs, call[c].job, 1, "RUNNING"),
                  !.tasks = [t \in Task |->
                      IF t \notin call[c].todo THEN m.tasks[t]
                      ELSE [m.tasks[t] EXCEPT ![1] =
                              [state |-> IF f[t] = None THEN "PENDING" ELSE "RUNNING",
                               node |-> f[t]]]]]]
        /\ call' = [call EXCEPT ![c] = [@ EXCEPT
                      !.pc = IF call[c].kind = "byName" THEN "dispatch" ELSE "saveJob",
                      !.cur = IF call[c].kind = "byName"
                              THEN CHOOSE t \in call[c].todo : TRUE ELSE None]]
        /\ UNCHANGED <<procs, agent, ids, rows, history, bounds>>

SaveNewJob(c) ==
    /\ call[c].pc = "saveJob"
    /\ WriteJob(call[c].at, call[c].job, 1)
    /\ call' = [call EXCEPT ![c].pc = "saveTask"]
    /\ UNCHANGED <<procs, mem, agent, ids, taskRow, facts, resumed, raced, bounds>>

SaveNewTask(c, t) ==
    /\ call[c].pc = "saveTask" /\ t \in call[c].todo
    /\ WriteTask(call[c].at, t, mem[call[c].at].tasks[t][1])
    /\ call' = [call EXCEPT ![c] = [@ EXCEPT !.pc = "dispatch", !.cur = t]]
    /\ UNCHANGED <<procs, mem, agent, ids, jobRow, history, bounds>>
-----------------------------------------------------------------------------
(* _dispatch, in a submission or in a resume.  x is the thread, d its driver. *)

(* The thread goes on with its next task. *)
Onward(x) ==
    LET todo == call[x].todo \ {call[x].cur}
    IN  [call EXCEPT ![x] = [@ EXCEPT !.todo = todo, !.cur = None,
          !.pc = IF todo # {} THEN (IF x \in Driver THEN "next" ELSE "saveTask")
                 ELSE IF x \in Driver THEN "idle" ELSE "done"]]

NodeOf(x) ==
    IF x \in Driver THEN taskRow[call[x].cur].node
                    ELSE mem[call[x].at].tasks[call[x].cur][1].node
Dispatching(x) == call[x].pc = "dispatch"
Remote(x) == NodeOf(x) \in mem[call[x].at].handles
Entered(x) == call[x].cur \in mem[call[x].at].running

(* Nothing to do: no node, an entry in _running, or no function to run here. *)
DispatchSkips(x) ==
    /\ Dispatching(x)
    /\ Entered(x) \/ (~Remote(x) /\ ~(NodeOf(x) = Here /\ x \in Caller
                                       /\ call[x].kind = "task"))
    /\ call' = Onward(x)
    /\ UNCHANGED <<procs, mem, agent, ids, rows, history, bounds>>

DispatchLocally(x) ==
    /\ Dispatching(x) /\ ~Entered(x)
    /\ NodeOf(x) = Here /\ x \in Caller /\ call[x].kind = "task"
    /\ LET m == mem[call[x].at]
       IN  mem' = [mem EXCEPT ![call[x].at] =
                     [m EXCEPT !.running = m.running \cup {call[x].cur},
                               !.local = m.local \cup {call[x].cur}]]
    /\ call' = Onward(x)
    /\ UNCHANGED <<procs, agent, ids, rows, history, bounds>>

(* The agent takes the task; the answer arrives, or is lost. *)
DispatchSent(x, answered) ==
    LET t == call[x].cur
        a == NodeOf(x)
    IN  /\ Dispatching(x) /\ ~Entered(x) /\ Remote(x)
        /\ agent[a].up /\ t \notin agent[a].entry
        /\ agent' = [agent EXCEPT ![a] =
                       [@ EXCEPT !.entry = agent[a].entry \cup {t},
                                 !.execs = [agent[a].execs EXCEPT ![t] = @ + 1]]]
        /\ mem' = [mem EXCEPT ![call[x].at].running = @ \cup {t}]
        /\ IF answered THEN call' = Onward(x) /\ UNCHANGED faults
                       ELSE call' = [call EXCEPT ![x].pc = "lost"] /\ Fault("call")
        /\ UNCHANGED <<procs, ids, rows, history, elections, fitting>>

(* The failure of assign_task: the driver's objects for this dispatch. *)
DispatchFails(x) ==
    LET d == call[x].at
        t == call[x].cur
    IN  /\ Fails(d, t, IF x \in Driver THEN 0 ELSE 1,
                 IF x \in Driver THEN Len(mem[d].jobs[JobOf(t)]) ELSE 1, x,
                 mem[d].local)
        /\ facts' = [facts EXCEPT ![JobOf(t)] = @ \cup {"raised"}]
        /\ call' = [call EXCEPT ![x].pc = "failing"]
        /\ UNCHANGED <<procs, agent, ids, rows, resumed, raced, overtaken, bounds>>
DispatchRefused(x) ==
    /\ Dispatching(x) /\ ~Entered(x) /\ Remote(x)
    /\ agent[NodeOf(x)].up => call[x].cur \in agent[NodeOf(x)].entry
    /\ DispatchFails(x)
AnswerLost(x) == call[x].pc = "lost" /\ DispatchFails(x)

(* _on_task_failed has returned; the entry is removed again. *)
FailureHandled(x) ==
    LET d == call[x].at
    IN  /\ call[x].pc = "failing" /\ \A p \in mem[d].saves : p.by # x
        /\ mem' = [mem EXCEPT ![d].running = @ \ {call[x].cur}]
        /\ call' = Onward(x)
        /\ UNCHANGED <<procs, agent, ids, rows, history, bounds>>
-----------------------------------------------------------------------------
(* Executions *)

(* An execution on an agent ends and is reported to the agent's driver, which
   may be gone, or not know the task.  The agent's entry stays meanwhile. *)
AgentReports(a, t, ok, lost) ==
    LET d == agent[a].home
        lastOne == [agent EXCEPT ![a].execs[t] = @ - 1]
        knows == Serves(d) /\ ~lost /\ TaskKnown(d, t)
        ti == Len(mem[d].tasks[t])
        ji == Len(mem[d].jobs[JobOf(t)])
    IN  /\ agent[a].execs[t] > 0 /\ \A p \in mem[d].saves : p.by # a
        /\ IF lost THEN Fault("call")
                   ELSE IF ok THEN UNCHANGED faults ELSE Fault("raise")
        /\ facts' = [facts EXCEPT ![JobOf(t)] = @ \cup {IF ok THEN "returned" ELSE "raised"}]
        /\ \/ ~knows /\ agent' = lastOne /\ UNCHANGED mem
           \/ /\ knows /\ ~JobKnown(d, JobOf(t))
              /\ mem' = [mem EXCEPT ![d].tasks =
                           SetTask(@, t, ti, IF ok THEN "COMPLETED" ELSE "FAILED")]
              /\ agent' = lastOne
           \/ /\ knows /\ JobKnown(d, JobOf(t)) /\ ok
              /\ Completes(d, t, ti, ji, a, mem[d].local, lastOne)
           \/ /\ knows /\ JobKnown(d, JobOf(t)) /\ ~ok
              /\ Fails(d, t, ti, ji, a, mem[d].local)
              /\ agent' = lastOne
        /\ UNCHANGED <<procs, call, ids, rows, resumed, raced, overtaken, elections, fitting>>

(* run of the agent ends: its entry goes, be it that of another execution. *)
AgentPops(a, t) ==
    /\ t \in agent[a].entry /\ agent[a].execs[t] = 0
    /\ \A p \in mem[agent[a].home].saves : p.by # a \/ p.task # t
    /\ agent' = [agent EXCEPT ![a].entry = @ \ {t}]
    /\ UNCHANGED <<procs, mem, call, ids, rows, history, bounds>>

(* The thread of a local execution, which has the objects of the submission. *)
LocalReturns(d, t) ==
    /\ t \in mem[d].local
    /\ facts' = [facts EXCEPT ![JobOf(t)] = @ \cup {"returned"}]
    /\ Completes(d, t, 1, 1, Here, mem[d].local \ {t}, agent)
    /\ UNCHANGED <<procs, call, ids, rows, resumed, raced, overtaken, bounds>>

LocalRaises(d, t) ==
    /\ t \in mem[d].local /\ Fault("raise")
    /\ facts' = [facts EXCEPT ![JobOf(t)] = @ \cup {"raised"}]
    /\ Fails(d, t, 1, 1, Here, mem[d].local \ {t})
    /\ UNCHANGED <<procs, agent, call, ids, rows, resumed, raced, overtaken, elections, fitting>>

(* Interrupted, it ends silently, unless its task is done. *)
AnyEnd(d, t) == mem[d].tasks[t] # <<>>
IsDone(d, t) == mem[d].tasks[t][1].state = "COMPLETED"
LocalStops(d, t) ==
    /\ t \in mem[d].interrupted
    /\ IF IsDone(d, t)
       THEN Completes(d, t, 1, 1, Here, mem[d].local \ {t}, agent)
       ELSE /\ LET m == mem[d]
               IN  mem' = [mem EXCEPT ![d] =
                     [m EXCEPT !.running = m.running \ {t}, !.local = m.local \ {t},
                               !.interrupted = m.interrupted \ {t}]]
            /\ UNCHANGED agent
    /\ UNCHANGED <<procs, call, ids, rows, history, bounds>>

(* cancel_job: nothing is persisted.  A raising RPC leaves it half done. *)
Cancel(d, j) ==
    /\ Serves(d) /\ JobKnown(d, j) /\ "cancelled" \notin facts[j] /\ Fault("cancel")
    /\ LET m == mem[d]
           us == m.list[j]
       IN
       \E done \in SUBSET us :
         /\ CancelUpTo(d, us, done)
         /\ mem' = [mem EXCEPT ![d] = [m EXCEPT
              !.tasks = SetTables(m.tasks, done, "FAILED"),
              !.interrupted = m.interrupted \cup Interrupted(d, done),
              !.jobs = IF done = us THEN SetJob(m.jobs, j, Len(m.jobs[j]), "CANCELLED")
                                    ELSE m.jobs]]
         /\ agent' = Forgotten(agent, d, done)
         /\ facts' = IF done = us THEN [facts EXCEPT ![j] = @ \cup {"cancelled"}] ELSE facts
    /\ UNCHANGED <<procs, call, ids, rows, resumed, raced, overtaken, elections, fitting>>
-----------------------------------------------------------------------------
(* resume_from_store, in four reads of the store: the jobs, their tasks, the
   tasks again, and one dispatch for each of these that was running. *)
Stored == {j \in Job : jobRow[j] # "none"}
StoredTasks(j) == {t \in members[j] : taskRow[t].state # "none"}

KeysKept(d) == {mem[d].key}
KeysLoaded(d) == IF Stored \cap keyed = {} THEN {mem[d].key} ELSE Stored \cap keyed

LoadJobs(d) ==
    /\ call[d].pc = "jobs"
    /\ \E k \in KeysLoaded(d) :
         LET m == mem[d]
         IN  mem' = [mem EXCEPT ![d] = [m EXCEPT !.key = k,
               !.jobs = [j \in Job |-> IF j \in Stored THEN Append(m.jobs[j], jobRow[j])
                                                       ELSE m.jobs[j]]]]
    /\ resumed' = resumed \cup Stored
    /\ overtaken' = overtaken \ {d}
    /\ call' = [call EXCEPT ![d].pc = "tasks"]
    /\ UNCHANGED <<procs, agent, ids, rows, facts, raced, bounds>>

LoadTasks(d) ==
    /\ call[d].pc = "tasks"
    /\ LET m == mem[d]
       IN  mem' = [mem EXCEPT ![d] = [m EXCEPT
             !.tasks = [t \in Task |-> IF taskRow[t].state = "none" THEN m.tasks[t]
                                       ELSE Append(m.tasks[t], taskRow[t])],
             !.list = [j \in Job |-> IF StoredTasks(j) = {} THEN m.list[j]
                                                            ELSE StoredTasks(j)]]]
    /\ call' = [call EXCEPT ![d].pc = "again"]
    /\ UNCHANGED <<procs, agent, ids, rows, history, bounds>>

ListAgain(d) ==
    /\ call[d].pc = "again"
    /\ LET todo == {t \in Task : taskRow[t].state = "RUNNING"}
       IN  call' = [call EXCEPT ![d] = [@ EXCEPT !.todo = todo,
                                    !.pc = IF todo = {} THEN "idle" ELSE "next"]]
    /\ UNCHANGED <<procs, mem, agent, ids, rows, history, bounds>>

(* The next running task, unless its job is over or unknown. *)
ResumeNext(d, t) ==
    /\ call[d].pc = "next" /\ t \in call[d].todo
    /\ LET j == JobOf(t)
           todo == call[d].todo \ {t}
       IN  call' = IF JobKnown(d, j) /\ Table(mem[d].jobs[j]) \notin Final
                   THEN [call EXCEPT ![d] = [@ EXCEPT !.pc = "dispatch", !.cur = t]]
                   ELSE [call EXCEPT ![d] = [@ EXCEPT !.todo = todo,
                                     !.pc = IF todo = {} THEN "idle" ELSE "next"]]
    /\ UNCHANGED <<procs, mem, agent, ids, rows, history, bounds>>
-----------------------------------------------------------------------------
Processes ==
    \/ \E d \in Driver :
          DriverStart(d) \/ BecomeLeader(d) \/ LoseLead(d) \/ DriverCrash(d)
    \/ \E a \in Agent : AgentCrash(a) \/ \E d \in Driver : AgentStart(a, d)

Submissions ==
    \E c \in Caller :
       \/ \E d \in Driver : LookUp(c, d)
       \/ \E j \in Job, ts \in SUBSET Task : Enter(c, j, ts)
       \/ Place(c) \/ SaveNewJob(c)
       \/ \E t \in Task : SaveNewTask(c, t)

Dispatches ==
    \E x \in Caller \cup Driver :
       \/ DispatchSkips(x) \/ DispatchLocally(x)
       \/ \E answered \in BOOLEAN : DispatchSent(x, answered)
       \/ DispatchRefused(x) \/ AnswerLost(x) \/ FailureHandled(x)

Executions ==
    \/ \E a \in Agent, t \in Task :
          \/ \E ok, lost \in BOOLEAN : AgentReports(a, t, ok, lost)
          \/ AgentPops(a, t)
    \/ \E d \in Driver, t \in Task :
          LocalReturns(d, t) \/ LocalRaises(d, t) \/ LocalStops(d, t)
    \/ \E d \in Driver, j \in Job : Cancel(d, j)

Saves ==
    \E d \in Driver : \E p \in mem[d].saves :
       PersistTask(d, p) \/ PersistJob(d, p)

Resumes ==
    \E d \in Driver :
       \/ LoadJobs(d) \/ LoadTasks(d) \/ ListAgain(d)
       \/ \E t \in Task : ResumeNext(d, t)

Next ==
    Processes \/ Submissions \/ Dispatches \/ Executions \/ Saves \/ Resumes

Spec == Init /\ [][Next]_vars
-----------------------------------------------------------------------------
(* Every variable stays in its type. *)
TypeOK ==
    /\ alive \subseteq Driver /\ leads \subseteq alive
    /\ mem \in [Driver ->
         [jobs : [Job -> Seq(JobState)],
          tasks : [Task -> Seq([state : TaskState, node : Agent \cup {None, Here}])],
          list : [Job -> SUBSET Task], key : Job \cup {None},
          running : SUBSET Task, handles : SUBSET Agent,
          local : SUBSET Task, interrupted : SUBSET Task,
          saves : SUBSET [task : Task, ti : Nat, ji : Nat, pc : {"task", "job"},
                          by : Agent \cup Caller \cup Driver \cup {Here}]]]
    /\ call \in [Caller \cup Driver ->
         [pc : {"idle", "called", "new", "place", "saveJob", "saveTask", "dispatch",
                "lost", "failing", "done", "jobs", "tasks", "again", "next"},
          at : Driver \cup {None}, kind : Kind \cup {"start", "resume"},
          keyed : BOOLEAN, size : Nat, job : Job \cup {None},
          todo : SUBSET Task, cur : Task \cup {None}]]
    /\ agent \in [Agent -> [up : BOOLEAN, home : Driver, entry : SUBSET Task,
                             execs : [Task -> Nat]]]
    /\ members \in [Job -> SUBSET Task] /\ keyed \subseteq Job
    /\ jobRow \in [Job -> JobState \cup {"none"}]
    /\ taskRow \in [Task -> [state : TaskState \cup {"none"},
                              node : Agent \cup {None, Here}]]
    /\ resumed \subseteq Job /\ raced \subseteq Driver /\ overtaken \subseteq Driver

(* A client is told an outcome that the next leader will tell as well: what
   the leader's table says of a job of one task is what its row says, once the
   handlers have saved, and unless another driver wrote meanwhile. *)
AnswerIsDurable ==
    \A d \in leads, j \in Job :
        /\ call[d].pc = "idle" /\ d \notin overtaken
        /\ JobKnown(d, j) /\ Table(mem[d].jobs[j]) \in {"COMPLETED", "FAILED"}
        /\ Cardinality(members[j]) = 1 /\ jobRow[j] # "none"
        /\ \A p \in mem[d].saves : p.task \notin members[j]
        => jobRow[j] = Table(mem[d].jobs[j])

(* A process makes one job for the key, unless two of its callers looked the
   key up before either entered it. *)
KeyHonoured ==
    \A d \in Driver \ raced : \A b, c \in Caller :
        /\ call[b].at = d /\ call[b].keyed /\ call[b].job # None
        /\ call[c].at = d /\ call[c].keyed /\ call[c].job # None
        => b = c

(* After a takeover the new leader knows the key of every stored job. *)
KeyKnown ==
    \A d \in leads :
        call[d].pc = "idle" /\ d \notin overtaken /\ Stored \cap keyed # {}
        => mem[d].key \in keyed

(* The durable promise. *)
Durable == INSTANCE DurableJobs WITH stored <- jobRow
Promise == Durable!Spec
=============================================================================
