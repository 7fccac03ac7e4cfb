--------------------------- MODULE FailoverProofs ---------------------------
(***************************************************************************)
(* Submissions, executions, saves and takeovers over one store, for any      *)
(* drivers, agents, callers, jobs and tasks and any workload: what the rows   *)
(* tell about jobs implements DurableJobs, what a leader tells of a job is     *)
(* what its row says, and a process makes one job for a key.                   *)
(***************************************************************************)
EXTENDS Failover, FiniteSetTheorems, SequenceTheorems, TLAPS

TaskObject == [state : TaskState, node : Agent \cup {None, Here}]
Save == [task : Task, ti : Nat, ji : Nat, pc : {"task", "job"},
         by : Agent \cup Caller \cup Driver \cup {Here}]
Memory ==
    [jobs : [Job -> Seq(JobState)], tasks : [Task -> Seq(TaskObject)],
     list : [Job -> SUBSET Task], key : Job \cup {None},
     running : SUBSET Task, handles : SUBSET Agent,
     local : SUBSET Task, interrupted : SUBSET Task, saves : SUBSET Save]
Thread ==
    [pc : {"idle", "called", "new", "place", "saveJob", "saveTask", "dispatch",
           "lost", "failing", "done", "jobs", "tasks", "again", "next"},
     at : Driver \cup {None}, kind : Kind \cup {"start", "resume"},
     keyed : BOOLEAN, size : Nat, job : Job \cup {None},
     todo : SUBSET Task, cur : Task \cup {None}]
AgentState ==
    [up : BOOLEAN, home : Driver, entry : SUBSET Task, execs : [Task -> Nat]]
Cause == {"returned", "raised", "cancelled"}

Owned == UNION {members[j] : j \in Job}
Holding == {"place", "saveJob", "saveTask", "dispatch", "lost", "failing"}
Sending == {"dispatch", "lost", "failing"}

(* A task that a dispatch, an execution, a save or a row may be about: one of a
   job whose submission has placed it. *)
Launched(t) ==
    /\ t \in Owned
    /\ \A c \in Caller : call[c].pc = "place" => t \notin members[call[c].job]

(* The outcome s of a job has its cause among the facts f; so has a task's. *)
Caused(f, j, s) ==
    /\ s = "COMPLETED" => "returned" \in f[j]
    /\ s = "FAILED" => "raised" \in f[j]
    /\ s = "CANCELLED" => "cancelled" \in f[j]
Ended(f, t, s) == s = "COMPLETED" => "returned" \in f[JobOf(t)]

Typed == TypeOK /\ facts \in [Job -> SUBSET Cause]

MembersInv ==
    /\ \A j, k \in Job : \A t \in Task : t \in members[j] /\ t \in members[k] => j = k
    /\ \A j \in keyed : members[j] # {}

(* The objects and threads that the process d may have in the record m. *)
JobsKnown(m) ==
    \A j \in Job :
        /\ m.list[j] \subseteq members[j] /\ \A t \in m.list[j] : m.tasks[t] # <<>>
        /\ \A i \in DOMAIN m.jobs[j] : members[j] # {} /\ Caused(facts, j, m.jobs[j][i])
TasksKnown(m) ==
    \A t \in Task : \A i \in DOMAIN m.tasks[t] :
        t \in Owned /\ Ended(facts, t, m.tasks[t][i].state)
ThreadsKnown(m) ==
    /\ m.interrupted \subseteq m.local
    /\ \A t \in m.local :
         Launched(t) /\ m.tasks[t] # <<>> /\ m.jobs[JobOf(t)] # <<>>
    /\ \A p \in m.saves :
         /\ Launched(p.task) /\ (p.ti = 0 \/ p.ti \in DOMAIN m.tasks[p.task])
         /\ p.ji \in DOMAIN m.jobs[JobOf(p.task)]

JobRows ==
    \A j \in Job : jobRow[j] # "none" =>
        /\ members[j] # {} /\ Caused(facts, j, jobRow[j])
        /\ \A c \in Caller : call[c].pc = "place" => call[c].job # j
TaskRows ==
    \A t \in Task :
        taskRow[t].state # "none" => Launched(t) /\ Ended(facts, t, taskRow[t].state)
Executed ==
    \A a \in Agent, t \in Task : agent[a].execs[t] > 0 => Launched(t)

CallerInv(c) ==
    /\ call[c].pc \in {"called", "new"} => call[c].job = None /\ call[c].size # 0
    /\ call[c].pc \in {"new"} \cup Holding => call[c].at \in Driver
    /\ call[c].pc \in Holding =>
         /\ call[c].job \in Job /\ call[c].todo \subseteq members[call[c].job]
         /\ mem[call[c].at].jobs[call[c].job] # <<>>
         /\ \A t \in call[c].todo : mem[call[c].at].tasks[t] # <<>>
    /\ call[c].pc \in Holding \ {"place"} => \A t \in call[c].todo : Launched(t)
    /\ call[c].pc \in Sending => call[c].cur \in call[c].todo
    /\ call[c].pc \in {"place", "saveJob"} => call[c].todo # {}
    /\ call[c].pc = "place" =>
         \A b \in Caller : call[b].pc = "place" /\ call[b].job = call[c].job => b = c

ResumeInv(x) ==
    /\ call[x].pc # "idle" => call[x].at = x
    /\ \A t \in call[x].todo : Launched(t)
    /\ call[x].pc \in Sending =>
         call[x].cur \in call[x].todo /\ mem[x].jobs[JobOf(call[x].cur)] # <<>>

(* Of a job that no failover has loaded there is one object, and a row with an
   outcome has it from there. *)
Single(j) ==
    /\ \A d, e \in Driver : mem[d].jobs[j] # <<>> /\ mem[e].jobs[j] # <<>> => d = e
    /\ \A d \in Driver : DOMAIN mem[d].jobs[j] \subseteq {1}
    /\ jobRow[j] \in Final =>
         \A d \in Driver : \A i \in DOMAIN mem[d].jobs[j] : mem[d].jobs[j][i] \in Final

Keeper(c, d) ==
    /\ call[c].at = d /\ call[c].keyed
    /\ call[c].pc = "new" \/ call[c].job # None
OneKey(d) == \A b, c \in Caller : Keeper(b, d) /\ Keeper(c, d) => b = c
KeySet(d) ==
    \A c \in Caller :
        call[c].at = d /\ call[c].keyed /\ call[c].job # None => mem[d].key # None

(* A leader that has loaded the jobs, and has every row written since. *)
Leading(d) == d \in leads /\ d \notin overtaken /\ call[d].pc # "jobs"

KeyAtHand(d) ==
    /\ (\E j \in keyed : mem[d].jobs[j] # <<>>) => mem[d].key \in keyed
    /\ Leading(d) /\ Stored \cap keyed # {} => mem[d].key \in keyed

(* The row of a job says what the leader's table says, or a save is under way. *)
Outcome == {"COMPLETED", "FAILED"}
AnswerSaved(d, j) ==
    /\ Leading(d) /\ mem[d].jobs[j] # <<>> /\ Table(mem[d].jobs[j]) \in Outcome
    /\ Cardinality(members[j]) = 1 /\ jobRow[j] # "none"
    => \/ jobRow[j] = Table(mem[d].jobs[j])
       \/ \E p \in mem[d].saves : p.task \in members[j] /\ p.ji = Len(mem[d].jobs[j])

Parts ==
    /\ Typed /\ MembersInv
    /\ \A d \in Driver : JobsKnown(mem[d]) /\ TasksKnown(mem[d]) /\ ThreadsKnown(mem[d])
    /\ JobRows /\ TaskRows /\ Executed
    /\ \A c \in Caller : CallerInv(c)
    /\ \A x \in Driver : ResumeInv(x)
    /\ \A j \in Job \ resumed : Single(j)
Keys ==
    /\ \A d \in Driver \ raced : OneKey(d)
    /\ \A d \in Driver : KeySet(d) /\ KeyAtHand(d)
Answers == \A d \in Driver, j \in Job : AnswerSaved(d, j)

IInv == Parts /\ Keys /\ Answers
-----------------------------------------------------------------------------
LEMMA Types ==
    TypeOK <=>
        /\ alive \subseteq Driver /\ leads \subseteq alive
        /\ mem \in [Driver -> Memory] /\ call \in [Caller \cup Driver -> Thread]
        /\ agent \in [Agent -> AgentState]
        /\ members \in [Job -> SUBSET Task] /\ keyed \subseteq Job
        /\ jobRow \in [Job -> JobState \cup {"none"}]
        /\ taskRow \in [Task -> [state : TaskState \cup {"none"},
                                  node : Agent \cup {None, Here}]]
        /\ resumed \subseteq Job /\ raced \subseteq Driver /\ overtaken \subseteq Driver
BY DEF TypeOK, Memory, Save, TaskObject, Thread, AgentState

LEMMA PrimedTypes ==
    TypeOK' <=>
        /\ alive' \subseteq Driver /\ leads' \subseteq alive'
        /\ mem' \in [Driver -> Memory] /\ call' \in [Caller \cup Driver -> Thread]
        /\ agent' \in [Agent -> AgentState]
        /\ members' \in [Job -> SUBSET Task] /\ keyed' \subseteq Job
        /\ jobRow' \in [Job -> JobState \cup {"none"}]
        /\ taskRow' \in [Task -> [state : TaskState \cup {"none"},
                                   node : Agent \cup {None, Here}]]
        /\ resumed' \subseteq Job /\ raced' \subseteq Driver /\ overtaken' \subseteq Driver
BY DEF TypeOK, Memory, Save, TaskObject, Thread, AgentState

(* The job of a task is the one whose member it is. *)
LEMMA JobOfOwned ==
    ASSUME MembersInv, members \in [Job -> SUBSET Task]
    PROVE  /\ \A t \in Owned : JobOf(t) \in Job /\ t \in members[JobOf(t)] /\ t \in Task
           /\ \A j \in Job : \A t \in members[j] : JobOf(t) = j /\ t \in Owned
<1>1. ASSUME NEW j \in Job, NEW t \in members[j] PROVE JobOf(t) = j /\ t \in Owned
  <2>1. t \in Owned
    BY <1>1 DEF Owned
  <2>2. JobOf(t) \in Job /\ t \in members[JobOf(t)]
    BY <1>1 DEF JobOf
  <2>. QED
    BY <1>1, <2>1, <2>2 DEF MembersInv
<1>2. ASSUME NEW t \in Owned PROVE \E j \in Job : t \in members[j]
  BY <1>2 DEF Owned
<1>. QED
  BY <1>1, <1>2

LEMMA JobOfStays == members' = members => (\A t : JobOf(t)' = JobOf(t)) /\ Owned' = Owned
BY DEF JobOf, Owned

LEMMA NonemptySeq ==
    ASSUME NEW S, NEW s \in Seq(S)
    PROVE  /\ s # <<>> <=> 1 \in DOMAIN s
           /\ s # <<>> <=> Len(s) \in DOMAIN s
           /\ DOMAIN s = 1 .. Len(s) /\ Len(s) \in Nat
           /\ \A i \in DOMAIN s : s[i] \in S
BY LenProperties, EmptySeq

LEMMA SetJobObject ==
    ASSUME NEW m \in Memory
    PROVE  \A j \in Job : \A i \in DOMAIN m.jobs[j], s \in JobState :
             LET new == SetJob(m.jobs, j, i, s)
             IN  /\ new \in [Job -> Seq(JobState)]
                 /\ \A k \in Job :
                      /\ DOMAIN new[k] = DOMAIN m.jobs[k] /\ Len(new[k]) = Len(m.jobs[k])
                      /\ \A l \in DOMAIN m.jobs[k] :
                           new[k][l] = IF k = j /\ l = i THEN s ELSE m.jobs[k][l]
<1> SUFFICES ASSUME NEW j \in Job, NEW i \in DOMAIN m.jobs[j], NEW s \in JobState
             PROVE  /\ SetJob(m.jobs, j, i, s) \in [Job -> Seq(JobState)]
                    /\ \A k \in Job :
                         /\ DOMAIN SetJob(m.jobs, j, i, s)[k] = DOMAIN m.jobs[k]
                         /\ Len(SetJob(m.jobs, j, i, s)[k]) = Len(m.jobs[k])
                         /\ \A l \in DOMAIN m.jobs[k] : SetJob(m.jobs, j, i, s)[k][l] =
                              IF k = j /\ l = i THEN s ELSE m.jobs[k][l]
  OBVIOUS
<1>. m.jobs \in [Job -> Seq(JobState)]
  BY DEF Memory
<1> DEFINE new == [m.jobs[j] EXCEPT ![i] = s]
<1>1. i \in 1 .. Len(m.jobs[j])
  BY LenProperties
<1>2. new \in Seq(JobState) /\ Len(new) = Len(m.jobs[j])
      /\ \A l \in 1 .. Len(m.jobs[j]) : new[l] = IF l = i THEN s ELSE m.jobs[j][l]
  BY <1>1, ExceptSeq
<1>3. SetJob(m.jobs, j, i, s) = [m.jobs EXCEPT ![j] = new]
  BY DEF SetJob
<1>4. DOMAIN new = DOMAIN m.jobs[j]
  BY <1>2, LenProperties
<1> HIDE DEF new
<1>5. \A k \in Job : SetJob(m.jobs, j, i, s)[k] = IF k = j THEN new ELSE m.jobs[k]
  BY <1>3
<1>6. DOMAIN m.jobs[j] = 1 .. Len(m.jobs[j])
  BY LenProperties
<1>. QED
  BY <1>2, <1>3, <1>4, <1>5, <1>6

(* A task object gets the state s; its node stays. *)
LEMMA SetOne ==
    ASSUME NEW q \in Seq(TaskObject), NEW i \in DOMAIN q, NEW s \in TaskState
    PROVE  LET new == [q EXCEPT ![i].state = s]
           IN  /\ new \in Seq(TaskObject) /\ Len(new) = Len(q) /\ DOMAIN new = DOMAIN q
               /\ \A l \in DOMAIN q : l # i => new[l] = q[l]
               /\ new[i].state = s
<1> DEFINE o == [q[i] EXCEPT !.state = s]
           new == [q EXCEPT ![i] = o]
<1>1. i \in 1 .. Len(q) /\ q[i] \in TaskObject
  BY LenProperties, ElementOfSeq
<1>2. o \in TaskObject /\ o.state = s
  BY <1>1 DEF TaskObject
<1>3. [q EXCEPT ![i].state = s] = new
  OBVIOUS
<1> HIDE DEF o
<1>4. new \in Seq(TaskObject) /\ Len(new) = Len(q)
      /\ \A l \in 1 .. Len(q) : new[l] = IF l = i THEN o ELSE q[l]
  BY <1>1, <1>2, ExceptSeq
<1> HIDE DEF new
<1>5. DOMAIN q = 1 .. Len(q) /\ DOMAIN new = 1 .. Len(q)
  BY <1>4, LenProperties
<1>. QED
  BY <1>1, <1>2, <1>3, <1>4, <1>5

LEMMA SetTaskObject ==
    ASSUME NEW m \in Memory
    PROVE  \A t \in Task : \A i \in DOMAIN m.tasks[t], s \in TaskState :
             LET new == SetTask(m.tasks, t, i, s)
             IN  /\ new \in [Task -> Seq(TaskObject)]
                 /\ \A u \in Task :
                      /\ DOMAIN new[u] = DOMAIN m.tasks[u]
                      /\ \A l \in DOMAIN m.tasks[u] : new[u][l].state =
                           IF u = t /\ l = i THEN s ELSE m.tasks[u][l].state
<1> SUFFICES ASSUME NEW t \in Task, NEW i \in DOMAIN m.tasks[t], NEW s \in TaskState
             PROVE  /\ SetTask(m.tasks, t, i, s) \in [Task -> Seq(TaskObject)]
                    /\ \A u \in Task :
                         /\ DOMAIN SetTask(m.tasks, t, i, s)[u] = DOMAIN m.tasks[u]
                         /\ \A l \in DOMAIN m.tasks[u] :
                              SetTask(m.tasks, t, i, s)[u][l].state =
                              IF u = t /\ l = i THEN s ELSE m.tasks[u][l].state
  OBVIOUS
<1>. m.tasks \in [Task -> Seq(TaskObject)]
  BY DEF Memory
<1> DEFINE new == [m.tasks[t] EXCEPT ![i].state = s]
<1>1. /\ new \in Seq(TaskObject) /\ DOMAIN new = DOMAIN m.tasks[t]
      /\ \A l \in DOMAIN m.tasks[t] : l # i => new[l] = m.tasks[t][l]
      /\ new[i].state = s
  BY SetOne
<1>2. SetTask(m.tasks, t, i, s) = [m.tasks EXCEPT ![t] = new]
  BY DEF SetTask
<1> HIDE DEF new
<1>3. \A u \in Task : SetTask(m.tasks, t, i, s)[u] = IF u = t THEN new ELSE m.tasks[u]
  BY <1>2
<1>. QED
  BY <1>1, <1>2, <1>3

LEMMA SetTableObjects ==
    ASSUME NEW ts \in [Task -> Seq(TaskObject)], NEW us \in SUBSET Task,
           \A t \in us : ts[t] # <<>>, NEW s \in TaskState
    PROVE  /\ SetTables(ts, us, s) \in [Task -> Seq(TaskObject)]
           /\ \A u \in Task :
                /\ DOMAIN SetTables(ts, us, s)[u] = DOMAIN ts[u]
                /\ \A l \in DOMAIN ts[u] :
                     SetTables(ts, us, s)[u][l].state \in {s, ts[u][l].state}
<1> DEFINE new(t) == [ts[t] EXCEPT ![Len(ts[t])].state = s]
<1>1. ASSUME NEW t \in us
      PROVE  /\ new(t) \in Seq(TaskObject) /\ DOMAIN new(t) = DOMAIN ts[t]
             /\ \A l \in DOMAIN ts[t] : new(t)[l].state \in {s, ts[t][l].state}
  <2>1. Len(ts[t]) \in DOMAIN ts[t]
    BY NonemptySeq
  <2>. QED
    BY <2>1, SetOne
<1> HIDE DEF new
<1>2. SetTables(ts, us, s) = [t \in Task |-> IF t \in us THEN new(t) ELSE ts[t]]
  BY DEF SetTables, new
<1>. QED
  BY <1>1, <1>2
-----------------------------------------------------------------------------
(* Steps of one process: the record n replaces that of d.  Objects stay, get an
   outcome that has its cause, or are new ones with a task that is known; a
   handler that changes what the table says of a job of one task saves it. *)
Grow == facts' \in [Job -> SUBSET Cause] /\ \A j \in Job : facts[j] \subseteq facts'[j]

Moves(d, n) ==
    /\ n \in Memory
    /\ \A j \in Job :
         /\ n.list[j] \subseteq members[j] /\ \A t \in n.list[j] : n.tasks[t] # <<>>
         /\ DOMAIN n.jobs[j] = DOMAIN mem[d].jobs[j]
         /\ \A i \in DOMAIN n.jobs[j] :
              \/ n.jobs[j][i] = mem[d].jobs[j][i]
              \/ /\ Caused(facts', j, n.jobs[j][i])
                 /\ n.jobs[j][i] \in Final \/ jobRow[j] = "none"
    /\ \A t \in Task :
         /\ DOMAIN mem[d].tasks[t] \subseteq DOMAIN n.tasks[t]
         /\ \A i \in DOMAIN n.tasks[t] :
              t \in Owned /\ Ended(facts', t, n.tasks[t][i].state)
    /\ n.key = mem[d].key
    /\ ThreadsKnown(n)

SavesKept(d, n) ==
    \A p \in mem[d].saves : \E q \in n.saves : q.task = p.task /\ q.ji = p.ji
AnswerKept(d, n) ==
    /\ SavesKept(d, n)
    /\ \A j \in Job :
         Cardinality(members[j]) = 1 /\ n.jobs[j] # <<>> /\ Table(n.jobs[j]) \in Outcome =>
         \/ Table(n.jobs[j]) = Table(mem[d].jobs[j])
         \/ \E p \in n.saves : p.task \in members[j] /\ p.ji = Len(n.jobs[j])

LEMMA CausesGrow ==
    ASSUME Grow, MembersInv, members \in [Job -> SUBSET Task]
    PROVE  /\ \A j \in Job : \A s : Caused(facts, j, s) => Caused(facts', j, s)
           /\ \A t \in Owned : \A s : Ended(facts, t, s) => Ended(facts', t, s)
BY JobOfOwned DEF Grow, Caused, Ended

LEMMA StillMoves ==
    ASSUME Parts, Grow, NEW d \in Driver
    PROVE  Moves(d, mem[d]) /\ AnswerKept(d, mem[d])
<1>1. mem[d] \in Memory /\ members \in [Job -> SUBSET Task] /\ MembersInv
      /\ JobsKnown(mem[d]) /\ TasksKnown(mem[d]) /\ ThreadsKnown(mem[d])
  BY Types DEF Parts, Typed
<1>2. \A t \in Task : \A i \in DOMAIN mem[d].tasks[t] :
              t \in Owned /\ Ended(facts', t, mem[d].tasks[t][i].state)
  BY <1>1, CausesGrow DEF TasksKnown
<1>3. Moves(d, mem[d])
  BY <1>1, <1>2 DEF Moves, JobsKnown
<1>. QED
  BY <1>3 DEF AnswerKept, SavesKept

(* In a job of one task no other task of it is listed. *)
LEMMA OneTaskJob ==
    ASSUME Parts, NEW d \in Driver, NEW t \in Owned, Cardinality(members[JobOf(t)]) = 1
    PROVE  ~Several(d, t)
<1>1. JobOf(t) \in Job /\ members[JobOf(t)] \subseteq Task
      /\ mem[d].list[JobOf(t)] \subseteq members[JobOf(t)]
  BY JobOfOwned, Types DEF Parts, Typed, JobsKnown
<1>2. IsFiniteSet(members[JobOf(t)])
  BY <1>1, FailoverAssumption, FS_Subset
<1>3. /\ Cardinality(mem[d].list[JobOf(t)]) <= 1
      /\ Cardinality(mem[d].list[JobOf(t)]) \in Nat
  BY <1>1, <1>2, FS_Subset, FS_CardinalityType
<1>. QED
  BY <1>3 DEF Several

LEMMA ForgottenAgents ==
    ASSUME NEW agents \in [Agent -> AgentState], NEW d, NEW us
    PROVE  /\ Forgotten(agents, d, us) \in [Agent -> AgentState]
           /\ \A a \in Agent : Forgotten(agents, d, us)[a].execs = agents[a].execs
<1> DEFINE es(a) == agents[a].entry \ {u \in us : Table(mem[d].tasks[u]).node = a
                                                   /\ a \in mem[d].handles}
           new(a) == [agents[a] EXCEPT !.entry = es(a)]
<1>1. ASSUME NEW a \in Agent
      PROVE  new(a) \in AgentState /\ new(a).execs = agents[a].execs
  <2>1. es(a) \subseteq Task
    BY DEF AgentState
  <2> HIDE DEF es
  <2>. QED
    BY <2>1 DEF AgentState
<1>2. Forgotten(agents, d, us) = [a \in Agent |-> new(a)]
  BY DEF Forgotten
<1> HIDE DEF new
<1>. QED
  BY <1>1, <1>2

Runs(d, t) == Launched(t) /\ mem[d].tasks[t] # <<>> /\ mem[d].jobs[JobOf(t)] # <<>>
Backed(d, p) ==
    /\ Launched(p.task) /\ (p.ti = 0 \/ p.ti \in DOMAIN mem[d].tasks[p.task])
    /\ p.ji \in DOMAIN mem[d].jobs[JobOf(p.task)]

(* Threads and saves keep the objects they have. *)
LEMMA ThreadsStay ==
    ASSUME Parts, NEW d \in Driver, NEW n \in Memory,
           \A u \in Task : DOMAIN mem[d].tasks[u] \subseteq DOMAIN n.tasks[u],
           \A k \in Job : DOMAIN mem[d].jobs[k] \subseteq DOMAIN n.jobs[k],
           n.interrupted \subseteq n.local,
           \A u \in n.local : u \in mem[d].local \/ Runs(d, u),
           \A p \in n.saves : p \in mem[d].saves \/ Backed(d, p)
    PROVE  ThreadsKnown(n)
<1>1. /\ mem[d] \in Memory /\ members \in [Job -> SUBSET Task] /\ MembersInv
      /\ ThreadsKnown(mem[d])
  BY Types DEF Parts, Typed
<1>2. ASSUME NEW u \in n.local
      PROVE Launched(u) /\ n.tasks[u] # <<>> /\ n.jobs[JobOf(u)] # <<>>
  <2>1. Runs(d, u)
    BY <1>1, <1>2 DEF ThreadsKnown, Runs
  <2>2. u \in Task /\ JobOf(u) \in Job
    BY <1>1, <2>1, JobOfOwned DEF Launched, Runs
  <2>3. 1 \in DOMAIN mem[d].tasks[u] /\ 1 \in DOMAIN mem[d].jobs[JobOf(u)]
    BY <1>1, <2>1, <2>2, NonemptySeq DEF Memory, Runs
  <2>4. 1 \in DOMAIN n.tasks[u] /\ 1 \in DOMAIN n.jobs[JobOf(u)]
    BY <2>2, <2>3
  <2>. QED
    BY <2>1, <2>2, <2>4, NonemptySeq DEF Memory, Runs
<1>3. ASSUME NEW p \in n.saves
      PROVE /\ Launched(p.task) /\ (p.ti = 0 \/ p.ti \in DOMAIN n.tasks[p.task])
            /\ p.ji \in DOMAIN n.jobs[JobOf(p.task)]
  <2>1. Backed(d, p)
    BY <1>1, <1>3 DEF ThreadsKnown, Backed
  <2>2. p.task \in Task /\ JobOf(p.task) \in Job
    BY <1>1, <2>1, JobOfOwned DEF Launched, Backed
  <2>. QED
    BY <2>1, <2>2 DEF Backed
<1>. QED
  BY <1>2, <1>3 DEF ThreadsKnown

LEMMA CompletesAgents ==
    ASSUME NEW agents \in [Agent -> AgentState], NEW d, NEW t, NEW ti, NEW ji, NEW by,
           NEW threads, Completes(d, t, ti, ji, by, threads, agents)
    PROVE  /\ agent' \in [Agent -> AgentState]
           /\ \A a \in Agent : agent'[a].execs = agents[a].execs
BY ForgottenAgents DEF Completes

(* A handler changes states of objects, gives threads up and starts saves. *)
LEMMA ChangesMove ==
    ASSUME Parts, Grow, NEW d \in Driver, NEW n \in Memory,
           \A k \in Job :
              /\ DOMAIN n.jobs[k] = DOMAIN mem[d].jobs[k]
              /\ \A i \in DOMAIN mem[d].jobs[k] :
                   \/ n.jobs[k][i] = mem[d].jobs[k][i]
                   \/ /\ Caused(facts', k, n.jobs[k][i])
                      /\ n.jobs[k][i] \in Final \/ jobRow[k] = "none",
           \A u \in Task :
              /\ DOMAIN n.tasks[u] = DOMAIN mem[d].tasks[u]
              /\ \A i \in DOMAIN mem[d].tasks[u] :
                   \/ n.tasks[u][i].state = mem[d].tasks[u][i].state
                   \/ Ended(facts', u, n.tasks[u][i].state),
           n.list = mem[d].list, n.key = mem[d].key,
           n.interrupted \subseteq n.local,
           \A u \in n.local : u \in mem[d].local \/ Runs(d, u),
           \A p \in n.saves : p \in mem[d].saves \/ Backed(d, p)
    PROVE  Moves(d, n)
<1> DEFINE m == mem[d]
<1>1. /\ m \in Memory /\ members \in [Job -> SUBSET Task] /\ MembersInv
      /\ JobsKnown(m) /\ TasksKnown(m) /\ ThreadsKnown(m)
  BY Types DEF Parts, Typed
<1>2. ASSUME NEW k \in Job, NEW u \in n.list[k] PROVE n.tasks[u] # <<>>
  <2>1. u \in Task /\ m.tasks[u] # <<>>
    BY <1>1, <1>2 DEF JobsKnown
  <2>2. 1 \in DOMAIN m.tasks[u]
    BY <1>1, <2>1, NonemptySeq DEF Memory
  <2>. QED
    BY <2>1, <2>2, NonemptySeq DEF Memory
<1>3. ASSUME NEW u \in Task, NEW i \in DOMAIN n.tasks[u]
      PROVE  u \in Owned /\ Ended(facts', u, n.tasks[u][i].state)
  <2>1. u \in Owned /\ Ended(facts', u, m.tasks[u][i].state)
    BY <1>1, <1>3, CausesGrow DEF TasksKnown
  <2>. QED
    BY <2>1, <1>3
<1>4. ThreadsKnown(n)
  BY ThreadsStay
<1>5. \A k \in Job : n.list[k] \subseteq members[k]
  BY <1>1 DEF JobsKnown
<1>. QED
  BY <1>1, <1>2, <1>3, <1>4, <1>5 DEF Moves

(* The memory after a report: new tables, one task fewer known to run. *)
LEMMA AfterReport ==
    ASSUME NEW m \in Memory, NEW js \in [Job -> Seq(JobState)],
           NEW tasks \in [Task -> Seq(TaskObject)], NEW t, NEW threads \in SUBSET Task,
           NEW int \in SUBSET Task, NEW saves \in SUBSET Save
    PROVE  [m EXCEPT !.jobs = js, !.tasks = tasks, !.running = m.running \ {t},
                     !.local = threads, !.interrupted = int, !.saves = saves] \in Memory
  BY DEF Memory

LEMMA CompletesMoves ==
    ASSUME Parts, Grow, NEW d \in Driver, NEW t, Launched(t),
           NEW ti \in DOMAIN mem[d].tasks[t], NEW ji \in DOMAIN mem[d].jobs[JobOf(t)],
           NEW by \in Agent \cup Caller \cup Driver \cup {Here},
           NEW threads \in SUBSET mem[d].local, NEW agents,
           "returned" \in facts'[JobOf(t)],
           Completes(d, t, ti, ji, by, threads, agents)
    PROVE  \E n : mem' = [mem EXCEPT ![d] = n] /\ Moves(d, n) /\ AnswerKept(d, n)
<1> DEFINE m == mem[d]
           j == JobOf(t)
           others == IF Several(d, t) THEN Others(d, t) ELSE {}
<1>1. /\ m \in Memory /\ members \in [Job -> SUBSET Task] /\ MembersInv
      /\ JobsKnown(m) /\ TasksKnown(m) /\ ThreadsKnown(m)
  BY Types DEF Parts, Typed
<1>2. j \in Job /\ t \in Task /\ t \in Owned /\ t \in members[j]
  BY <1>1, JobOfOwned DEF Launched
<1>3. PICK done \in SUBSET others :
         /\ mem' = [mem EXCEPT ![d] = [m EXCEPT
              !.jobs = SetJob(m.jobs, JobOf(t), ji, "COMPLETED"),
              !.tasks = SetTables(SetTask(m.tasks, t, ti,
                  IF done # others /\ by = Here THEN "FAILED" ELSE "COMPLETED"),
                  done, "FAILED"),
              !.running = m.running \ {t},
              !.local = threads,
              !.interrupted = (m.interrupted \cup Interrupted(d, done)) \cap threads,
              !.saves = IF done = others \/ by = Here
                        THEN m.saves \cup {SaveRecord(t, ti, ji, by)} ELSE m.saves]]
         /\ agent' = Forgotten(agents, d, done)
  BY DEF Completes
<1> DEFINE ts == IF done # others /\ by = Here THEN "FAILED" ELSE "COMPLETED"
           js == SetJob(m.jobs, j, ji, "COMPLETED")
           tasks1 == SetTask(m.tasks, t, ti, ts)
           tasks2 == SetTables(tasks1, done, "FAILED")
           int == (m.interrupted \cup Interrupted(d, done)) \cap threads
           rec == SaveRecord(t, ti, ji, by)
           saves == IF done = others \/ by = Here THEN m.saves \cup {rec} ELSE m.saves
           n == [m EXCEPT !.jobs = js, !.tasks = tasks2, !.running = m.running \ {t},
                          !.local = threads, !.interrupted = int, !.saves = saves]
<1>4. done \subseteq m.list[j] /\ m.list[j] \subseteq Task
      /\ \A u \in done : m.tasks[u] # <<>>
  BY <1>1, <1>2 DEF Others, JobsKnown, Memory
<1>5. js \in [Job -> Seq(JobState)]
      /\ \A k \in Job : /\ DOMAIN js[k] = DOMAIN m.jobs[k] /\ Len(js[k]) = Len(m.jobs[k])
                        /\ \A l \in DOMAIN m.jobs[k] : js[k][l] =
                             IF k = j /\ l = ji THEN "COMPLETED" ELSE m.jobs[k][l]
  <2>1. "COMPLETED" \in JobState
    BY DEF JobState, Final
  <2>2. ji \in DOMAIN m.jobs[j]
    OBVIOUS
  <2> HIDE DEF m, j, js
  <2>3. PICK i \in DOMAIN m.jobs[j] : i = ji /\ js = SetJob(m.jobs, j, i, "COMPLETED")
    BY <2>2 DEF js
  <2>. QED
    BY <1>1, <1>2, <2>1, <2>3, SetJobObject
<1>6. tasks1 \in [Task -> Seq(TaskObject)]
      /\ \A u \in Task : /\ DOMAIN tasks1[u] = DOMAIN m.tasks[u]
                         /\ \A l \in DOMAIN m.tasks[u] : tasks1[u][l].state =
                              IF u = t /\ l = ti THEN ts ELSE m.tasks[u][l].state
  <2>1. ts \in TaskState
    BY DEF TaskState
  <2> HIDE DEF m, ts
  <2>. QED
    BY <1>1, <1>2, <2>1, SetTaskObject DEF m
<1> HIDE DEF ts
<1>7. ts \in {"FAILED", "COMPLETED"}
  BY DEF ts
<1>8. tasks2 \in [Task -> Seq(TaskObject)]
      /\ \A u \in Task : /\ DOMAIN tasks2[u] = DOMAIN tasks1[u]
                         /\ \A l \in DOMAIN tasks1[u] :
                              tasks2[u][l].state \in {"FAILED", tasks1[u][l].state}
  <2>1. \A u \in done : tasks1[u] # <<>>
    <3>1. ASSUME NEW u \in done PROVE tasks1[u] # <<>>
      <4>1. u \in Task /\ 1 \in DOMAIN m.tasks[u]
        BY <1>1, <1>4, NonemptySeq DEF Memory
      <4>. QED
        BY <4>1, <1>6, NonemptySeq
    <3>. QED
      BY <3>1
  <2>2. done \in SUBSET Task /\ "FAILED" \in TaskState
    BY <1>4 DEF TaskState
  <2>. QED
    BY <1>6, <2>1, <2>2, SetTableObjects
<1>9. rec \in Save /\ rec.task = t /\ rec.ti = ti /\ rec.ji = ji
  <2>1. ti \in Nat /\ ji \in Nat
    BY <1>1, <1>2, LenProperties DEF Memory
  <2>. QED
    BY <1>2, <2>1 DEF SaveRecord, Save
<1> HIDE DEF js, tasks1, tasks2, rec
<1>10. int \subseteq threads /\ threads \subseteq m.local /\ saves \subseteq m.saves \cup {rec}
       /\ m.saves \subseteq saves
  OBVIOUS
<1> HIDE DEF int, saves
<1>11. /\ n \in Memory /\ n.jobs = js /\ n.tasks = tasks2 /\ n.list = m.list /\ n.key = m.key
       /\ n.local = threads /\ n.interrupted = int /\ n.saves = saves
  <2>1. /\ n.jobs = js /\ n.tasks = tasks2 /\ n.list = m.list /\ n.key = m.key
        /\ n.local = threads /\ n.interrupted = int /\ n.saves = saves
    BY <1>1 DEF Memory
  <2>2. m.local \in SUBSET Task /\ m.saves \in SUBSET Save
    BY <1>1 DEF Memory
  <2>3. threads \in SUBSET Task /\ int \in SUBSET Task /\ saves \in SUBSET Save
    BY <1>9, <1>10, <2>2
  <2> HIDE DEF m
  <2>4. n \in Memory
    BY <1>1, <1>5, <1>8, <2>3, AfterReport
  <2>. QED
    BY <2>1, <2>4
<1>12. mem' = [mem EXCEPT ![d] = n]
  BY <1>3 DEF js, tasks1, tasks2, ts, int, saves, rec
<1> HIDE DEF n, m
<1>13. Moves(d, n)
  <2>1. ASSUME NEW k \in Job
        PROVE  /\ DOMAIN n.jobs[k] = DOMAIN m.jobs[k]
               /\ \A i \in DOMAIN m.jobs[k] :
                    \/ n.jobs[k][i] = m.jobs[k][i]
                    \/ /\ Caused(facts', k, n.jobs[k][i])
                       /\ n.jobs[k][i] \in Final \/ jobRow[k] = "none"
    <3>1. Caused(facts', j, "COMPLETED") /\ "COMPLETED" \in Final
      BY DEF Caused, Final
    <3>. QED
      BY <1>5, <1>11, <3>1
  <2>2. ASSUME NEW u \in Task
        PROVE  /\ DOMAIN n.tasks[u] = DOMAIN m.tasks[u]
               /\ \A i \in DOMAIN m.tasks[u] :
                    \/ n.tasks[u][i].state = m.tasks[u][i].state
                    \/ Ended(facts', u, n.tasks[u][i].state)
    <3>1. ASSUME NEW i \in DOMAIN m.tasks[u]
          PROVE  \/ tasks2[u][i].state = m.tasks[u][i].state
                 \/ Ended(facts', u, tasks2[u][i].state)
      <4>1. /\ tasks2[u][i].state \in {"FAILED", ts, m.tasks[u][i].state}
            /\ tasks2[u][i].state \in {"FAILED", m.tasks[u][i].state} \/ u = t
        <5>1. i \in DOMAIN tasks1[u] /\ (tasks1[u][i].state \in {ts, m.tasks[u][i].state})
          BY <1>6
        <5>2. tasks1[u][i].state = m.tasks[u][i].state \/ u = t
          BY <1>6
        <5>3. \/ tasks2[u][i].state = tasks1[u][i].state
              \/ tasks2[u][i].state = "FAILED"
          BY <1>8, <5>1
        <5>. QED
          BY <5>1, <5>2, <5>3
      <4>. QED
        BY <4>1, <1>7 DEF Ended
    <3>. QED
      BY <3>1, <1>6, <1>8, <1>11
  <2>3. \A p \in n.saves : p \in m.saves \/ Backed(d, p)
    BY <1>9, <1>10, <1>11 DEF Backed, m
  <2>. QED
    BY <1>10, <1>11, <2>1, <2>2, <2>3, ChangesMove DEF m
<1>14. AnswerKept(d, n)
  <2>1. SavesKept(d, n)
    BY <1>10, <1>11 DEF SavesKept, m
  <2>2. ASSUME NEW k \in Job, Cardinality(members[k]) = 1, n.jobs[k] # <<>>
        PROVE  \/ Table(n.jobs[k]) = Table(m.jobs[k])
               \/ \E p \in n.saves : p.task \in members[k] /\ p.ji = Len(n.jobs[k])
    <3>1. Len(n.jobs[k]) = Len(m.jobs[k]) /\ Len(n.jobs[k]) \in DOMAIN m.jobs[k]
      BY <1>5, <1>11, <2>2, NonemptySeq
    <3>2. CASE k = j /\ ji = Len(m.jobs[j])
      <4>1. ~Several(d, t)
        BY <1>2, <2>2, <3>2, OneTaskJob
      <4>2. saves = m.saves \cup {rec}
        BY <4>1 DEF saves
      <4>. QED
        BY <1>2, <1>9, <1>11, <3>1, <3>2, <4>2
    <3>3. CASE ~(k = j /\ ji = Len(m.jobs[j]))
      BY <1>5, <1>11, <3>1, <3>3 DEF Table
    <3>. QED
      BY <3>2, <3>3
  <2>. QED
    BY <2>1, <2>2 DEF AnswerKept, m
<1>. QED
  BY <1>12, <1>13, <1>14

LEMMA FailsMoves ==
    ASSUME Parts, Grow, NEW d \in Driver, NEW t, Launched(t),
           NEW ti, ti = 0 \/ ti \in DOMAIN mem[d].tasks[t],
           NEW ji \in DOMAIN mem[d].jobs[JobOf(t)],
           NEW by \in Agent \cup Caller \cup Driver \cup {Here},
           NEW threads \in SUBSET mem[d].local,
           "raised" \in facts'[JobOf(t)],
           Fails(d, t, ti, ji, by, threads)
    PROVE  \E n : mem' = [mem EXCEPT ![d] = n] /\ Moves(d, n) /\ AnswerKept(d, n)
<1> DEFINE m == mem[d]
           j == JobOf(t)
           goesOn == Several(d, t) /\ Others(d, t) # {}
           lastReplica == Several(d, t) /\ Others(d, t) = {}
           js == IF goesOn THEN m.jobs ELSE SetJob(m.jobs, j, ji, "FAILED")
           tasks == IF ti = 0 THEN m.tasks ELSE SetTask(m.tasks, t, ti, "FAILED")
           int == m.interrupted \cap threads
           rec == SaveRecord(t, ti, ji, by)
           saves == IF lastReplica THEN m.saves ELSE m.saves \cup {rec}
           n == [m EXCEPT !.jobs = js, !.tasks = tasks, !.running = m.running \ {t},
                          !.local = threads, !.interrupted = int, !.saves = saves]
<1>1. m \in Memory /\ members \in [Job -> SUBSET Task] /\ MembersInv
  BY Types DEF Parts, Typed
<1>2. j \in Job /\ t \in Task /\ t \in Owned /\ t \in members[j]
  BY <1>1, JobOfOwned DEF Launched
<1>3. mem' = [mem EXCEPT ![d] = n]
  BY DEF Fails
<1>4. js \in [Job -> Seq(JobState)]
      /\ \A k \in Job : /\ DOMAIN js[k] = DOMAIN m.jobs[k] /\ Len(js[k]) = Len(m.jobs[k])
                        /\ \A l \in DOMAIN m.jobs[k] :
                             \/ js[k][l] = m.jobs[k][l]
                             \/ k = j /\ l = ji /\ ~goesOn /\ js[k][l] = "FAILED"
  <2> HIDE DEF goesOn
  <2>1. CASE goesOn
    BY <1>1, <2>1 DEF Memory
  <2>2. CASE ~goesOn
    <3>1. "FAILED" \in JobState /\ js = SetJob(m.jobs, j, ji, "FAILED")
      BY <2>2 DEF JobState, Final
    <3> HIDE DEF m, js
    <3>. QED
      BY <1>1, <1>2, <2>2, <3>1, SetJobObject DEF m
  <2>. QED
    BY <2>1, <2>2
<1>5. tasks \in [Task -> Seq(TaskObject)]
      /\ \A u \in Task : /\ DOMAIN tasks[u] = DOMAIN m.tasks[u]
                         /\ \A l \in DOMAIN m.tasks[u] :
                              tasks[u][l].state \in {"FAILED", m.tasks[u][l].state}
  <2>1. CASE ti = 0
    BY <1>1, <2>1 DEF Memory
  <2>2. CASE ti # 0
    <3>1. "FAILED" \in TaskState /\ tasks = SetTask(m.tasks, t, ti, "FAILED")
      BY <2>2 DEF TaskState
    <3> HIDE DEF m, tasks
    <3>. QED
      BY <1>1, <1>2, <2>2, <3>1, SetTaskObject DEF m
  <2>. QED
    BY <2>1, <2>2
<1>6. rec \in Save /\ rec.task = t /\ rec.ti = ti /\ rec.ji = ji
  <2>1. ti \in Nat /\ ji \in Nat
    BY <1>1, <1>2, LenProperties DEF Memory
  <2>. QED
    BY <1>2, <2>1 DEF SaveRecord, Save
<1> HIDE DEF js, tasks, rec
<1>7. int \subseteq threads /\ threads \subseteq m.local /\ saves \subseteq m.saves \cup {rec}
      /\ m.saves \subseteq saves
  OBVIOUS
<1> HIDE DEF int, saves
<1>8. /\ n \in Memory /\ n.jobs = js /\ n.tasks = tasks /\ n.list = m.list /\ n.key = m.key
      /\ n.local = threads /\ n.interrupted = int /\ n.saves = saves
  <2>1. /\ n.jobs = js /\ n.tasks = tasks /\ n.list = m.list /\ n.key = m.key
        /\ n.local = threads /\ n.interrupted = int /\ n.saves = saves
    BY <1>1 DEF Memory
  <2>2. m.local \in SUBSET Task /\ m.saves \in SUBSET Save
    BY <1>1 DEF Memory
  <2>3. threads \in SUBSET Task /\ int \in SUBSET Task /\ saves \in SUBSET Save
    BY <1>6, <1>7, <2>2
  <2> HIDE DEF m
  <2>4. n \in Memory
    BY <1>1, <1>4, <1>5, <2>3, AfterReport
  <2>. QED
    BY <2>1, <2>4
<1> HIDE DEF n, m
<1>9. Moves(d, n)
  <2>1. ASSUME NEW k \in Job
        PROVE  /\ DOMAIN n.jobs[k] = DOMAIN m.jobs[k]
               /\ \A i \in DOMAIN m.jobs[k] :
                    \/ n.jobs[k][i] = m.jobs[k][i]
                    \/ /\ Caused(facts', k, n.jobs[k][i])
                       /\ n.jobs[k][i] \in Final \/ jobRow[k] = "none"
    <3>1. Caused(facts', j, "FAILED") /\ "FAILED" \in Final
      BY DEF Caused, Final
    <3>. QED
      BY <1>4, <1>8, <3>1
  <2>2. ASSUME NEW u \in Task
        PROVE  /\ DOMAIN n.tasks[u] = DOMAIN m.tasks[u]
               /\ \A i \in DOMAIN m.tasks[u] :
                    \/ n.tasks[u][i].state = m.tasks[u][i].state
                    \/ Ended(facts', u, n.tasks[u][i].state)
    BY <1>5, <1>8 DEF Ended
  <2>3. \A p \in n.saves : p \in m.saves \/ Backed(d, p)
    BY <1>6, <1>7, <1>8 DEF Backed, m
  <2>. QED
    BY <1>7, <1>8, <2>1, <2>2, <2>3, ChangesMove DEF m
<1>10. AnswerKept(d, n)
  <2>1. SavesKept(d, n)
    BY <1>7, <1>8 DEF SavesKept, m
  <2>2. ASSUME NEW k \in Job, Cardinality(members[k]) = 1, n.jobs[k] # <<>>
        PROVE  \/ Table(n.jobs[k]) = Table(m.jobs[k])
               \/ \E p \in n.saves : p.task \in members[k] /\ p.ji = Len(n.jobs[k])
    <3>1. Len(n.jobs[k]) = Len(m.jobs[k]) /\ Len(n.jobs[k]) \in DOMAIN m.jobs[k]
      BY <1>4, <1>8, <2>2, NonemptySeq
    <3>2. CASE k = j /\ ji = Len(m.jobs[j])
      <4>1. ~Several(d, t)
        BY <1>2, <2>2, <3>2, OneTaskJob
      <4>2. saves = m.saves \cup {rec}
        BY <4>1 DEF saves
      <4>. QED
        BY <1>2, <1>6, <1>8, <3>1, <3>2, <4>2
    <3>3. CASE ~(k = j /\ ji = Len(m.jobs[j]))
      BY <1>4, <1>8, <3>1, <3>3 DEF Table
    <3>. QED
      BY <3>2, <3>3
  <2>. QED
    BY <2>1, <2>2 DEF AnswerKept, m
<1>. QED
  BY <1>3, <1>9, <1>10

LEMMA CancelMoves ==
    ASSUME Parts, NEW d \in Driver, NEW j \in Job, Cancel(d, j)
    PROVE  /\ \E n : mem' = [mem EXCEPT ![d] = n] /\ Moves(d, n) /\ AnswerKept(d, n)
           /\ Grow
           /\ facts' = facts \/ facts' = [facts EXCEPT ![j] = @ \cup {"cancelled"}]
           /\ agent' \in [Agent -> AgentState]
           /\ \A a \in Agent : agent'[a].execs = agent[a].execs
<1> DEFINE m == mem[d]
           us == m.list[j]
<1>1. /\ m \in Memory /\ members \in [Job -> SUBSET Task] /\ MembersInv
      /\ JobsKnown(m) /\ ThreadsKnown(m) /\ facts \in [Job -> SUBSET Cause]
      /\ agent \in [Agent -> AgentState]
  BY Types DEF Parts, Typed
<1>2. PICK done \in SUBSET us :
         /\ mem' = [mem EXCEPT ![d] = [m EXCEPT
              !.tasks = SetTables(m.tasks, done, "FAILED"),
              !.interrupted = m.interrupted \cup Interrupted(d, done),
              !.jobs = IF done = us THEN SetJob(m.jobs, j, Len(m.jobs[j]), "CANCELLED")
                                    ELSE m.jobs]]
         /\ agent' = Forgotten(agent, d, done)
         /\ facts' = IF done = us THEN [facts EXCEPT ![j] = @ \cup {"cancelled"}] ELSE facts
  BY DEF Cancel
<1> DEFINE tasks == SetTables(m.tasks, done, "FAILED")
           int == m.interrupted \cup Interrupted(d, done)
           js == IF done = us THEN SetJob(m.jobs, j, Len(m.jobs[j]), "CANCELLED") ELSE m.jobs
           n == [m EXCEPT !.tasks = tasks, !.interrupted = int, !.jobs = js]
<1>3. mem' = [mem EXCEPT ![d] = n]
  BY <1>2
<1>4. Grow /\ (facts' = facts \/ facts' = [facts EXCEPT ![j] = @ \cup {"cancelled"}])
      /\ (done = us => "cancelled" \in facts'[j])
  BY <1>1, <1>2 DEF Grow, Cause
<1>5. js \in [Job -> Seq(JobState)]
      /\ \A k \in Job : /\ DOMAIN js[k] = DOMAIN m.jobs[k] /\ Len(js[k]) = Len(m.jobs[k])
                        /\ \A l \in DOMAIN m.jobs[k] :
                             \/ js[k][l] = m.jobs[k][l]
                             \/ k = j /\ js[k][l] = "CANCELLED" /\ done = us
  <2> HIDE DEF us
  <2>1. CASE done = us
    <3>1. "CANCELLED" \in JobState /\ js = SetJob(m.jobs, j, Len(m.jobs[j]), "CANCELLED")
      BY <2>1 DEF JobState, Final
    <3>2. Len(m.jobs[j]) \in DOMAIN m.jobs[j]
      BY <1>1, NonemptySeq DEF Cancel, JobKnown, Memory
    <3> HIDE DEF m, js
    <3>3. PICK i \in DOMAIN m.jobs[j] : js = SetJob(m.jobs, j, i, "CANCELLED")
      BY <3>1, <3>2
    <3>. QED
      BY <1>1, <2>1, <3>1, <3>3, SetJobObject
  <2>2. CASE done # us
    BY <1>1, <2>2 DEF Memory
  <2>. QED
    BY <2>1, <2>2
<1>6. tasks \in [Task -> Seq(TaskObject)]
      /\ \A u \in Task : /\ DOMAIN tasks[u] = DOMAIN m.tasks[u]
                         /\ \A l \in DOMAIN m.tasks[u] :
                              tasks[u][l].state \in {"FAILED", m.tasks[u][l].state}
  <2>1. /\ m.tasks \in [Task -> Seq(TaskObject)] /\ done \in SUBSET Task
        /\ \A u \in done : m.tasks[u] # <<>>
        /\ "FAILED" \in TaskState
    BY <1>1 DEF JobsKnown, Memory, TaskState
  <2> HIDE DEF m
  <2>. QED
    BY <2>1, SetTableObjects
<1> HIDE DEF js, tasks
<1>7. int \subseteq m.local /\ m.local \subseteq Task
  BY <1>1 DEF ThreadsKnown, Interrupted, Memory
<1> HIDE DEF int
<1>8. /\ n \in Memory /\ n.jobs = js /\ n.tasks = tasks /\ n.list = m.list /\ n.key = m.key
      /\ n.local = m.local /\ n.interrupted = int /\ n.saves = m.saves
  BY <1>1, <1>5, <1>6, <1>7 DEF Memory
<1> HIDE DEF n, m, us
<1>9. Moves(d, n)
  <2>1. ASSUME NEW k \in Job
        PROVE  /\ DOMAIN n.jobs[k] = DOMAIN m.jobs[k]
               /\ \A i \in DOMAIN m.jobs[k] :
                    \/ n.jobs[k][i] = m.jobs[k][i]
                    \/ /\ Caused(facts', k, n.jobs[k][i])
                       /\ n.jobs[k][i] \in Final \/ jobRow[k] = "none"
    <3>1. done = us => Caused(facts', j, "CANCELLED") /\ "CANCELLED" \in Final
      BY <1>4 DEF Caused, Final
    <3>. QED
      BY <1>5, <1>8, <3>1
  <2>2. ASSUME NEW u \in Task
        PROVE  /\ DOMAIN n.tasks[u] = DOMAIN m.tasks[u]
               /\ \A i \in DOMAIN m.tasks[u] :
                    \/ n.tasks[u][i].state = m.tasks[u][i].state
                    \/ Ended(facts', u, n.tasks[u][i].state)
    BY <1>6, <1>8 DEF Ended
  <2>. QED
    BY <1>4, <1>7, <1>8, <2>1, <2>2, ChangesMove DEF m
<1>10. AnswerKept(d, n)
  <2>1. SavesKept(d, n)
    BY <1>8 DEF SavesKept, m
  <2>2. ASSUME NEW k \in Job, n.jobs[k] # <<>>, Table(n.jobs[k]) \in Outcome
        PROVE  Table(n.jobs[k]) = Table(m.jobs[k])
    <3>1. Len(n.jobs[k]) = Len(m.jobs[k]) /\ Len(n.jobs[k]) \in DOMAIN m.jobs[k]
      BY <1>5, <1>8, <2>2, NonemptySeq
    <3>. QED
      BY <1>5, <1>8, <2>2, <3>1 DEF Table, Outcome
  <2>. QED
    BY <2>1, <2>2 DEF AnswerKept, m
<1>11. agent' \in [Agent -> AgentState] /\ \A a \in Agent : agent'[a].execs = agent[a].execs
  BY <1>1, <1>2, ForgottenAgents
<1>. QED
  BY <1>3, <1>4, <1>9, <1>10, <1>11
-----------------------------------------------------------------------------
(* What a step in which every process moves leaves as it is. *)
MovesAll == mem' \in [Driver -> Memory] /\ \A e \in Driver : Moves(e, mem'[e])
AnswersKept == \A e \in Driver : AnswerKept(e, mem'[e])

(* No submission comes to be placing. *)
PlacesShrink ==
    \A c \in Caller :
        call'[c].pc = "place" => call[c].pc = "place" /\ call'[c].job = call[c].job
SameJobs == UNCHANGED <<members, keyed, resumed>>
(* No submission looks the key up or enters a job. *)
SameKeepers ==
    \A c \in Caller :
        /\ call'[c].at = call[c].at /\ call'[c].keyed = call[c].keyed
        /\ call'[c].job = call[c].job /\ (call'[c].pc = "new" => call[c].pc = "new")

LEMMA OneMoves ==
    ASSUME Parts, Grow, NEW d \in Driver,
           \E n : mem' = [mem EXCEPT ![d] = n] /\ Moves(d, n) /\ AnswerKept(d, n)
    PROVE  MovesAll /\ AnswersKept
<1>1. PICK n : mem' = [mem EXCEPT ![d] = n] /\ Moves(d, n) /\ AnswerKept(d, n)
  OBVIOUS
<1>2. mem \in [Driver -> Memory] /\ n \in Memory
  BY <1>1, Types DEF Parts, Typed, Moves
<1>3. \A e \in Driver : mem'[e] = IF e = d THEN n ELSE mem[e]
  BY <1>1, <1>2
<1>4. mem' \in [Driver -> Memory]
  BY <1>1, <1>2
<1>5. ASSUME NEW e \in Driver PROVE Moves(e, mem'[e]) /\ AnswerKept(e, mem'[e])
  <2>1. CASE e = d
    BY <1>1, <1>3, <2>1
  <2>2. CASE e # d
    <3>1. mem'[e] = mem[e]
      BY <1>3, <2>2
    <3>. QED
      BY <3>1, StillMoves
  <2>. QED
    BY <2>1, <2>2
<1>. QED
  BY <1>4, <1>5 DEF MovesAll, AnswersKept

LEMMA NoneMoves ==
    ASSUME Parts, Grow, UNCHANGED mem
    PROVE  MovesAll /\ AnswersKept
<1>1. mem \in [Driver -> Memory]
  BY Types DEF Parts, Typed
<1>. QED
  BY <1>1, StillMoves DEF MovesAll, AnswersKept

LEMMA GrowStill == Parts /\ UNCHANGED facts => Grow
BY DEF Parts, Typed, Grow

LEMMA LaunchedStays ==
    ASSUME members' = members, PlacesShrink, NEW t, Launched(t)
    PROVE  Launched(t)'
BY JobOfStays DEF Launched, PlacesShrink

LEMMA MembersStay ==
    ASSUME MembersInv, SameJobs
    PROVE  MembersInv'
BY DEF MembersInv, SameJobs

LEMMA MemoryStays ==
    ASSUME Parts, Grow, MovesAll, SameJobs, PlacesShrink, NEW d \in Driver
    PROVE  JobsKnown(mem[d])' /\ TasksKnown(mem[d])' /\ ThreadsKnown(mem[d])'
<1> DEFINE n == mem'[d]
<1>1. n \in Memory /\ Moves(d, n)
  BY DEF MovesAll
<1>2. members' = members /\ Owned' = Owned /\ \A t : JobOf(t)' = JobOf(t)
  BY JobOfStays DEF SameJobs
<1>3. mem[d] \in Memory /\ JobsKnown(mem[d])
  BY Types DEF Parts, Typed
<1>4. JobsKnown(mem[d])'
  <2>1. ASSUME NEW j \in Job
        PROVE  /\ n.list[j] \subseteq members[j] /\ \A t \in n.list[j] : n.tasks[t] # <<>>
               /\ \A i \in DOMAIN n.jobs[j] : members[j] # {} /\ Caused(facts', j, n.jobs[j][i])
    <3>1. ASSUME NEW i \in DOMAIN n.jobs[j]
          PROVE members[j] # {} /\ Caused(facts', j, n.jobs[j][i])
      <4>1. i \in DOMAIN mem[d].jobs[j]
        BY <1>1, <3>1 DEF Moves
      <4>2. members[j] # {} /\ Caused(facts, j, mem[d].jobs[j][i])
        BY <1>3, <4>1 DEF JobsKnown
      <4>3. Caused(facts', j, n.jobs[j][i]) \/ n.jobs[j][i] = mem[d].jobs[j][i]
        BY <1>1, <3>1 DEF Moves
      <4>4. Caused(facts', j, mem[d].jobs[j][i])
        BY <4>2 DEF Grow, Caused
      <4>. QED
        BY <4>2, <4>3, <4>4
    <3>. QED
      BY <1>1, <3>1 DEF Moves
  <2>. QED
    BY <1>2, <2>1 DEF JobsKnown, Caused
<1>5. TasksKnown(mem[d])'
  BY <1>1, <1>2 DEF Moves, TasksKnown, Ended
<1>6. ThreadsKnown(mem[d])'
  <2>1. ThreadsKnown(n)
    BY <1>1 DEF Moves
  <2>2. members' = members
    BY <1>2
  <2>3. \A t : Launched(t) => Launched(t)'
    BY <2>2, LaunchedStays
  <2>. QED
    BY <1>2, <2>1, <2>3 DEF ThreadsKnown
<1>. QED
  BY <1>4, <1>5, <1>6

LEMMA JobRowsStay ==
    ASSUME Parts, Grow, SameJobs, PlacesShrink, jobRow' = jobRow
    PROVE  JobRows'
<1>1. \A j \in Job : \A s : Caused(facts, j, s) => Caused(facts', j, s)
  BY DEF Grow, Caused
<1>. QED
  BY <1>1 DEF Parts, JobRows, SameJobs, PlacesShrink, Caused

LEMMA TaskRowsStay ==
    ASSUME Parts, Grow, SameJobs, PlacesShrink, taskRow' = taskRow
    PROVE  TaskRows'
<1>1. MembersInv /\ members \in [Job -> SUBSET Task] /\ TaskRows /\ members' = members
  BY Types DEF Parts, Typed, SameJobs
<1>2. \A t : Launched(t) => Launched(t)'
  BY <1>1, LaunchedStays
<1>3. \A t : JobOf(t)' = JobOf(t)
  BY <1>1, JobOfStays
<1>4. \A t : Launched(t) => \A s : Ended(facts, t, s) => Ended(facts', t, s)
  BY <1>1, CausesGrow DEF Launched
<1>. QED
  BY <1>1, <1>2, <1>3, <1>4 DEF TaskRows, Ended

LEMMA ExecutedStays ==
    ASSUME SameJobs, PlacesShrink,
           \A a \in Agent, t \in Task : agent'[a].execs[t] > 0 => Launched(t)
    PROVE  Executed'
<1>1. \A t : Launched(t) => Launched(t)'
  BY LaunchedStays DEF SameJobs
<1>. QED
  BY <1>1 DEF Executed

(* Objects that a thread has are there after the step. *)
LEMMA ObjectsStay ==
    ASSUME Parts, MovesAll, NEW d \in Driver
    PROVE  /\ \A j \in Job : mem'[d].jobs[j] # <<>> <=> mem[d].jobs[j] # <<>>
           /\ \A t \in Task : mem[d].tasks[t] # <<>> => mem'[d].tasks[t] # <<>>
<1>1. mem[d] \in Memory /\ mem'[d] \in Memory /\ Moves(d, mem'[d])
  BY Types DEF Parts, Typed, MovesAll
<1>2. ASSUME NEW j \in Job PROVE mem'[d].jobs[j] # <<>> <=> mem[d].jobs[j] # <<>>
  <2>1. DOMAIN mem'[d].jobs[j] = DOMAIN mem[d].jobs[j]
    BY <1>1 DEF Moves
  <2>2. mem[d].jobs[j] \in Seq(JobState) /\ mem'[d].jobs[j] \in Seq(JobState)
    BY <1>1 DEF Memory
  <2>. QED
    BY <2>1, <2>2, NonemptySeq
<1>3. ASSUME NEW t \in Task, mem[d].tasks[t] # <<>> PROVE mem'[d].tasks[t] # <<>>
  <2>1. DOMAIN mem[d].tasks[t] \subseteq DOMAIN mem'[d].tasks[t]
    BY <1>1 DEF Moves
  <2>2. mem[d].tasks[t] \in Seq(TaskObject) /\ mem'[d].tasks[t] \in Seq(TaskObject)
    BY <1>1 DEF Memory
  <2>. QED
    BY <1>3, <2>1, <2>2, NonemptySeq
<1>. QED
  BY <1>2, <1>3

(* A thread that does not move keeps what it has. *)
LEMMA CallerKept ==
    ASSUME Parts, NEW c \in Caller, call'[c] = call[c],
           \A j \in Job : members[j] \subseteq members'[j],
           \A t \in Task : Launched(t) => Launched(t)',
           call[c].pc \in Holding =>
             /\ mem'[call[c].at].jobs[call[c].job] # <<>>
             /\ \A t \in call[c].todo : mem'[call[c].at].tasks[t] # <<>>,
           call[c].pc = "place" =>
             \A b \in Caller : call'[b].pc = "place" /\ call'[b].job = call[c].job => b = c
    PROVE  CallerInv(c)'
<1>1. CallerInv(c) /\ call[c] \in Thread
  BY Types DEF Parts, Typed
<1>2. call[c].todo \subseteq Task
  BY <1>1 DEF Thread
<1>. QED
  BY <1>1, <1>2 DEF CallerInv

LEMMA ResumeKept ==
    ASSUME Parts, NEW x \in Driver, call'[x] = call[x],
           \A t \in Task : Launched(t) => Launched(t)' /\ JobOf(t)' = JobOf(t),
           call[x].pc \in Sending => mem'[x].jobs[JobOf(call[x].cur)] # <<>>
    PROVE  ResumeInv(x)'
<1>1. ResumeInv(x) /\ call[x] \in Thread
  BY Types DEF Parts, Typed
<1>2. call[x].todo \subseteq Task
  BY <1>1 DEF Thread
<1>3. call[x].pc \in Sending => call[x].cur \in call[x].todo /\ Launched(call[x].cur)
  BY <1>1 DEF ResumeInv
<1>. QED
  BY <1>1, <1>2, <1>3 DEF ResumeInv

LEMMA CallerStays ==
    ASSUME Parts, MovesAll, SameJobs, PlacesShrink, NEW c \in Caller, call'[c] = call[c]
    PROVE  CallerInv(c)'
<1>1. CallerInv(c) /\ call[c] \in Thread /\ members' = members
  BY Types DEF Parts, Typed, SameJobs
<1>2. \A t \in Task : Launched(t) => Launched(t)'
  BY <1>1, LaunchedStays
<1>3. call[c].pc \in Holding =>
         /\ mem'[call[c].at].jobs[call[c].job] # <<>>
         /\ \A t \in call[c].todo : mem'[call[c].at].tasks[t] # <<>>
  <2>1. SUFFICES ASSUME call[c].pc \in Holding
                 PROVE /\ mem'[call[c].at].jobs[call[c].job] # <<>>
                       /\ \A t \in call[c].todo : mem'[call[c].at].tasks[t] # <<>>
    OBVIOUS
  <2>2. /\ call[c].at \in Driver /\ call[c].job \in Job /\ call[c].todo \subseteq Task
        /\ mem[call[c].at].jobs[call[c].job] # <<>>
        /\ \A t \in call[c].todo : mem[call[c].at].tasks[t] # <<>>
    BY <1>1, <2>1 DEF CallerInv, Thread
  <2>. QED
    BY <2>2, ObjectsStay
<1>4. call[c].pc = "place" =>
        \A b \in Caller : call'[b].pc = "place" /\ call'[b].job = call[c].job => b = c
  BY <1>1 DEF CallerInv, PlacesShrink
<1>. QED
  BY <1>1, <1>2, <1>3, <1>4, CallerKept

LEMMA ResumeStays ==
    ASSUME Parts, MovesAll, SameJobs, PlacesShrink, NEW x \in Driver, call'[x] = call[x]
    PROVE  ResumeInv(x)'
<1>1. ResumeInv(x) /\ members' = members /\ members \in [Job -> SUBSET Task] /\ MembersInv
  BY Types DEF Parts, Typed, SameJobs
<1>2. \A t \in Task : Launched(t) => Launched(t)' /\ JobOf(t)' = JobOf(t)
  BY <1>1, LaunchedStays, JobOfStays
<1>3. call[x].pc \in Sending => mem'[x].jobs[JobOf(call[x].cur)] # <<>>
  <2>1. SUFFICES ASSUME call[x].pc \in Sending
                 PROVE mem'[x].jobs[JobOf(call[x].cur)] # <<>>
    OBVIOUS
  <2>2. Launched(call[x].cur) /\ mem[x].jobs[JobOf(call[x].cur)] # <<>>
    BY <1>1, <2>1 DEF ResumeInv
  <2>3. JobOf(call[x].cur) \in Job
    BY <1>1, <2>2, JobOfOwned DEF Launched
  <2>. QED
    BY <2>2, <2>3, ObjectsStay
<1>. QED
  BY <1>2, <1>3, ResumeKept

LEMMA SingleStays ==
    ASSUME Parts, MovesAll, SameJobs, jobRow' = jobRow, NEW j \in Job, j \notin resumed
    PROVE  Single(j)'
<1>1. Single(j) /\ mem \in [Driver -> Memory]
  BY Types DEF Parts, Typed
<1>2. \A d \in Driver : mem'[d].jobs[j] # <<>> <=> mem[d].jobs[j] # <<>>
  BY ObjectsStay
<1>3. \A d \in Driver : DOMAIN mem'[d].jobs[j] = DOMAIN mem[d].jobs[j]
  BY DEF MovesAll, Moves
<1>4. ASSUME jobRow[j] \in Final, NEW d \in Driver, NEW i \in DOMAIN mem'[d].jobs[j]
      PROVE  mem'[d].jobs[j][i] \in Final
  <2>1. mem[d].jobs[j][i] \in Final
    BY <1>1, <1>3, <1>4 DEF Single
  <2>2. jobRow[j] # "none"
    BY <1>4 DEF Final
  <2>. QED
    BY <2>1, <2>2 DEF MovesAll, Moves
<1>. QED
  BY <1>1, <1>2, <1>3, <1>4 DEF Single

LEMMA KeysStay ==
    ASSUME Parts, Keys, MovesAll, SameJobs, Stored' = Stored, SameKeepers,
           raced' = raced, \A d \in Driver : Leading(d)' => Leading(d)
    PROVE  Keys'
<1>1. ASSUME NEW d \in Driver PROVE KeySet(d)' /\ KeyAtHand(d)'
  <2>1. mem'[d].key = mem[d].key
    BY DEF MovesAll, Moves
  <2>2. \A j \in Job : mem'[d].jobs[j] # <<>> <=> mem[d].jobs[j] # <<>>
    BY ObjectsStay
  <2>3. keyed' = keyed /\ keyed \subseteq Job
    BY Types DEF SameJobs, Parts, Typed
  <2>4. KeySet(d) /\ KeyAtHand(d)
    BY DEF Keys
  <2>5. KeySet(d)'
    BY <2>1, <2>4 DEF KeySet, SameKeepers
  <2>6. KeyAtHand(d)'
    BY <2>1, <2>2, <2>3, <2>4 DEF KeyAtHand
  <2>. QED
    BY <2>5, <2>6
<1>2. ASSUME NEW d \in Driver, d \notin raced PROVE OneKey(d)'
  <2>1. OneKey(d)
    BY <1>2 DEF Keys
  <2>2. \A c \in Caller : Keeper(c, d)' => Keeper(c, d)
    BY DEF SameKeepers, Keeper
  <2>. QED
    BY <2>1, <2>2 DEF OneKey
<1>. QED
  BY <1>1, <1>2 DEF Keys

LEMMA AnswersStay ==
    ASSUME Parts, Answers, MovesAll, AnswersKept, SameJobs, jobRow' = jobRow,
           \A d \in Driver : Leading(d)' => Leading(d)
    PROVE  Answers'
<1> SUFFICES ASSUME NEW d \in Driver, NEW j \in Job, Leading(d), mem'[d].jobs[j] # <<>>,
                    Table(mem'[d].jobs[j]) \in Outcome,
                    Cardinality(members[j]) = 1, jobRow[j] # "none"
             PROVE  \/ jobRow[j] = Table(mem'[d].jobs[j])
                    \/ \E p \in mem'[d].saves :
                          p.task \in members[j] /\ p.ji = Len(mem'[d].jobs[j])
  BY DEF Answers, AnswerSaved, SameJobs
<1> DEFINE n == mem'[d]
<1>1. mem[d] \in Memory /\ n \in Memory /\ Moves(d, n) /\ AnswerKept(d, n)
  BY Types DEF Parts, Typed, MovesAll, AnswersKept
<1>2. mem[d].jobs[j] # <<>> /\ Len(n.jobs[j]) = Len(mem[d].jobs[j])
  <2>1. /\ mem[d].jobs[j] \in Seq(JobState) /\ n.jobs[j] \in Seq(JobState)
        /\ DOMAIN n.jobs[j] = DOMAIN mem[d].jobs[j]
    BY <1>1 DEF Memory, Moves
  <2>2. mem[d].jobs[j] # <<>>
    BY ObjectsStay
  <2>. QED
    BY <2>1, <2>2, LenProperties
<1>3. CASE Table(n.jobs[j]) = Table(mem[d].jobs[j])
  <2>1. AnswerSaved(d, j)
    BY DEF Answers
  <2>2. \/ jobRow[j] = Table(mem[d].jobs[j])
        \/ \E p \in mem[d].saves : p.task \in members[j] /\ p.ji = Len(mem[d].jobs[j])
    BY <1>2, <1>3, <2>1 DEF AnswerSaved
  <2>. QED
    BY <1>1, <1>2, <1>3, <2>2 DEF AnswerKept, SavesKept
<1>4. CASE \E p \in n.saves : p.task \in members[j] /\ p.ji = Len(n.jobs[j])
  BY <1>4
<1>. QED
  BY <1>1, <1>3, <1>4 DEF AnswerKept
-----------------------------------------------------------------------------
(* Steps of threads. *)
CallsHold ==
    /\ call' \in [Caller \cup Driver -> Thread] /\ PlacesShrink
    /\ \A c \in Caller : CallerInv(c)'
    /\ \A x \in Driver : ResumeInv(x)'

LEMMA CallsSame ==
    ASSUME Parts, MovesAll, SameJobs, UNCHANGED call
    PROVE  CallsHold /\ SameKeepers
<1>1. PlacesShrink /\ SameKeepers
  BY DEF PlacesShrink, SameKeepers
<1>2. call' \in [Caller \cup Driver -> Thread]
  BY Types DEF Parts, Typed
<1>3. ASSUME NEW c \in Caller PROVE CallerInv(c)'
  BY <1>1, CallerStays
<1>4. ASSUME NEW x \in Driver PROVE ResumeInv(x)'
  BY <1>1, ResumeStays
<1>. QED
  BY <1>1, <1>2, <1>3, <1>4 DEF CallsHold

LEMMA OneCall ==
    ASSUME Parts, NEW x \in Caller \cup Driver, NEW v \in Thread,
           call' = [call EXCEPT ![x] = v]
    PROVE  /\ call' \in [Caller \cup Driver -> Thread]
           /\ call'[x] = v /\ \A y \in Caller \cup Driver : y # x => call'[y] = call[y]
<1>1. call \in [Caller \cup Driver -> Thread]
  BY Types DEF Parts, Typed
<1>. QED
  BY <1>1

(* A thread that has placed its tasks goes on with them. *)
LEMMA CallerMoves ==
    ASSUME Parts, MovesAll, SameJobs, NEW x \in Caller, NEW v \in Thread,
           call' = [call EXCEPT ![x] = v],
           v.at = call[x].at, v.keyed = call[x].keyed, v.job = call[x].job,
           call[x].pc \in Holding \ {"place"},
           v.pc \in {"saveTask", "dispatch", "lost", "failing", "done"},
           v.todo \subseteq call[x].todo, v.pc \in Sending => v.cur \in v.todo
    PROVE  CallsHold /\ SameKeepers
<1>1. /\ call' \in [Caller \cup Driver -> Thread]
      /\ call'[x] = v /\ \A y \in Caller \cup Driver : y # x => call'[y] = call[y]
  BY OneCall
<1>2. PlacesShrink /\ SameKeepers
  BY <1>1 DEF PlacesShrink, SameKeepers
<1>3. members' = members
  BY DEF SameJobs
<1>4. ASSUME NEW c \in Caller PROVE CallerInv(c)'
  <2>1. CASE c # x
    BY <1>1, <1>2, <2>1, CallerStays
  <2>2. CASE c = x
    <3>1. CallerInv(x) /\ call[x] \in Thread /\ call[x].pc \in Holding
      BY Types DEF Parts, Typed
    <3>2. /\ call[x].at \in Driver /\ call[x].job \in Job
          /\ call[x].todo \subseteq members[call[x].job] /\ call[x].todo \subseteq Task
          /\ mem[call[x].at].jobs[call[x].job] # <<>>
          /\ \A t \in call[x].todo : mem[call[x].at].tasks[t] # <<>>
          /\ \A t \in call[x].todo : Launched(t)
      BY <3>1 DEF CallerInv, Thread
    <3>3. /\ mem'[call[x].at].jobs[call[x].job] # <<>>
          /\ \A t \in call[x].todo : mem'[call[x].at].tasks[t] # <<>>
      BY <3>2, ObjectsStay
    <3>4. \A t : Launched(t) => Launched(t)'
      BY <1>2, <1>3, LaunchedStays
    <3>. QED
      BY <1>1, <1>3, <2>2, <3>2, <3>3, <3>4 DEF CallerInv
  <2>. QED
    BY <2>1, <2>2
<1>5. ASSUME NEW y \in Driver PROVE ResumeInv(y)'
  <2>1. y # x
    BY FailoverAssumption
  <2>. QED
    BY <1>1, <1>2, <2>1, ResumeStays
<1>. QED
  BY <1>1, <1>2, <1>4, <1>5 DEF CallsHold

LEMMA ResumeMoves ==
    ASSUME Parts, MovesAll, SameJobs, NEW x \in Driver, NEW v \in Thread,
           call' = [call EXCEPT ![x] = v],
           v.pc # "idle" => v.at = x, \A t \in v.todo : Launched(t),
           v.pc \in Sending => v.cur \in v.todo /\ mem[x].jobs[JobOf(v.cur)] # <<>>
    PROVE  CallsHold /\ SameKeepers
<1>1. /\ call' \in [Caller \cup Driver -> Thread]
      /\ call'[x] = v /\ \A y \in Caller \cup Driver : y # x => call'[y] = call[y]
  BY OneCall
<1>2. x \notin Caller
  BY FailoverAssumption
<1>3. PlacesShrink /\ SameKeepers
  BY <1>1, <1>2 DEF PlacesShrink, SameKeepers
<1>4. members' = members /\ MembersInv /\ members \in [Job -> SUBSET Task]
  BY Types DEF SameJobs, Parts, Typed
<1>5. \A c \in Caller : CallerInv(c)'
  BY <1>1, <1>2, <1>3, CallerStays
<1>6. ASSUME NEW y \in Driver PROVE ResumeInv(y)'
  <2>1. CASE y # x
    BY <1>1, <1>3, <2>1, ResumeStays
  <2>2. CASE y = x
    <3>1. \A t : Launched(t) => Launched(t)'
      BY <1>3, <1>4, LaunchedStays
    <3>2. \A t : JobOf(t)' = JobOf(t)
      BY <1>4, JobOfStays
    <3>3. v.pc \in Sending => mem'[x].jobs[JobOf(v.cur)] # <<>>
      <4>1. SUFFICES ASSUME v.pc \in Sending PROVE mem'[x].jobs[JobOf(v.cur)] # <<>>
        OBVIOUS
      <4>2. Launched(v.cur) /\ mem[x].jobs[JobOf(v.cur)] # <<>>
        BY <4>1
      <4>3. JobOf(v.cur) \in Job
        BY <1>4, <4>2, JobOfOwned DEF Launched
      <4>. QED
        BY <4>2, <4>3, ObjectsStay
    <3>. QED
      BY <1>1, <2>2, <3>1, <3>2, <3>3 DEF ResumeInv
  <2>. QED
    BY <2>1, <2>2
<1>. QED
  BY <1>1, <1>3, <1>5, <1>6 DEF CallsHold

(* The thread x goes on after a dispatch. *)
LEMMA OnwardMoves ==
    ASSUME Parts, MovesAll, SameJobs, NEW x \in Caller \cup Driver, call[x].pc \in Sending,
           call' = Onward(x)
    PROVE  CallsHold /\ SameKeepers
<1> DEFINE todo == call[x].todo \ {call[x].cur}
           pc == IF todo # {} THEN (IF x \in Driver THEN "next" ELSE "saveTask")
                 ELSE IF x \in Driver THEN "idle" ELSE "done"
           v == [call[x] EXCEPT !.todo = todo, !.cur = None, !.pc = pc]
<1>1. call[x] \in Thread /\ call' = [call EXCEPT ![x] = v]
  BY Types DEF Parts, Typed, Onward
<1>2. /\ pc \in {"next", "saveTask", "idle", "done"} /\ (x \notin Driver => pc \in {"saveTask", "done"})
      /\ todo \subseteq call[x].todo
  OBVIOUS
<1> HIDE DEF pc, todo
<1>3. /\ v \in Thread /\ v.pc = pc /\ v.todo = todo /\ v.at = call[x].at
      /\ v.keyed = call[x].keyed /\ v.job = call[x].job
  BY <1>1, <1>2 DEF Thread
<1> HIDE DEF v
<1>4. CASE x \in Caller
  <2>1. x \notin Driver /\ call[x].pc \in Holding \ {"place"}
    BY <1>4, FailoverAssumption DEF Sending, Holding
  <2>. QED
    BY <1>1, <1>2, <1>3, <1>4, <2>1, CallerMoves DEF Sending
<1>5. CASE x \in Driver
  <2>1. ResumeInv(x)
    BY <1>5 DEF Parts
  <2>2. call[x].at = x /\ \A t \in v.todo : Launched(t)
    BY <1>2, <1>3, <2>1 DEF ResumeInv, Sending
  <2>. QED
    BY <1>1, <1>2, <1>3, <1>5, <2>2, ResumeMoves DEF Sending
<1>. QED
  BY <1>4, <1>5

(* Only the pc of the thread x changes, to another one of a dispatch. *)
LEMMA SendingMoves ==
    ASSUME Parts, MovesAll, SameJobs, NEW x \in Caller \cup Driver, call[x].pc \in Sending,
           NEW pc \in Sending, call' = [call EXCEPT ![x].pc = pc]
    PROVE  CallsHold /\ SameKeepers
<1> DEFINE v == [call[x] EXCEPT !.pc = pc]
<1>1. call[x] \in Thread /\ call' = [call EXCEPT ![x] = v]
  BY Types DEF Parts, Typed
<1>2. /\ v \in Thread /\ v.pc = pc /\ v.todo = call[x].todo /\ v.at = call[x].at
      /\ v.keyed = call[x].keyed /\ v.job = call[x].job /\ v.cur = call[x].cur
  BY <1>1 DEF Thread, Sending
<1> HIDE DEF v
<1>3. CASE x \in Caller
  <2>1. call[x].pc \in Holding \ {"place"} /\ CallerInv(x)
    BY <1>3 DEF Sending, Holding, Parts
  <2>2. call[x].cur \in call[x].todo
    BY <2>1 DEF CallerInv
  <2>. QED
    BY <1>1, <1>2, <1>3, <2>1, <2>2, CallerMoves DEF Sending
<1>4. CASE x \in Driver
  <2>1. ResumeInv(x)
    BY <1>4 DEF Parts
  <2>2. /\ call[x].at = x /\ \A t \in v.todo : Launched(t)
        /\ v.cur \in v.todo /\ mem[x].jobs[JobOf(v.cur)] # <<>>
    BY <1>2, <2>1 DEF ResumeInv, Sending
  <2>. QED
    BY <1>1, <1>2, <1>4, <2>2, ResumeMoves
<1>. QED
  BY <1>3, <1>4
-----------------------------------------------------------------------------
(* A step that writes no row of a job and enters none. *)
Quiet ==
    /\ Grow /\ MovesAll /\ AnswersKept /\ SameJobs /\ SameKeepers /\ CallsHold
    /\ UNCHANGED <<jobRow, raced>> /\ overtaken' \subseteq Driver
    /\ \A d \in Driver : Leading(d)' => Leading(d)
    /\ alive' \subseteq Driver /\ leads' \subseteq alive'
    /\ agent' \in [Agent -> AgentState]
    /\ \A a \in Agent, t \in Task : agent'[a].execs[t] > 0 => Launched(t)
    /\ taskRow' \in [Task -> [state : TaskState \cup {"none"}, node : Agent \cup {None, Here}]]
    /\ TaskRows'

(* What a step leaves true that changes no job and moves every process. *)
LEMMA PartsStay ==
    ASSUME Parts, Grow, MovesAll, SameJobs, CallsHold, TaskRows', JobRows',
           \A j \in Job \ resumed : Single(j)',
           raced' \subseteq Driver, overtaken' \subseteq Driver,
           alive' \subseteq Driver, leads' \subseteq alive',
           agent' \in [Agent -> AgentState],
           \A a \in Agent, t \in Task : agent'[a].execs[t] > 0 => Launched(t),
           jobRow' \in [Job -> JobState \cup {"none"}],
           taskRow' \in [Task -> [state : TaskState \cup {"none"},
                                  node : Agent \cup {None, Here}]]
    PROVE  Parts'
<1>1. PlacesShrink
  BY DEF CallsHold
<1>2. Typed'
  BY Types, PrimedTypes DEF Parts, Typed, Grow, MovesAll, CallsHold, SameJobs
<1>3. MembersInv'
  BY MembersStay DEF Parts
<1>4. \A d \in Driver :
         JobsKnown(mem[d])' /\ TasksKnown(mem[d])' /\ ThreadsKnown(mem[d])'
  BY <1>1, MemoryStays
<1>5. Executed'
  BY <1>1, ExecutedStays
<1>6. \A j \in Job \ resumed' : Single(j)'
  BY DEF SameJobs
<1>. QED
  BY <1>2, <1>3, <1>4, <1>5, <1>6 DEF Parts, CallsHold

LEMMA QuietStep == IInv /\ Quiet => IInv'
<1> SUFFICES ASSUME IInv, Quiet PROVE IInv'
  OBVIOUS
<1>1. /\ Parts /\ Keys /\ Answers /\ Grow /\ MovesAll /\ AnswersKept /\ SameJobs
      /\ SameKeepers /\ CallsHold /\ PlacesShrink /\ TaskRows'
      /\ jobRow' = jobRow /\ raced' = raced
  BY DEF IInv, Quiet, CallsHold
<1>2. Parts'
  <2>1. JobRows' /\ \A j \in Job \ resumed : Single(j)'
    BY <1>1, JobRowsStay, SingleStays
  <2>2. jobRow' \in [Job -> JobState \cup {"none"}] /\ raced' \subseteq Driver
    BY <1>1, Types DEF Parts, Typed
  <2>. QED
    BY <1>1, <2>1, <2>2, PartsStay DEF Quiet
<1>3. Keys'
  <2>1. Stored' = Stored
    BY <1>1 DEF Stored
  <2>. QED
    BY <1>1, <2>1, KeysStay DEF Quiet
<1>4. Answers'
  BY <1>1, AnswersStay DEF Quiet
<1>. QED
  BY <1>2, <1>3, <1>4 DEF IInv
-----------------------------------------------------------------------------
(* The steps that are quiet. *)
StillLoading == \A d \in Driver : call[d].pc = "jobs" => call'[d].pc = "jobs"
ExecsKnown ==
    /\ agent' \in [Agent -> AgentState]
    /\ \A a \in Agent, t \in Task : agent'[a].execs[t] > 0 => Launched(t)

LEMMA QuietMemory ==
    ASSUME Parts, Grow, MovesAll, AnswersKept, CallsHold, SameKeepers, StillLoading,
           ExecsKnown, UNCHANGED <<procs, ids, rows, resumed, raced, overtaken>>
    PROVE  Quiet
<1>1. SameJobs /\ PlacesShrink /\ taskRow' = taskRow
  BY DEF SameJobs, ids, rows, CallsHold
<1>2. TaskRows'
  BY <1>1, TaskRowsStay
<1>3. \A d \in Driver : Leading(d)' => Leading(d)
  BY DEF Leading, StillLoading, procs
<1>. QED
  BY <1>1, <1>2, <1>3, Types
     DEF Quiet, ExecsKnown, procs, rows, Parts, Typed

LEMMA SameExecs ==
    ASSUME Parts, agent' \in [Agent -> AgentState],
           \A a \in Agent : agent'[a].execs = agent[a].execs
    PROVE  ExecsKnown
BY DEF ExecsKnown, Parts, Executed

LEMMA SameAgents == Parts /\ UNCHANGED agent => ExecsKnown
BY Types DEF ExecsKnown, Parts, Typed, Executed

(* One execution less. *)
LEMMA LessExecs ==
    ASSUME Parts, NEW a \in Agent, NEW t \in Task, agent[a].execs[t] > 0,
           NEW agents, agents = [agent EXCEPT ![a].execs[t] = @ - 1]
    PROVE  /\ agents \in [Agent -> AgentState]
           /\ \A b \in Agent, u \in Task : agents[b].execs[u] > 0 => Launched(u)
<1> DEFINE es == [agent[a].execs EXCEPT ![t] = @ - 1]
           new == [agent[a] EXCEPT !.execs = es]
<1>1. agent \in [Agent -> AgentState]
  BY Types DEF Parts, Typed
<1>2. agent[a].execs \in [Task -> Nat]
  BY <1>1 DEF AgentState
<1>3. es \in [Task -> Nat] /\ \A u \in Task : es[u] > 0 => agent[a].execs[u] > 0
  BY <1>2
<1>4. agents = [agent EXCEPT ![a] = new]
  OBVIOUS
<1> HIDE DEF es
<1>5. new \in AgentState /\ new.execs = es
  BY <1>1, <1>3 DEF AgentState
<1> HIDE DEF new
<1>6. \A b \in Agent : agents[b] = IF b = a THEN new ELSE agent[b]
  BY <1>1, <1>4
<1>. QED
  BY <1>1, <1>3, <1>4, <1>5, <1>6 DEF Parts, Executed

LEMMA QuietLocalReturns ==
    ASSUME IInv, NEW d \in Driver, NEW t \in Task, LocalReturns(d, t)
    PROVE  Quiet
<1>1. Parts /\ mem[d] \in Memory /\ facts \in [Job -> SUBSET Cause] /\ MembersInv
      /\ members \in [Job -> SUBSET Task] /\ ThreadsKnown(mem[d]) /\ agent \in [Agent -> AgentState]
  BY Types DEF IInv, Parts, Typed
<1>2. Launched(t) /\ mem[d].tasks[t] # <<>> /\ mem[d].jobs[JobOf(t)] # <<>> /\ JobOf(t) \in Job
  BY <1>1, JobOfOwned DEF LocalReturns, ThreadsKnown, Launched
<1>3. 1 \in DOMAIN mem[d].tasks[t] /\ 1 \in DOMAIN mem[d].jobs[JobOf(t)]
  BY <1>1, <1>2, NonemptySeq DEF Memory
<1>4. Grow /\ "returned" \in facts'[JobOf(t)]
  BY <1>1, <1>2 DEF LocalReturns, Grow, Cause
<1>5. /\ \E n : mem' = [mem EXCEPT ![d] = n] /\ Moves(d, n) /\ AnswerKept(d, n)
      /\ agent' \in [Agent -> AgentState]
      /\ \A a \in Agent : agent'[a].execs = agent[a].execs
  <2>1. /\ Here \in Agent \cup Caller \cup Driver \cup {Here}
        /\ mem[d].local \ {t} \in SUBSET mem[d].local
    OBVIOUS
  <2>2. Completes(d, t, 1, 1, Here, mem[d].local \ {t}, agent)
    BY DEF LocalReturns
  <2>3. Parts /\ Launched(t) /\ agent \in [Agent -> AgentState]
    BY <1>1, <1>2
  <2>. QED
    BY <1>3, <1>4, <2>1, <2>2, <2>3, CompletesMoves, CompletesAgents
<1>6. MovesAll /\ AnswersKept /\ ExecsKnown
  BY <1>1, <1>4, <1>5, OneMoves, SameExecs
<1>7. /\ UNCHANGED <<procs, ids, rows, resumed, raced, overtaken>> /\ UNCHANGED call
      /\ SameJobs /\ StillLoading
  BY DEF LocalReturns, SameJobs, ids, StillLoading
<1>. QED
  BY <1>1, <1>4, <1>6, <1>7, CallsSame, QuietMemory

LEMMA QuietLocalRaises ==
    ASSUME IInv, NEW d \in Driver, NEW t \in Task, LocalRaises(d, t)
    PROVE  Quiet
<1>1. Parts /\ mem[d] \in Memory /\ facts \in [Job -> SUBSET Cause] /\ MembersInv
      /\ members \in [Job -> SUBSET Task] /\ ThreadsKnown(mem[d])
  BY Types DEF IInv, Parts, Typed
<1>2. Launched(t) /\ mem[d].tasks[t] # <<>> /\ mem[d].jobs[JobOf(t)] # <<>> /\ JobOf(t) \in Job
  BY <1>1, JobOfOwned DEF LocalRaises, ThreadsKnown, Launched
<1>3. 1 \in DOMAIN mem[d].tasks[t] /\ 1 \in DOMAIN mem[d].jobs[JobOf(t)]
  BY <1>1, <1>2, NonemptySeq DEF Memory
<1>4. Grow /\ "raised" \in facts'[JobOf(t)]
  BY <1>1, <1>2 DEF LocalRaises, Grow, Cause
<1>5. \E n : mem' = [mem EXCEPT ![d] = n] /\ Moves(d, n) /\ AnswerKept(d, n)
  <2>1. /\ Here \in Agent \cup Caller \cup Driver \cup {Here}
        /\ mem[d].local \ {t} \in SUBSET mem[d].local
    OBVIOUS
  <2>2. Fails(d, t, 1, 1, Here, mem[d].local \ {t})
    BY DEF LocalRaises
  <2>. QED
    BY <1>1, <1>2, <1>3, <1>4, <2>1, <2>2, FailsMoves
<1>6. /\ UNCHANGED <<procs, ids, rows, resumed, raced, overtaken>> /\ UNCHANGED call
      /\ SameJobs /\ StillLoading /\ UNCHANGED agent
  BY DEF LocalRaises, SameJobs, ids, StillLoading
<1>7. MovesAll /\ AnswersKept /\ ExecsKnown
  BY <1>1, <1>4, <1>5, <1>6, OneMoves, SameAgents
<1>. QED
  BY <1>1, <1>4, <1>6, <1>7, CallsSame, QuietMemory

LEMMA QuietLocalStops ==
    ASSUME IInv, NEW d \in Driver, NEW t \in Task, LocalStops(d, t)
    PROVE  Quiet
<1>1. Parts /\ mem[d] \in Memory /\ facts \in [Job -> SUBSET Cause] /\ MembersInv
      /\ members \in [Job -> SUBSET Task] /\ ThreadsKnown(mem[d]) /\ agent \in [Agent -> AgentState]
      /\ TasksKnown(mem[d])
  BY Types DEF IInv, Parts, Typed
<1>2. Launched(t) /\ mem[d].tasks[t] # <<>> /\ mem[d].jobs[JobOf(t)] # <<>> /\ JobOf(t) \in Job
  BY <1>1, JobOfOwned DEF LocalStops, ThreadsKnown, Launched
<1>3. 1 \in DOMAIN mem[d].tasks[t] /\ 1 \in DOMAIN mem[d].jobs[JobOf(t)]
  BY <1>1, <1>2, NonemptySeq DEF Memory
<1>4. /\ UNCHANGED <<procs, ids, rows, resumed, raced, overtaken>> /\ UNCHANGED call
      /\ SameJobs /\ StillLoading /\ UNCHANGED facts
  BY DEF LocalStops, SameJobs, ids, StillLoading, history
<1>5. Grow
  BY <1>1, <1>4, GrowStill
<1>6. /\ \E n : mem' = [mem EXCEPT ![d] = n] /\ Moves(d, n) /\ AnswerKept(d, n)
      /\ agent' \in [Agent -> AgentState]
      /\ \A a \in Agent : agent'[a].execs = agent[a].execs
  <2>1. CASE IsDone(d, t)
    <3>1. "returned" \in facts'[JobOf(t)]
      BY <1>1, <1>3, <1>4, <2>1 DEF TasksKnown, Ended, IsDone
    <3>2. Completes(d, t, 1, 1, Here, mem[d].local \ {t}, agent)
      BY <2>1 DEF LocalStops
    <3>3. /\ Here \in Agent \cup Caller \cup Driver \cup {Here}
          /\ mem[d].local \ {t} \in SUBSET mem[d].local
      OBVIOUS
    <3>4. Parts /\ Launched(t) /\ agent \in [Agent -> AgentState]
      BY <1>1, <1>2
    <3>. QED
      BY <1>3, <1>5, <3>1, <3>2, <3>3, <3>4, CompletesMoves, CompletesAgents
  <2>2. CASE ~IsDone(d, t)
    <3> DEFINE m == mem[d]
               n == [m EXCEPT !.running = m.running \ {t}, !.local = m.local \ {t},
                              !.interrupted = m.interrupted \ {t}]
    <3>1. mem' = [mem EXCEPT ![d] = n] /\ agent' = agent
      BY <2>2 DEF LocalStops
    <3>2. /\ n \in Memory /\ n.jobs = m.jobs /\ n.tasks = m.tasks /\ n.list = m.list
          /\ n.key = m.key /\ n.local = m.local \ {t}
          /\ n.interrupted = m.interrupted \ {t} /\ n.saves = m.saves
      BY <1>1 DEF Memory
    <3>3. n.interrupted \subseteq n.local
      BY <1>1, <3>2 DEF ThreadsKnown
    <3> HIDE DEF n
    <3>4. Moves(d, n)
      BY <1>1, <1>5, <3>2, <3>3, ChangesMove
    <3>5. AnswerKept(d, n)
      BY <3>2 DEF AnswerKept, SavesKept
    <3>. QED
      BY <1>1, <3>1, <3>4, <3>5
  <2>. QED
    BY <2>1, <2>2
<1>7. MovesAll /\ AnswersKept /\ ExecsKnown
  BY <1>1, <1>5, <1>6, OneMoves, SameExecs
<1>. QED
  BY <1>1, <1>4, <1>5, <1>7, CallsSame, QuietMemory

LEMMA QuietCancel ==
    ASSUME IInv, NEW d \in Driver, NEW j \in Job, Cancel(d, j)
    PROVE  Quiet
<1>1. Parts
  BY DEF IInv
<1>2. /\ \E n : mem' = [mem EXCEPT ![d] = n] /\ Moves(d, n) /\ AnswerKept(d, n)
      /\ Grow /\ agent' \in [Agent -> AgentState]
      /\ \A a \in Agent : agent'[a].execs = agent[a].execs
  BY <1>1, CancelMoves
<1>3. MovesAll /\ AnswersKept /\ ExecsKnown
  BY <1>1, <1>2, OneMoves, SameExecs
<1>4. /\ UNCHANGED <<procs, ids, rows, resumed, raced, overtaken>> /\ UNCHANGED call
      /\ SameJobs /\ StillLoading
  BY DEF Cancel, SameJobs, ids, StillLoading
<1>. QED
  BY <1>1, <1>2, <1>3, <1>4, CallsSame, QuietMemory

LEMMA QuietRows ==
    ASSUME Parts, Grow, MovesAll, AnswersKept, CallsHold, SameKeepers, StillLoading,
           ExecsKnown, UNCHANGED <<procs, ids, jobRow, resumed, raced, overtaken>>,
           taskRow' \in [Task -> [state : TaskState \cup {"none"},
                                  node : Agent \cup {None, Here}]],
           TaskRows'
    PROVE  Quiet
<1>1. SameJobs
  BY DEF SameJobs, ids
<1>2. \A d \in Driver : Leading(d)' => Leading(d)
  BY DEF Leading, StillLoading, procs
<1>. QED
  BY <1>1, <1>2, Types DEF Quiet, ExecsKnown, procs, Parts, Typed

(* The row of a task that is launched is written. *)
LEMMA RowWritten ==
    ASSUME Parts, UNCHANGED facts, SameJobs, PlacesShrink, NEW t \in Task, NEW row,
           taskRow' = taskRow \/
             /\ taskRow' = [taskRow EXCEPT ![t] = row] /\ Launched(t)
             /\ row \in [state : TaskState \cup {"none"}, node : Agent \cup {None, Here}]
             /\ Ended(facts, t, row.state)
    PROVE  /\ taskRow' \in [Task -> [state : TaskState \cup {"none"},
                                     node : Agent \cup {None, Here}]]
           /\ TaskRows'
<1>1. /\ Grow /\ TaskRows /\ members' = members
      /\ taskRow \in [Task -> [state : TaskState \cup {"none"},
                               node : Agent \cup {None, Here}]]
  BY GrowStill, Types DEF Parts, Typed, SameJobs
<1>2. CASE taskRow' = taskRow
  BY <1>1, <1>2, TaskRowsStay
<1>3. CASE taskRow' # taskRow
  <2>1. \A u : JobOf(u)' = JobOf(u) /\ (Launched(u) => Launched(u)')
    BY <1>1, LaunchedStays, JobOfStays
  <2>2. \A u \in Task : taskRow'[u] = IF u = t THEN row ELSE taskRow[u]
    BY <1>1, <1>3
  <2>3. taskRow' \in [Task -> [state : TaskState \cup {"none"},
                                     node : Agent \cup {None, Here}]]
    BY <1>1, <1>3
  <2>. QED
    BY <1>1, <1>3, <2>1, <2>2, <2>3 DEF TaskRows, Ended
<1>. QED
  BY <1>2, <1>3

(* No job changes; threads and saves may be new. *)
LEMMA BooksMove ==
    ASSUME Parts, Grow, NEW d \in Driver, NEW n \in Memory,
           n.jobs = mem[d].jobs, n.tasks = mem[d].tasks,
           n.list = mem[d].list, n.key = mem[d].key,
           n.interrupted \subseteq n.local,
           \A u \in n.local : u \in mem[d].local \/ Runs(d, u),
           \A p \in n.saves : p \in mem[d].saves \/ Backed(d, p),
           SavesKept(d, n)
    PROVE  Moves(d, n) /\ AnswerKept(d, n)
<1>1. Moves(d, n)
  BY ChangesMove
<1>. QED
  BY <1>1 DEF AnswerKept

(* What a thread that sends a task has. *)
LEMMA SenderKnown ==
    ASSUME Parts, NEW x \in Caller \cup Driver, call[x].pc \in Sending
    PROVE  /\ call[x].at \in Driver /\ call[x].cur \in Task /\ Launched(call[x].cur)
           /\ JobOf(call[x].cur) \in Job
           /\ mem[call[x].at].jobs[JobOf(call[x].cur)] # <<>>
           /\ x \in Caller => mem[call[x].at].tasks[call[x].cur] # <<>>
<1>1. MembersInv /\ members \in [Job -> SUBSET Task] /\ call[x] \in Thread
  BY Types DEF Parts, Typed
<1>2. CASE x \in Caller
  <2>1. CallerInv(x) /\ call[x].pc \in Holding \ {"place"}
    BY <1>2 DEF Parts, Sending, Holding
  <2>2. /\ call[x].at \in Driver /\ call[x].job \in Job
        /\ call[x].todo \subseteq members[call[x].job] /\ call[x].cur \in call[x].todo
        /\ mem[call[x].at].jobs[call[x].job] # <<>>
        /\ \A t \in call[x].todo : mem[call[x].at].tasks[t] # <<>>
        /\ \A t \in call[x].todo : Launched(t)
    BY <2>1 DEF CallerInv
  <2>3. JobOf(call[x].cur) = call[x].job
    BY <1>1, <2>2, JobOfOwned
  <2>. QED
    BY <1>1, <2>2, <2>3
<1>3. CASE x \in Driver
  <2>1. ResumeInv(x) /\ call[x].pc # "idle" /\ x \notin Caller
    BY <1>3, FailoverAssumption DEF Parts, Sending
  <2>2. /\ call[x].at = x /\ call[x].cur \in call[x].todo /\ Launched(call[x].cur)
        /\ mem[x].jobs[JobOf(call[x].cur)] # <<>>
    BY <2>1 DEF ResumeInv
  <2>. QED
    BY <1>1, <1>3, <2>1, <2>2, JobOfOwned DEF Launched
<1>. QED
  BY <1>2, <1>3

(* A driver takes the lead and starts to load the jobs. *)
LEMMA QuietTakeover ==
    ASSUME IInv, NEW d \in Driver, NEW kind \in {"start", "resume"},
           call' = [call EXCEPT ![d] = Resuming(d, kind)], leads' = leads \cup {d},
           alive' = alive \cup {d}, UNCHANGED <<mem, agent, ids, rows, history>>
    PROVE  Quiet
<1> DEFINE v == Resuming(d, kind)
<1>1. Parts /\ Grow /\ MovesAll /\ AnswersKept /\ ExecsKnown /\ SameJobs
      /\ UNCHANGED <<facts, jobRow, taskRow, raced, overtaken>>
  BY GrowStill, NoneMoves, SameAgents DEF IInv, history, ids, rows, SameJobs
<1>2. v \in Thread /\ v.pc = "jobs" /\ v.at = d /\ v.todo = {}
  BY DEF Resuming, Idle, Thread, Kind
<1> HIDE DEF v
<1>3. CallsHold /\ SameKeepers
  BY <1>1, <1>2, ResumeMoves DEF Sending, v
<1>4. TaskRows'
  BY <1>1, <1>3, TaskRowsStay DEF CallsHold
<1>5. \A e \in Driver : Leading(e)' => Leading(e)
  <2>1. call'[d] = v /\ \A e \in Driver : e # d => call'[e] = call[e]
    BY <1>1, <1>2, OneCall DEF v
  <2>. QED
    BY <1>1, <1>2, <2>1 DEF Leading
<1>. QED
  BY <1>1, <1>3, <1>4, <1>5, Types DEF Quiet, ExecsKnown, Parts, Typed

LEMMA QuietProcesses ==
    ASSUME IInv, NEW d \in Driver, DriverStart(d) \/ BecomeLeader(d) \/ LoseLead(d)
    PROVE  Quiet
<1>1. ASSUME UNCHANGED call, alive \subseteq alive', alive' \subseteq Driver,
             leads' \subseteq leads, UNCHANGED <<mem, agent, ids, rows, history>>
      PROVE  Quiet
  <2>1. Parts /\ Grow /\ MovesAll /\ AnswersKept /\ ExecsKnown /\ SameJobs
        /\ UNCHANGED <<facts, jobRow, taskRow, raced, overtaken>>
    BY <1>1, GrowStill, NoneMoves, SameAgents DEF IInv, history, ids, rows, SameJobs
  <2>2. CallsHold /\ SameKeepers
    BY <1>1, <2>1, CallsSame
  <2>3. TaskRows'
    BY <2>1, <2>2, TaskRowsStay DEF CallsHold
  <2>4. \A e \in Driver : Leading(e)' => Leading(e)
    BY <1>1, <2>1 DEF Leading
  <2>. QED
    BY <1>1, <2>1, <2>2, <2>3, <2>4, Types DEF Quiet, ExecsKnown, Parts, Typed
<1>2. alive \subseteq Driver
  BY Types DEF IInv, Parts, Typed
<1>3. CASE DriverStart(d)
  <2>1. CASE call' = [call EXCEPT ![d] = Resuming(d, "start")] /\ leads' = leads \cup {d}
    BY <1>3, <2>1, QuietTakeover DEF DriverStart
  <2>2. CASE UNCHANGED <<leads, elections, call>>
    BY <1>1, <1>2, <1>3, <2>2 DEF DriverStart
  <2>. QED
    BY <1>3, <2>1, <2>2 DEF DriverStart
<1>4. CASE BecomeLeader(d)
  <2>1. alive' = alive \cup {d}
    BY <1>4 DEF BecomeLeader
  <2>. QED
    BY <1>4, <2>1, QuietTakeover DEF BecomeLeader
<1>5. CASE LoseLead(d)
  BY <1>1, <1>2, <1>5 DEF LoseLead
<1>. QED
  BY <1>3, <1>4, <1>5

LEMMA QuietAgentStart ==
    ASSUME IInv, NEW a \in Agent, NEW d \in Driver, AgentStart(a, d)
    PROVE  Quiet
<1> DEFINE m == mem[d]
           n == [m EXCEPT !.handles = m.handles \cup {a}]
<1>1. /\ Parts /\ Grow /\ SameJobs /\ m \in Memory /\ agent \in [Agent -> AgentState]
      /\ ThreadsKnown(m)
      /\ UNCHANGED <<procs, ids, rows, resumed, raced, overtaken>> /\ StillLoading
      /\ UNCHANGED call
  BY GrowStill, Types
     DEF IInv, Parts, Typed, AgentStart, history, ids, SameJobs, StillLoading
<1>2. mem' = [mem EXCEPT ![d] = n]
  BY DEF AgentStart
<1>3. /\ n \in Memory /\ n.jobs = m.jobs /\ n.tasks = m.tasks /\ n.list = m.list
      /\ n.key = m.key /\ n.local = m.local /\ n.interrupted = m.interrupted
      /\ n.saves = m.saves
  BY <1>1 DEF Memory
<1> HIDE DEF n
<1>4. MovesAll /\ AnswersKept
  <2>1. Moves(d, n) /\ AnswerKept(d, n)
    BY <1>1, <1>3, BooksMove DEF ThreadsKnown, SavesKept
  <2>. QED
    BY <1>1, <1>2, <2>1, OneMoves
<1>5. ExecsKnown
  <2> DEFINE new == [Down(d) EXCEPT !.up = TRUE]
  <2>1. new \in AgentState /\ \A t \in Task : new.execs[t] = 0
    BY DEF Down, AgentState
  <2>2. agent' = [agent EXCEPT ![a] = new]
    BY DEF AgentStart
  <2> HIDE DEF new
  <2>. QED
    BY <1>1, <2>1, <2>2 DEF ExecsKnown, Parts, Executed
<1>. QED
  BY <1>1, <1>4, <1>5, CallsSame, QuietMemory

LEMMA QuietAgentSteps ==
    ASSUME IInv, NEW a \in Agent, AgentCrash(a) \/ \E t \in Task : AgentPops(a, t)
    PROVE  Quiet
<1>1. /\ Parts /\ Grow /\ SameJobs /\ agent \in [Agent -> AgentState]
      /\ UNCHANGED <<procs, ids, rows, resumed, raced, overtaken>> /\ StillLoading
      /\ UNCHANGED call /\ UNCHANGED mem
  BY GrowStill, Types
     DEF IInv, Parts, Typed, AgentCrash, AgentPops, history, ids, SameJobs, StillLoading
<1>2. ExecsKnown
  <2>1. CASE AgentCrash(a)
    <3> DEFINE new == Down(agent[a].home)
    <3>1. new \in AgentState /\ \A t \in Task : new.execs[t] = 0
      BY <1>1 DEF Down, AgentState
    <3>2. agent' = [agent EXCEPT ![a] = new]
      BY <2>1 DEF AgentCrash
    <3> HIDE DEF new
    <3>. QED
      BY <1>1, <3>1, <3>2 DEF ExecsKnown, Parts, Executed
  <2>2. ASSUME NEW t \in Task, AgentPops(a, t) PROVE ExecsKnown
    <3> DEFINE new == [agent[a] EXCEPT !.entry = agent[a].entry \ {t}]
    <3>1. new \in AgentState /\ new.execs = agent[a].execs
      BY <1>1 DEF AgentState
    <3>2. agent' = [agent EXCEPT ![a] = new]
      BY <2>2 DEF AgentPops
    <3> HIDE DEF new
    <3>. QED
      BY <1>1, <3>1, <3>2, SameExecs
  <2>. QED
    BY <2>1, <2>2
<1>. QED
  BY <1>1, <1>2, NoneMoves, CallsSame, QuietMemory

LEMMA QuietPersistTask ==
    ASSUME IInv, NEW d \in Driver, NEW p \in mem[d].saves, PersistTask(d, p)
    PROVE  Quiet
<1> DEFINE m == mem[d]
           q == [p EXCEPT !.pc = "job"]
           saves == (m.saves \ {p}) \cup {q}
           n == [m EXCEPT !.saves = saves]
           row == IF p.ti = 0 THEN [taskRow[p.task] EXCEPT !.state = "FAILED"]
                              ELSE m.tasks[p.task][p.ti]
<1>1. /\ Parts /\ Grow /\ SameJobs /\ m \in Memory /\ UNCHANGED facts
      /\ ThreadsKnown(m) /\ TasksKnown(m) /\ p \in Save
      /\ UNCHANGED <<procs, ids, jobRow, resumed, raced, overtaken>> /\ StillLoading
      /\ UNCHANGED call /\ UNCHANGED agent
      /\ taskRow \in [Task -> [state : TaskState \cup {"none"}, node : Agent \cup {None, Here}]]
  BY GrowStill, Types
     DEF IInv, Parts, Typed, PersistTask, history, ids, SameJobs, StillLoading, Memory
<1>2. mem' = [mem EXCEPT ![d] = n]
  BY DEF PersistTask
<1>3. q \in Save /\ q.task = p.task /\ q.ti = p.ti /\ q.ji = p.ji
  BY <1>1 DEF Save
<1> HIDE DEF q
<1>4. saves \subseteq Save /\ (\A r \in saves : r \in m.saves \/ r = q)
      /\ \A r \in m.saves : r \in saves \/ r = p
  BY <1>1, <1>3 DEF Memory
<1>5. q \in saves
  OBVIOUS
<1> HIDE DEF saves
<1>6. /\ n \in Memory /\ n.jobs = m.jobs /\ n.tasks = m.tasks /\ n.list = m.list
      /\ n.key = m.key /\ n.local = m.local /\ n.interrupted = m.interrupted
      /\ n.saves = saves
  BY <1>1, <1>4 DEF Memory
<1>7. Launched(p.task) /\ (p.ti = 0 \/ p.ti \in DOMAIN m.tasks[p.task]) /\ p.task \in Task
  BY <1>1 DEF ThreadsKnown, Save
<1> HIDE DEF n
<1>8. MovesAll /\ AnswersKept
  <2>1. Backed(d, q)
    BY <1>1, <1>3 DEF ThreadsKnown, Backed
  <2>2. SavesKept(d, n)
    BY <1>3, <1>4, <1>5, <1>6 DEF SavesKept
  <2>3. n.interrupted \subseteq n.local
    BY <1>1, <1>6 DEF ThreadsKnown
  <2>4. Moves(d, n) /\ AnswerKept(d, n)
    BY <1>1, <1>4, <1>6, <2>1, <2>2, <2>3, BooksMove
  <2>. QED
    BY <1>1, <1>2, <2>4, OneMoves
<1>9. CallsHold /\ SameKeepers
  BY <1>1, <1>8, CallsSame
<1>10. /\ row \in [state : TaskState \cup {"none"}, node : Agent \cup {None, Here}]
       /\ Ended(facts, p.task, row.state)
  <2>1. CASE p.ti = 0
    <3>1. /\ [taskRow[p.task] EXCEPT !.state = "FAILED"] \in
                [state : TaskState \cup {"none"}, node : Agent \cup {None, Here}]
          /\ [taskRow[p.task] EXCEPT !.state = "FAILED"].state = "FAILED"
      BY <1>1, <1>7 DEF TaskState
    <3>. QED
      BY <2>1, <3>1 DEF Ended
  <2>2. CASE p.ti # 0
    <3>1. m.tasks[p.task] \in Seq(TaskObject) /\ p.ti \in DOMAIN m.tasks[p.task]
      BY <1>1, <1>7, <2>2 DEF Memory
    <3>2. m.tasks[p.task][p.ti] \in TaskObject
      BY <3>1, NonemptySeq
    <3>. QED
      BY <1>1, <1>7, <2>2, <3>1, <3>2 DEF TasksKnown, TaskObject
  <2>. QED
    BY <2>1, <2>2
<1>11. taskRow' = taskRow \/ taskRow' = [taskRow EXCEPT ![p.task] = row]
  BY DEF PersistTask, WriteTask
<1> HIDE DEF row
<1>12. /\ taskRow' \in [Task -> [state : TaskState \cup {"none"},
                                     node : Agent \cup {None, Here}]]
       /\ TaskRows'
  BY <1>1, <1>7, <1>9, <1>10, <1>11, RowWritten DEF CallsHold
<1>. QED
  BY <1>1, <1>8, <1>9, <1>12, SameAgents, QuietRows

LEMMA QuietSaveNewTask ==
    ASSUME IInv, NEW c \in Caller, NEW t \in Task, SaveNewTask(c, t)
    PROVE  Quiet
<1> DEFINE d == call[c].at
           row == mem[d].tasks[t][1]
           v == [call[c] EXCEPT !.pc = "dispatch", !.cur = t]
<1>1. /\ Parts /\ Grow /\ SameJobs /\ UNCHANGED facts /\ CallerInv(c)
      /\ call[c] \in Thread /\ call[c].pc = "saveTask" /\ t \in call[c].todo
      /\ UNCHANGED <<procs, ids, jobRow, resumed, raced, overtaken>>
      /\ UNCHANGED mem /\ UNCHANGED agent
  BY GrowStill, Types DEF IInv, Parts, Typed, SaveNewTask, history, ids, SameJobs
<1>2. /\ d \in Driver /\ mem[d].tasks[t] # <<>> /\ Launched(t)
  BY <1>1 DEF CallerInv, Holding
<1>3. MovesAll /\ AnswersKept
  BY <1>1, NoneMoves
<1>4. call' = [call EXCEPT ![c] = v]
  BY DEF SaveNewTask
<1>5. /\ v \in Thread /\ v.pc = "dispatch" /\ v.cur = t /\ v.at = call[c].at
      /\ v.keyed = call[c].keyed /\ v.job = call[c].job /\ v.todo = call[c].todo
  BY <1>1 DEF Thread
<1> HIDE DEF v
<1>6. CallsHold /\ SameKeepers
  BY <1>1, <1>3, <1>4, <1>5, CallerMoves DEF Holding, Sending
<1>7. StillLoading
  <2>1. c \notin Driver
    BY FailoverAssumption
  <2>2. \A x \in Driver : call'[x] = call[x]
    BY <1>1, <1>4, <1>5, <2>1, OneCall
  <2>. QED
    BY <2>2 DEF StillLoading
<1>8. /\ row \in [state : TaskState \cup {"none"}, node : Agent \cup {None, Here}]
      /\ Ended(facts, t, row.state)
  <2>1. mem[d].tasks[t] \in Seq(TaskObject) /\ TasksKnown(mem[d])
    BY <1>1, <1>2, Types DEF Parts, Typed, Memory
  <2>2. 1 \in DOMAIN mem[d].tasks[t] /\ row \in TaskObject
    BY <1>2, <2>1, NonemptySeq
  <2>. QED
    BY <2>1, <2>2 DEF TasksKnown, TaskObject
<1>9. taskRow' = taskRow \/ taskRow' = [taskRow EXCEPT ![t] = row]
  BY DEF SaveNewTask, WriteTask
<1> HIDE DEF row
<1>10. /\ taskRow' \in [Task -> [state : TaskState \cup {"none"},
                                     node : Agent \cup {None, Here}]]
       /\ TaskRows'
  BY <1>1, <1>2, <1>6, <1>8, <1>9, RowWritten DEF CallsHold
<1>. QED
  BY <1>1, <1>3, <1>6, <1>7, <1>10, SameAgents, QuietRows

(* A placement makes the tasks of the submission known to dispatches. *)
LEMMA PlaceMoves ==
    ASSUME IInv, NEW c \in Caller, Place(c)
    PROVE  MovesAll /\ AnswersKept /\ call[c].at \in Driver
<1> DEFINE d == call[c].at
           m == mem[d]
           j == call[c].job
           todo == call[c].todo
<1>1. /\ Parts /\ Grow /\ CallerInv(c) /\ d \in Driver /\ m \in Memory
      /\ ThreadsKnown(m) /\ call[c] \in Thread /\ JobRows /\ call[c].pc = "place"
  BY GrowStill, Types DEF IInv, Parts, Typed, Place, history, CallerInv, Holding
<1>2. /\ j \in Job /\ todo \subseteq Task /\ m.jobs[j] # <<>>
      /\ \A t \in todo : m.tasks[t] # <<>>
  BY <1>1 DEF CallerInv, Holding, Thread
<1>3. jobRow[j] = "none"
  BY <1>1, <1>2 DEF JobRows
<1>4. PICK f \in [todo -> ((m.handles \cup {Here}) \cap fitting) \cup {None}] :
        mem' = [mem EXCEPT ![d] = [m EXCEPT
                  !.jobs = SetJob(m.jobs, j, 1, "RUNNING"),
                  !.tasks = [t \in Task |->
                      IF t \notin todo THEN m.tasks[t]
                      ELSE [m.tasks[t] EXCEPT ![1] =
                              [state |-> IF f[t] = None THEN "PENDING" ELSE "RUNNING",
                               node |-> f[t]]]]]]
  BY DEF Place
<1> DEFINE js == SetJob(m.jobs, j, 1, "RUNNING")
           o(t) == [state |-> IF f[t] = None THEN "PENDING" ELSE "RUNNING", node |-> f[t]]
           q(t) == [m.tasks[t] EXCEPT ![1] = o(t)]
           tasks == [t \in Task |-> IF t \notin todo THEN m.tasks[t] ELSE q(t)]
           n == [m EXCEPT !.jobs = js, !.tasks = tasks]
<1>5. js \in [Job -> Seq(JobState)]
      /\ \A k \in Job : /\ DOMAIN js[k] = DOMAIN m.jobs[k] /\ Len(js[k]) = Len(m.jobs[k])
                        /\ \A l \in DOMAIN m.jobs[k] : js[k][l] =
                             IF k = j /\ l = 1 THEN "RUNNING" ELSE m.jobs[k][l]
  <2>1. "RUNNING" \in JobState /\ 1 \in DOMAIN m.jobs[j]
    BY <1>1, <1>2, NonemptySeq DEF JobState, Memory
  <2> HIDE DEF m, j, js
  <2>2. PICK i \in DOMAIN m.jobs[j] : i = 1 /\ js = SetJob(m.jobs, j, i, "RUNNING")
    BY <2>1 DEF js
  <2>. QED
    BY <1>1, <1>2, <2>1, <2>2, SetJobObject
<1>6. ASSUME NEW t \in todo
      PROVE  /\ q(t) \in Seq(TaskObject) /\ DOMAIN q(t) = DOMAIN m.tasks[t]
             /\ \A i \in DOMAIN m.tasks[t] : q(t)[i].state \in
                  {"PENDING", "RUNNING", m.tasks[t][i].state}
  <2>1. /\ m.tasks[t] \in Seq(TaskObject) /\ 1 \in 1 .. Len(m.tasks[t])
        /\ DOMAIN m.tasks[t] = 1 .. Len(m.tasks[t])
    BY <1>1, <1>2, <1>6, NonemptySeq DEF Memory
  <2>2. o(t) \in TaskObject /\ o(t).state \in {"PENDING", "RUNNING"}
    <3>1. f[t] \in Agent \cup {None, Here}
      BY <1>1, <1>6 DEF Memory
    <3>. QED
      BY <3>1 DEF TaskObject, TaskState
  <2> HIDE DEF m, o
  <2>3. /\ q(t) \in Seq(TaskObject) /\ Len(q(t)) = Len(m.tasks[t])
        /\ \A i \in 1 .. Len(m.tasks[t]) : q(t)[i] = IF i = 1 THEN o(t) ELSE m.tasks[t][i]
    BY <2>1, <2>2, ExceptSeq
  <2>4. DOMAIN q(t) = DOMAIN m.tasks[t]
    BY <2>1, <2>3, LenProperties
  <2>. QED
    BY <2>1, <2>2, <2>3, <2>4
<1> HIDE DEF q
<1>7. tasks \in [Task -> Seq(TaskObject)]
      /\ \A t \in Task : /\ DOMAIN tasks[t] = DOMAIN m.tasks[t]
                         /\ \A i \in DOMAIN m.tasks[t] : tasks[t][i].state \in
                              {"PENDING", "RUNNING", m.tasks[t][i].state}
  BY <1>1, <1>6 DEF Memory
<1>8. mem' = [mem EXCEPT ![d] = n]
  BY <1>4 DEF q
<1> HIDE DEF js, tasks
<1>9. /\ n \in Memory /\ n.jobs = js /\ n.tasks = tasks /\ n.list = m.list /\ n.key = m.key
      /\ n.local = m.local /\ n.interrupted = m.interrupted /\ n.saves = m.saves
  BY <1>1, <1>5, <1>7 DEF Memory
<1> HIDE DEF n, m, d
<1>10. Moves(d, n)
  <2>1. ASSUME NEW k \in Job
        PROVE  /\ DOMAIN n.jobs[k] = DOMAIN m.jobs[k]
               /\ \A i \in DOMAIN m.jobs[k] :
                    \/ n.jobs[k][i] = m.jobs[k][i]
                    \/ /\ Caused(facts', k, n.jobs[k][i])
                       /\ n.jobs[k][i] \in Final \/ jobRow[k] = "none"
    BY <1>3, <1>5, <1>9 DEF Caused
  <2>2. ASSUME NEW u \in Task
        PROVE  /\ DOMAIN n.tasks[u] = DOMAIN m.tasks[u]
               /\ \A i \in DOMAIN m.tasks[u] :
                    \/ n.tasks[u][i].state = m.tasks[u][i].state
                    \/ Ended(facts', u, n.tasks[u][i].state)
    BY <1>7, <1>9 DEF Ended
  <2>3. n.interrupted \subseteq n.local
    BY <1>1, <1>9 DEF ThreadsKnown
  <2>. QED
    BY <1>1, <1>9, <2>1, <2>2, <2>3, ChangesMove DEF m
<1>11. AnswerKept(d, n)
  <2>1. SavesKept(d, n)
    BY <1>9 DEF SavesKept, m
  <2>2. ASSUME NEW k \in Job, n.jobs[k] # <<>>, Table(n.jobs[k]) \in Outcome
        PROVE  Table(n.jobs[k]) = Table(m.jobs[k])
    <3>1. Len(n.jobs[k]) = Len(m.jobs[k]) /\ Len(n.jobs[k]) \in DOMAIN m.jobs[k]
      BY <1>5, <1>9, <2>2, NonemptySeq
    <3>. QED
      BY <1>5, <1>9, <2>2, <3>1 DEF Table, Outcome
  <2>. QED
    BY <2>1, <2>2 DEF AnswerKept, m
<1>12. MovesAll /\ AnswersKept
  BY <1>1, <1>8, <1>10, <1>11, OneMoves
<1>. QED
  BY <1>1, <1>12 DEF d

LEMMA QuietPlace ==
    ASSUME IInv, NEW c \in Caller, Place(c)
    PROVE  Quiet
<1> DEFINE todo == call[c].todo
           pc == IF call[c].kind = "byName" THEN "dispatch" ELSE "saveJob"
           cur == IF call[c].kind = "byName" THEN CHOOSE t \in todo : TRUE ELSE None
           v == [call[c] EXCEPT !.pc = pc, !.cur = cur]
<1>1. /\ Parts /\ Grow /\ SameJobs /\ CallerInv(c) /\ MembersInv
      /\ members \in [Job -> SUBSET Task]
      /\ call[c] \in Thread /\ call[c].pc = "place"
      /\ UNCHANGED <<procs, ids, rows, resumed, raced, overtaken>> /\ UNCHANGED agent
  BY GrowStill, Types DEF IInv, Parts, Typed, Place, history, ids, SameJobs
<1>2. MovesAll /\ AnswersKept
  BY PlaceMoves
<1>3. call' = [call EXCEPT ![c] = v]
  BY DEF Place
<1>4. /\ call[c].at \in Driver /\ call[c].job \in Job /\ todo \subseteq members[call[c].job]
      /\ mem[call[c].at].jobs[call[c].job] # <<>> /\ todo \subseteq Task
      /\ (\A t \in todo : mem[call[c].at].tasks[t] # <<>>) /\ todo # {}
      /\ \A b \in Caller : call[b].pc = "place" /\ call[b].job = call[c].job => b = c
  BY <1>1 DEF CallerInv, Holding, Thread
<1>5. /\ pc \in {"dispatch", "saveJob"} /\ (pc = "dispatch" => cur \in todo)
      /\ cur \in todo \cup {None}
  BY <1>4
<1> HIDE DEF pc, cur
<1>6. /\ v \in Thread /\ v.pc = pc /\ v.cur = cur /\ v.at = call[c].at
      /\ v.keyed = call[c].keyed /\ v.job = call[c].job /\ v.todo = todo
  BY <1>1, <1>4, <1>5 DEF Thread
<1> HIDE DEF v
<1>7. /\ call' \in [Caller \cup Driver -> Thread]
      /\ call'[c] = v /\ \A y \in Caller \cup Driver : y # c => call'[y] = call[y]
  BY <1>1, <1>3, <1>6, OneCall
<1>8. PlacesShrink /\ SameKeepers
  BY <1>5, <1>6, <1>7 DEF PlacesShrink, SameKeepers
<1>9. c \notin Driver
  BY FailoverAssumption
<1>10. ASSUME NEW t \in todo PROVE Launched(t)'
  <2>1. t \in Owned
    BY <1>4, <1>10 DEF Owned
  <2>2. ASSUME NEW b \in Caller, call'[b].pc = "place" PROVE t \notin members[call'[b].job]
    <3>1. b # c /\ call'[b] = call[b] /\ CallerInv(b)
      BY <1>1, <1>5, <1>6, <1>7, <2>2 DEF Parts
    <3>2. call[b].job \in Job /\ call[b].job # call[c].job
      BY <1>4, <2>2, <3>1 DEF CallerInv, Holding
    <3>. QED
      BY <1>1, <1>4, <1>10, <3>1, <3>2 DEF MembersInv
  <2>3. members' = members /\ Owned' = Owned
    BY <1>1, JobOfStays DEF SameJobs
  <2>. QED
    BY <2>1, <2>2, <2>3 DEF Launched
<1>11. CallerInv(c)'
  <2>1. /\ mem'[call[c].at].jobs[call[c].job] # <<>>
        /\ \A t \in todo : mem'[call[c].at].tasks[t] # <<>>
    BY <1>1, <1>2, <1>4, ObjectsStay
  <2>2. members' = members
    BY <1>1 DEF SameJobs
  <2>. QED
    BY <1>4, <1>5, <1>6, <1>7, <1>10, <2>1, <2>2 DEF CallerInv, Holding, Sending
<1>12. CallsHold
  <2>1. ASSUME NEW b \in Caller PROVE CallerInv(b)'
    <3>1. CASE b = c
      BY <1>11, <3>1
    <3>2. CASE b # c
      BY <1>1, <1>2, <1>7, <1>8, <3>2, CallerStays
    <3>. QED
      BY <3>1, <3>2
  <2>2. ASSUME NEW x \in Driver PROVE ResumeInv(x)'
    BY <1>1, <1>2, <1>7, <1>8, <1>9, ResumeStays
  <2>. QED
    BY <1>7, <1>8, <2>1, <2>2 DEF CallsHold
<1>13. StillLoading
  BY <1>7, <1>9 DEF StillLoading
<1>. QED
  BY <1>1, <1>2, <1>8, <1>12, <1>13, SameAgents, QuietMemory

LEMMA OnwardLoading ==
    ASSUME Parts, NEW x \in Caller \cup Driver, call[x].pc # "jobs",
           NEW v, call' = [call EXCEPT ![x] = v]
    PROVE  StillLoading
<1>1. call \in [Caller \cup Driver -> Thread]
  BY Types DEF Parts, Typed
<1>. QED
  BY <1>1 DEF StillLoading

LEMMA QuietDispatchSkips ==
    ASSUME IInv, NEW x \in Caller \cup Driver, DispatchSkips(x)
    PROVE  Quiet
<1>1. /\ Parts /\ Grow /\ SameJobs /\ call[x].pc \in Sending /\ call[x].pc # "jobs"
      /\ UNCHANGED <<procs, ids, rows, resumed, raced, overtaken>>
      /\ UNCHANGED mem /\ UNCHANGED agent /\ call' = Onward(x)
  BY GrowStill DEF IInv, DispatchSkips, Dispatching, Sending, history, ids, SameJobs
<1>2. MovesAll /\ AnswersKept /\ StillLoading
  BY <1>1, NoneMoves, OnwardLoading DEF Onward
<1>. QED
  BY <1>1, <1>2, OnwardMoves, SameAgents, QuietMemory

(* The process of the thread x changes its books, and x goes on. *)
LEMMA QuietBooks ==
    ASSUME IInv, NEW x \in Caller \cup Driver, call[x].pc \in Sending,
           NEW n \in Memory, mem' = [mem EXCEPT ![call[x].at] = n],
           n.jobs = mem[call[x].at].jobs, n.tasks = mem[call[x].at].tasks,
           n.list = mem[call[x].at].list, n.key = mem[call[x].at].key,
           n.interrupted = mem[call[x].at].interrupted, n.saves = mem[call[x].at].saves,
           mem[call[x].at].local \subseteq n.local,
           \A u \in n.local : u \in mem[call[x].at].local \/ Runs(call[x].at, u),
           call' = Onward(x) \/ call' = [call EXCEPT ![x].pc = "lost"],
           ExecsKnown, UNCHANGED <<procs, ids, rows, history>>
    PROVE  Quiet
<1> DEFINE d == call[x].at
<1>1. /\ Parts /\ Grow /\ SameJobs /\ call[x].pc # "jobs" /\ d \in Driver
      /\ ThreadsKnown(mem[d]) /\ UNCHANGED <<resumed, raced, overtaken>>
  BY GrowStill, SenderKnown DEF IInv, Sending, history, ids, SameJobs, Parts
<1>2. MovesAll /\ AnswersKept
  <2>1. n.interrupted \subseteq n.local /\ SavesKept(d, n)
    BY <1>1 DEF ThreadsKnown, SavesKept
  <2>2. \A p \in n.saves : p \in mem[d].saves
    OBVIOUS
  <2>3. Moves(d, n) /\ AnswerKept(d, n)
    BY <1>1, <2>1, <2>2, BooksMove
  <2> HIDE DEF d
  <2>. QED
    BY <1>1, <2>3, OneMoves DEF d
<1>3. CallsHold /\ SameKeepers
  <2>1. "lost" \in Sending
    BY DEF Sending
  <2>. QED
    BY <1>1, <1>2, <2>1, OnwardMoves, SendingMoves
<1>4. StillLoading
  BY <1>1, OnwardLoading DEF Onward
<1>. QED
  BY <1>1, <1>2, <1>3, <1>4, QuietMemory

LEMMA QuietDispatchLocally ==
    ASSUME IInv, NEW x \in Caller \cup Driver, DispatchLocally(x)
    PROVE  Quiet
<1> DEFINE d == call[x].at
           m == mem[d]
           n == [m EXCEPT !.running = m.running \cup {call[x].cur},
                          !.local = m.local \cup {call[x].cur}]
<1>1. /\ Parts /\ call[x].pc \in Sending /\ x \in Caller
      /\ UNCHANGED <<procs, ids, rows, history>> /\ UNCHANGED agent /\ call' = Onward(x)
      /\ mem' = [mem EXCEPT ![d] = n]
  BY DEF IInv, DispatchLocally, Dispatching, Sending
<1>2. /\ d \in Driver /\ call[x].cur \in Task /\ Runs(d, call[x].cur) /\ m \in Memory
  BY <1>1, SenderKnown, Types DEF Runs, Parts, Typed
<1>3. /\ n \in Memory /\ n.jobs = m.jobs /\ n.tasks = m.tasks /\ n.list = m.list
      /\ n.key = m.key /\ n.local = m.local \cup {call[x].cur}
      /\ n.interrupted = m.interrupted /\ n.saves = m.saves
  BY <1>2 DEF Memory
<1>4. ExecsKnown
  BY <1>1, SameAgents
<1> HIDE DEF n
<1>5. \A u \in n.local : u \in m.local \/ Runs(d, u)
  BY <1>2, <1>3
<1>. QED
  BY <1>1, <1>3, <1>4, <1>5, QuietBooks

LEMMA QuietDispatchSent ==
    ASSUME IInv, NEW x \in Caller \cup Driver, NEW answered \in BOOLEAN,
           DispatchSent(x, answered)
    PROVE  Quiet
<1> DEFINE d == call[x].at
           m == mem[d]
           t == call[x].cur
           a == NodeOf(x)
           n == [m EXCEPT !.running = m.running \cup {t}]
           es == [agent[a].execs EXCEPT ![t] = @ + 1]
           new == [agent[a] EXCEPT !.entry = agent[a].entry \cup {t}, !.execs = es]
<1>1. /\ Parts /\ call[x].pc \in Sending
      /\ UNCHANGED <<procs, ids, rows, history>>
      /\ call' = Onward(x) \/ call' = [call EXCEPT ![x].pc = "lost"]
      /\ mem' = [mem EXCEPT ![d] = n] /\ a \in m.handles
      /\ agent' = [agent EXCEPT ![a] = new]
  BY DEF IInv, DispatchSent, Dispatching, Sending, Remote
<1>2. /\ d \in Driver /\ t \in Task /\ Launched(t) /\ m \in Memory
      /\ agent \in [Agent -> AgentState]
  BY <1>1, SenderKnown, Types DEF Parts, Typed
<1>3. /\ n \in Memory /\ n.jobs = m.jobs /\ n.tasks = m.tasks /\ n.list = m.list
      /\ n.key = m.key /\ n.local = m.local
      /\ n.interrupted = m.interrupted /\ n.saves = m.saves
  BY <1>2 DEF Memory
<1>4. ExecsKnown
  <2>1. a \in Agent
    BY <1>1, <1>2 DEF Memory
  <2> HIDE DEF a
  <2>2. agent[a].execs \in [Task -> Nat] /\ agent[a] \in AgentState
    BY <1>2, <2>1 DEF AgentState
  <2>3. es \in [Task -> Nat] /\ \A u \in Task : es[u] > 0 => u = t \/ agent[a].execs[u] > 0
    BY <1>2, <2>2
  <2> HIDE DEF es
  <2>4. new \in AgentState /\ new.execs = es
    BY <1>2, <2>2, <2>3 DEF AgentState
  <2> HIDE DEF new
  <2>5. agent' \in [Agent -> AgentState]
        /\ \A b \in Agent : agent'[b] = IF b = a THEN new ELSE agent[b]
    BY <1>1, <1>2, <2>4
  <2>. QED
    BY <1>1, <1>2, <2>1, <2>3, <2>4, <2>5 DEF ExecsKnown, Parts, Executed
<1> HIDE DEF n
<1>5. \A u \in n.local : u \in m.local \/ Runs(d, u)
  BY <1>3
<1>. QED
  BY <1>1, <1>3, <1>4, <1>5, QuietBooks

LEMMA QuietFailureHandled ==
    ASSUME IInv, NEW x \in Caller \cup Driver, FailureHandled(x)
    PROVE  Quiet
<1> DEFINE d == call[x].at
           m == mem[d]
           n == [m EXCEPT !.running = m.running \ {call[x].cur}]
<1>1. /\ Parts /\ call[x].pc \in Sending
      /\ UNCHANGED <<procs, ids, rows, history>> /\ UNCHANGED agent /\ call' = Onward(x)
      /\ mem' = [mem EXCEPT ![d] = n]
  BY DEF IInv, FailureHandled, Sending
<1>2. d \in Driver /\ m \in Memory
  BY <1>1, SenderKnown, Types DEF Parts, Typed
<1>3. /\ n \in Memory /\ n.jobs = m.jobs /\ n.tasks = m.tasks /\ n.list = m.list
      /\ n.key = m.key /\ n.local = m.local
      /\ n.interrupted = m.interrupted /\ n.saves = m.saves
  BY <1>2 DEF Memory
<1>4. ExecsKnown
  BY <1>1, SameAgents
<1> HIDE DEF n
<1>5. \A u \in n.local : u \in m.local \/ Runs(d, u)
  BY <1>3
<1>. QED
  BY <1>1, <1>3, <1>4, <1>5, QuietBooks

LEMMA QuietDispatchFails ==
    ASSUME IInv, NEW x \in Caller \cup Driver, DispatchRefused(x) \/ AnswerLost(x)
    PROVE  Quiet
<1> DEFINE d == call[x].at
           m == mem[d]
           t == call[x].cur
           ti == IF x \in Driver THEN 0 ELSE 1
           ji == IF x \in Driver THEN Len(m.jobs[JobOf(t)]) ELSE 1
<1>1. /\ Parts /\ call[x].pc \in Sending /\ call[x].pc # "jobs" /\ DispatchFails(x)
      /\ facts \in [Job -> SUBSET Cause]
      /\ UNCHANGED <<procs, ids, rows, resumed, raced, overtaken>> /\ UNCHANGED agent
      /\ call' = [call EXCEPT ![x].pc = "failing"] /\ SameJobs
  BY DEF IInv, Parts, Typed, DispatchRefused, AnswerLost, DispatchFails, Dispatching, Sending,
         SameJobs, ids
<1>2. /\ d \in Driver /\ t \in Task /\ Launched(t) /\ JobOf(t) \in Job
      /\ m.jobs[JobOf(t)] # <<>> /\ (x \in Caller => m.tasks[t] # <<>>) /\ m \in Memory
  BY <1>1, SenderKnown, Types DEF Parts, Typed
<1>3. Grow /\ "raised" \in facts'[JobOf(t)]
  BY <1>1, <1>2 DEF DispatchFails, Grow, Cause
<1>4. /\ ti = 0 \/ ti \in DOMAIN m.tasks[t]
      /\ ji \in DOMAIN m.jobs[JobOf(t)]
  <2>1. m.jobs[JobOf(t)] \in Seq(JobState) /\ m.tasks[t] \in Seq(TaskObject)
    BY <1>2 DEF Memory
  <2>. QED
    BY <1>2, <2>1, NonemptySeq
<1>5. Fails(d, t, ti, ji, x, m.local)
  BY <1>1 DEF DispatchFails
<1> HIDE DEF ti, ji
<1>6. MovesAll /\ AnswersKept
  <2>1. PICK k \in DOMAIN m.jobs[JobOf(t)] : k = ji
    BY <1>4
  <2>2. /\ x \in Agent \cup Caller \cup Driver \cup {Here} /\ m.local \in SUBSET m.local
        /\ Fails(d, t, ti, k, x, m.local)
    BY <1>5, <2>1
  <2>3. \E n : mem' = [mem EXCEPT ![d] = n] /\ Moves(d, n) /\ AnswerKept(d, n)
    BY <1>1, <1>2, <1>3, <1>4, <2>2, FailsMoves
  <2> HIDE DEF d
  <2>. QED
    BY <1>1, <1>2, <1>3, <2>3, OneMoves
<1>7. CallsHold /\ SameKeepers
  <2>1. "failing" \in Sending
    BY DEF Sending
  <2>. QED
    BY <1>1, <1>6, <2>1, SendingMoves
<1>8. StillLoading
  BY <1>1, OnwardLoading
<1>. QED
  BY <1>1, <1>3, <1>6, <1>7, <1>8, SameAgents, QuietMemory

(* A report ends one execution, and tells the driver of it at most once. *)
LEMMA QuietAgentReports ==
    ASSUME IInv, NEW a \in Agent, NEW t \in Task, NEW ok \in BOOLEAN, NEW lost \in BOOLEAN,
           AgentReports(a, t, ok, lost)
    PROVE  Quiet
<1> DEFINE d == agent[a].home
           m == mem[d]
           less == [agent EXCEPT ![a].execs[t] = @ - 1]
           ti == Len(m.tasks[t])
           ji == Len(m.jobs[JobOf(t)])
           knows == Serves(d) /\ ~lost /\ TaskKnown(d, t)
<1>1. /\ Parts /\ SameJobs /\ agent \in [Agent -> AgentState] /\ facts \in [Job -> SUBSET Cause]
      /\ UNCHANGED <<procs, ids, rows, resumed, raced, overtaken>> /\ StillLoading
      /\ UNCHANGED call /\ agent[a].execs[t] > 0
  BY Types DEF IInv, Parts, Typed, AgentReports, ids, SameJobs, StillLoading
<1>2. d \in Driver /\ m \in Memory /\ Launched(t) /\ JobOf(t) \in Job
  <2>1. d \in Driver /\ Launched(t)
    BY <1>1 DEF AgentState, Parts, Executed
  <2>. QED
    BY <1>1, <2>1, Types, JobOfOwned DEF Parts, Typed, Launched
<1>3. Grow /\ facts'[JobOf(t)] = facts[JobOf(t)] \cup {IF ok THEN "returned" ELSE "raised"}
  <2>1. facts' = [facts EXCEPT ![JobOf(t)] = @ \cup {IF ok THEN "returned" ELSE "raised"}]
    BY DEF AgentReports
  <2>. QED
    BY <1>1, <1>2, <2>1 DEF Grow, Cause
<1>4. /\ less \in [Agent -> AgentState]
      /\ \A b \in Agent, u \in Task : less[b].execs[u] > 0 => Launched(u)
  BY <1>1, LessExecs
<1>5. /\ m.jobs[JobOf(t)] \in Seq(JobState) /\ m.tasks[t] \in Seq(TaskObject)
  BY <1>2 DEF Memory
<1>6. TaskKnown(d, t) => ti \in DOMAIN m.tasks[t]
  BY <1>5, NonemptySeq DEF TaskKnown
<1>7. JobKnown(d, JobOf(t)) => ji \in DOMAIN m.jobs[JobOf(t)]
  BY <1>5, NonemptySeq DEF JobKnown
<1>8. \/ ~knows /\ agent' = less /\ UNCHANGED mem
      \/ /\ knows /\ ~JobKnown(d, JobOf(t))
         /\ mem' = [mem EXCEPT ![d].tasks =
                      SetTask(m.tasks, t, ti, IF ok THEN "COMPLETED" ELSE "FAILED")]
         /\ agent' = less
      \/ /\ knows /\ JobKnown(d, JobOf(t)) /\ ok
         /\ Completes(d, t, ti, ji, a, m.local, less)
      \/ /\ knows /\ JobKnown(d, JobOf(t)) /\ ~ok
         /\ Fails(d, t, ti, ji, a, m.local)
         /\ agent' = less
  BY DEF AgentReports
<1> HIDE DEF ti, ji, less
<1>9. a \in Agent \cup Caller \cup Driver \cup {Here} /\ m.local \in SUBSET m.local
  OBVIOUS
<1> HIDE DEF d
<1>10. CASE ~knows /\ agent' = less /\ UNCHANGED mem
  <2>1. MovesAll /\ AnswersKept /\ ExecsKnown
    BY <1>1, <1>3, <1>4, <1>10, NoneMoves DEF ExecsKnown
  <2>. QED
    BY <1>1, <1>3, <2>1, CallsSame, QuietMemory
<1>11. CASE /\ knows /\ ~JobKnown(d, JobOf(t))
            /\ mem' = [mem EXCEPT ![d].tasks =
                         SetTask(m.tasks, t, ti, IF ok THEN "COMPLETED" ELSE "FAILED")]
            /\ agent' = less
  <2> DEFINE s == IF ok THEN "COMPLETED" ELSE "FAILED"
             tasks == SetTask(m.tasks, t, ti, s)
             n == [m EXCEPT !.tasks = tasks]
  <2>1. PICK i \in DOMAIN m.tasks[t] : i = ti
    BY <1>6, <1>11
  <2>2. s \in TaskState /\ (s = "COMPLETED" => "returned" \in facts'[JobOf(t)])
    BY <1>3 DEF TaskState
  <2> HIDE DEF s
  <2>3. /\ tasks \in [Task -> Seq(TaskObject)]
        /\ \A u \in Task : /\ DOMAIN tasks[u] = DOMAIN m.tasks[u]
                           /\ \A l \in DOMAIN m.tasks[u] : tasks[u][l].state =
                                IF u = t /\ l = i THEN s ELSE m.tasks[u][l].state
    <3>1. tasks = SetTask(m.tasks, t, i, s)
      BY <2>1
    <3> HIDE DEF tasks, m
    <3>. QED
      BY <1>2, <2>1, <2>2, <3>1, SetTaskObject
  <2>4. mem' = [mem EXCEPT ![d] = n]
    BY <1>11 DEF s
  <2> HIDE DEF tasks
  <2>5. /\ n \in Memory /\ n.jobs = m.jobs /\ n.tasks = tasks /\ n.list = m.list
        /\ n.key = m.key /\ n.local = m.local /\ n.interrupted = m.interrupted
        /\ n.saves = m.saves
    BY <1>2, <2>3 DEF Memory
  <2> HIDE DEF n
  <2>6. Moves(d, n)
    <3>1. n.interrupted \subseteq n.local
      BY <1>1, <1>2, <2>5 DEF Parts, ThreadsKnown
    <3>2. \A u \in Task :
            /\ DOMAIN n.tasks[u] = DOMAIN m.tasks[u]
            /\ \A l \in DOMAIN m.tasks[u] :
                 \/ n.tasks[u][l].state = m.tasks[u][l].state
                 \/ Ended(facts', u, n.tasks[u][l].state)
      BY <2>2, <2>3, <2>5 DEF Ended
    <3>. QED
      BY <1>1, <1>2, <1>3, <2>5, <3>1, <3>2, ChangesMove
  <2>7. AnswerKept(d, n)
    BY <2>5 DEF AnswerKept, SavesKept
  <2>8. MovesAll /\ AnswersKept /\ ExecsKnown
    BY <1>1, <1>2, <1>3, <1>4, <1>11, <2>4, <2>6, <2>7, OneMoves DEF ExecsKnown
  <2>. QED
    BY <1>1, <1>3, <2>8, CallsSame, QuietMemory
<1>12. CASE knows /\ JobKnown(d, JobOf(t)) /\ ok /\ Completes(d, t, ti, ji, a, m.local, less)
  <2>1. PICK i \in DOMAIN m.tasks[t] : i = ti
    BY <1>6, <1>12
  <2>2. PICK k \in DOMAIN m.jobs[JobOf(t)] : k = ji
    BY <1>7, <1>12
  <2>3. Completes(d, t, i, k, a, m.local, less) /\ "returned" \in facts'[JobOf(t)]
    BY <1>3, <1>12, <2>1, <2>2
  <2>4. \E n : mem' = [mem EXCEPT ![d] = n] /\ Moves(d, n) /\ AnswerKept(d, n)
    BY <1>1, <1>2, <1>3, <1>9, <2>3, CompletesMoves
  <2>5. agent' \in [Agent -> AgentState] /\ \A b \in Agent : agent'[b].execs = less[b].execs
    BY <1>4, <2>3, CompletesAgents
  <2>6. MovesAll /\ AnswersKept /\ ExecsKnown
    BY <1>1, <1>2, <1>3, <1>4, <2>4, <2>5, OneMoves DEF ExecsKnown
  <2>. QED
    BY <1>1, <1>3, <2>6, CallsSame, QuietMemory
<1>13. CASE /\ knows /\ JobKnown(d, JobOf(t)) /\ ~ok
            /\ Fails(d, t, ti, ji, a, m.local) /\ agent' = less
  <2>1. PICK i \in DOMAIN m.tasks[t] : i = ti
    BY <1>6, <1>13
  <2>2. PICK k \in DOMAIN m.jobs[JobOf(t)] : k = ji
    BY <1>7, <1>13
  <2>3. Fails(d, t, i, k, a, m.local) /\ "raised" \in facts'[JobOf(t)]
    BY <1>3, <1>13, <2>1, <2>2
  <2>4. \E n : mem' = [mem EXCEPT ![d] = n] /\ Moves(d, n) /\ AnswerKept(d, n)
    BY <1>1, <1>2, <1>3, <1>9, <2>3, FailsMoves
  <2>5. MovesAll /\ AnswersKept /\ ExecsKnown
    BY <1>1, <1>2, <1>3, <1>4, <1>13, <2>4, OneMoves DEF ExecsKnown
  <2>. QED
    BY <1>1, <1>3, <2>5, CallsSame, QuietMemory
<1>. QED
  BY <1>8, <1>10, <1>11, <1>12, <1>13

(* The stored tasks become objects, and the lists name them. *)
LEMMA QuietLoadTasks ==
    ASSUME IInv, NEW d \in Driver, LoadTasks(d)
    PROVE  Quiet
<1> DEFINE m == mem[d]
           tasks == [t \in Task |-> IF taskRow[t].state = "none" THEN m.tasks[t]
                                    ELSE Append(m.tasks[t], taskRow[t])]
           list == [j \in Job |-> IF StoredTasks(j) = {} THEN m.list[j] ELSE StoredTasks(j)]
           n == [m EXCEPT !.tasks = tasks, !.list = list]
           v == [call[d] EXCEPT !.pc = "again"]
<1>1. /\ Parts /\ Grow /\ SameJobs /\ m \in Memory /\ facts' = facts
      /\ members \in [Job -> SUBSET Task] /\ MembersInv
      /\ ThreadsKnown(m) /\ TasksKnown(m) /\ JobsKnown(m) /\ TaskRows /\ ResumeInv(d)
      /\ call[d] \in Thread /\ call[d].pc = "tasks" /\ UNCHANGED agent
      /\ UNCHANGED <<procs, ids, rows, resumed, raced, overtaken>>
      /\ taskRow \in [Task -> [state : TaskState \cup {"none"}, node : Agent \cup {None, Here}]]
  BY GrowStill, Types DEF IInv, Parts, Typed, LoadTasks, history, ids, SameJobs
<1>2. mem' = [mem EXCEPT ![d] = n] /\ call' = [call EXCEPT ![d] = v]
  BY DEF LoadTasks
<1>3. ASSUME NEW t \in Task
      PROVE  /\ tasks[t] \in Seq(TaskObject) /\ DOMAIN m.tasks[t] \subseteq DOMAIN tasks[t]
             /\ taskRow[t].state # "none" => tasks[t] # <<>>
             /\ \A i \in DOMAIN tasks[t] : t \in Owned /\ Ended(facts, t, tasks[t][i].state)
  <2>1. m.tasks[t] \in Seq(TaskObject)
        /\ \A i \in DOMAIN m.tasks[t] : t \in Owned /\ Ended(facts, t, m.tasks[t][i].state)
    BY <1>1 DEF Memory, TasksKnown
  <2>2. CASE taskRow[t].state = "none"
    BY <2>1, <2>2
  <2>3. CASE taskRow[t].state # "none"
    <3>1. taskRow[t] \in TaskObject
      BY <1>1, <2>3 DEF TaskObject
    <3>2. t \in Owned /\ Ended(facts, t, taskRow[t].state)
      BY <1>1, <2>3 DEF TaskRows, Launched
    <3>3. tasks[t] = Append(m.tasks[t], taskRow[t])
      BY <2>3
    <3> HIDE DEF tasks, m
    <3>4. /\ tasks[t] \in Seq(TaskObject) /\ Len(tasks[t]) = Len(m.tasks[t]) + 1
          /\ \A i \in 1 .. Len(m.tasks[t]) : tasks[t][i] = m.tasks[t][i]
          /\ tasks[t][Len(m.tasks[t]) + 1] = taskRow[t]
      BY <2>1, <3>1, <3>3, AppendProperties
    <3>5. /\ DOMAIN m.tasks[t] = 1 .. Len(m.tasks[t]) /\ Len(m.tasks[t]) \in Nat
          /\ DOMAIN tasks[t] = 1 .. (Len(m.tasks[t]) + 1)
      BY <2>1, <3>4, NonemptySeq
    <3>6. tasks[t] # <<>>
      BY <3>4, <3>5, NonemptySeq
    <3>7. \A i \in DOMAIN tasks[t] : i \in DOMAIN m.tasks[t] \/ i = Len(m.tasks[t]) + 1
      BY <3>5
    <3>8. \A i \in DOMAIN tasks[t] : t \in Owned /\ Ended(facts, t, tasks[t][i].state)
      BY <2>1, <3>2, <3>4, <3>5, <3>7
    <3>9. DOMAIN m.tasks[t] \subseteq DOMAIN tasks[t]
      BY <3>5
    <3>. QED
      BY <3>4, <3>6, <3>8, <3>9
  <2>. QED
    BY <2>2, <2>3
<1>4. tasks \in [Task -> Seq(TaskObject)]
  BY <1>3
<1>5. /\ list \in [Job -> SUBSET Task]
      /\ \A j \in Job : list[j] \subseteq members[j]
                        /\ \A t \in list[j] : t \in m.list[j] \/ taskRow[t].state # "none"
  BY <1>1 DEF StoredTasks, JobsKnown, Memory
<1> HIDE DEF tasks, list
<1>6. /\ n \in Memory /\ n.jobs = m.jobs /\ n.tasks = tasks /\ n.list = list
      /\ n.key = m.key /\ n.local = m.local /\ n.interrupted = m.interrupted
      /\ n.saves = m.saves
  BY <1>1, <1>4, <1>5 DEF Memory
<1> HIDE DEF n
<1>7. Moves(d, n)
  <2>1. ThreadsKnown(n)
    <3>1. n.interrupted \subseteq n.local
      BY <1>1, <1>6 DEF ThreadsKnown
    <3>. QED
      BY <1>1, <1>3, <1>6, <3>1, ThreadsStay
  <2>2. ASSUME NEW j \in Job, NEW t \in n.list[j] PROVE n.tasks[t] # <<>>
    <3>1. t \in Task /\ (t \in m.list[j] \/ taskRow[t].state # "none")
      BY <1>1, <1>5, <1>6, <2>2
    <3>2. CASE t \in m.list[j]
      <4>1. m.tasks[t] # <<>> /\ m.tasks[t] \in Seq(TaskObject)
        BY <1>1, <3>1, <3>2 DEF JobsKnown, Memory
      <4>2. 1 \in DOMAIN tasks[t]
        BY <1>3, <3>1, <4>1, NonemptySeq
      <4>. QED
        BY <1>3, <1>6, <3>1, <4>2, NonemptySeq
    <3>3. CASE taskRow[t].state # "none"
      BY <1>3, <1>6, <3>1, <3>3
    <3>. QED
      BY <3>1, <3>2, <3>3
  <2>. QED
    BY <1>1, <1>3, <1>5, <1>6, <2>1, <2>2 DEF Moves
<1>8. AnswerKept(d, n)
  BY <1>6 DEF AnswerKept, SavesKept
<1>9. MovesAll /\ AnswersKept
  BY <1>1, <1>2, <1>7, <1>8, OneMoves
<1>10. v \in Thread /\ v.pc = "again" /\ v.at = call[d].at /\ v.todo = call[d].todo
  BY <1>1 DEF Thread
<1> HIDE DEF v
<1>11. CallsHold /\ SameKeepers
  <2>1. v.at = d /\ \A t \in v.todo : Launched(t)
    BY <1>1, <1>10 DEF ResumeInv
  <2>. QED
    BY <1>1, <1>2, <1>9, <1>10, <2>1, ResumeMoves DEF Sending
<1>12. StillLoading
  BY <1>1, <1>2, OnwardLoading
<1>. QED
  BY <1>1, <1>9, <1>11, <1>12, SameAgents, QuietMemory

LEMMA QuietListAgain ==
    ASSUME IInv, NEW d \in Driver, ListAgain(d)
    PROVE  Quiet
<1> DEFINE todo == {t \in Task : taskRow[t].state = "RUNNING"}
           pc == IF todo = {} THEN "idle" ELSE "next"
           v == [call[d] EXCEPT !.todo = todo, !.pc = pc]
<1>1. /\ Parts /\ Grow /\ SameJobs /\ TaskRows /\ ResumeInv(d)
      /\ call[d] \in Thread /\ call[d].pc = "again" /\ UNCHANGED agent /\ UNCHANGED mem
      /\ UNCHANGED <<procs, ids, rows, resumed, raced, overtaken>>
  BY GrowStill, Types DEF IInv, Parts, Typed, ListAgain, history, ids, SameJobs
<1>2. call' = [call EXCEPT ![d] = v]
  BY DEF ListAgain
<1>3. todo \subseteq Task /\ pc \in {"idle", "next"} /\ \A t \in todo : Launched(t)
  BY <1>1 DEF TaskRows
<1> HIDE DEF todo, pc
<1>4. v \in Thread /\ v.pc = pc /\ v.at = call[d].at /\ v.todo = todo
  BY <1>1, <1>3 DEF Thread
<1> HIDE DEF v
<1>5. MovesAll /\ AnswersKept
  BY <1>1, NoneMoves
<1>6. CallsHold /\ SameKeepers
  <2>1. v.at = d
    BY <1>1, <1>4 DEF ResumeInv
  <2>. QED
    BY <1>1, <1>2, <1>3, <1>4, <1>5, <2>1, ResumeMoves DEF Sending
<1>7. StillLoading
  BY <1>1, <1>2, OnwardLoading
<1>. QED
  BY <1>1, <1>5, <1>6, <1>7, SameAgents, QuietMemory

LEMMA QuietResumeNext ==
    ASSUME IInv, NEW d \in Driver, NEW t \in Task, ResumeNext(d, t)
    PROVE  Quiet
<1> DEFINE todo == call[d].todo \ {t}
           pc == IF todo = {} THEN "idle" ELSE "next"
           v1 == [call[d] EXCEPT !.pc = "dispatch", !.cur = t]
           v2 == [call[d] EXCEPT !.todo = todo, !.pc = pc]
<1>1. /\ Parts /\ Grow /\ SameJobs /\ ResumeInv(d) /\ t \in call[d].todo
      /\ call[d] \in Thread /\ call[d].pc = "next" /\ UNCHANGED agent /\ UNCHANGED mem
      /\ UNCHANGED <<procs, ids, rows, resumed, raced, overtaken>>
  BY GrowStill, Types DEF IInv, Parts, Typed, ResumeNext, history, ids, SameJobs
<1>2. \/ mem[d].jobs[JobOf(t)] # <<>> /\ call' = [call EXCEPT ![d] = v1]
      \/ call' = [call EXCEPT ![d] = v2]
  BY DEF ResumeNext, JobKnown
<1>3. todo \subseteq call[d].todo /\ pc \in {"idle", "next"}
  OBVIOUS
<1> HIDE DEF todo, pc
<1>4. /\ v1 \in Thread /\ v1.pc = "dispatch" /\ v1.at = call[d].at
      /\ v1.todo = call[d].todo /\ v1.cur = t
  BY <1>1 DEF Thread
<1>5. v2 \in Thread /\ v2.pc = pc /\ v2.at = call[d].at /\ v2.todo = todo
  BY <1>1, <1>3 DEF Thread
<1> HIDE DEF v1, v2
<1>6. MovesAll /\ AnswersKept
  BY <1>1, NoneMoves
<1>7. call[d].at = d /\ \A u \in call[d].todo : Launched(u)
  BY <1>1 DEF ResumeInv
<1>8. CallsHold /\ SameKeepers
  <2>1. CASE mem[d].jobs[JobOf(t)] # <<>> /\ call' = [call EXCEPT ![d] = v1]
    BY <1>1, <1>4, <1>6, <1>7, <2>1, ResumeMoves
  <2>2. CASE call' = [call EXCEPT ![d] = v2]
    BY <1>1, <1>3, <1>5, <1>6, <1>7, <2>2, ResumeMoves DEF Sending
  <2>. QED
    BY <1>2, <2>1, <2>2
<1>9. StillLoading
  BY <1>1, <1>2, OnwardLoading
<1>. QED
  BY <1>1, <1>6, <1>8, <1>9, SameAgents, QuietMemory
-----------------------------------------------------------------------------
(* The lookup of the key. *)
LEMMA LookUpStep ==
    ASSUME IInv, NEW c \in Caller, NEW d \in Driver, LookUp(c, d)
    PROVE  IInv'
<1> DEFINE pc == IF call[c].keyed /\ mem[d].key # None THEN "done" ELSE "new"
           v == [call[c] EXCEPT !.at = d, !.pc = pc]
<1>1. /\ Parts /\ Grow /\ SameJobs /\ CallerInv(c) /\ call[c] \in Thread
      /\ call[c].pc = "called" /\ UNCHANGED <<mem, agent, procs, rows, resumed, overtaken>>
      /\ UNCHANGED <<jobRow, taskRow, alive, leads>>
      /\ raced \subseteq raced' /\ raced' \subseteq raced \cup {d}
  BY GrowStill, Types
     DEF IInv, Parts, Typed, LookUp, ids, rows, procs, SameJobs
<1>2. call' = [call EXCEPT ![c] = v]
  BY DEF LookUp
<1>3. /\ pc \in {"done", "new"} /\ (pc = "new" /\ call[c].keyed => mem[d].key = None)
  OBVIOUS
<1> HIDE DEF pc
<1>4. /\ v \in Thread /\ v.pc = pc /\ v.at = d /\ v.keyed = call[c].keyed
      /\ v.job = None /\ v.size # 0
  BY <1>1, <1>3 DEF Thread, CallerInv
<1> HIDE DEF v
<1>5. /\ call' \in [Caller \cup Driver -> Thread]
      /\ call'[c] = v /\ \A y \in Caller \cup Driver : y # c => call'[y] = call[y]
  BY <1>1, <1>2, <1>4, OneCall
<1>6. PlacesShrink /\ c \notin Driver
  BY <1>3, <1>4, <1>5, FailoverAssumption DEF PlacesShrink
<1>7. MovesAll /\ AnswersKept
  BY <1>1, NoneMoves
<1>8. CallsHold
  <2>1. ASSUME NEW b \in Caller PROVE CallerInv(b)'
    <3>1. CASE b = c
      BY <1>3, <1>4, <1>5, <3>1 DEF CallerInv, Holding, Sending
    <3>2. CASE b # c
      BY <1>1, <1>5, <1>6, <1>7, <3>2, CallerStays
    <3>. QED
      BY <3>1, <3>2
  <2>2. ASSUME NEW x \in Driver PROVE ResumeInv(x)'
    BY <1>1, <1>5, <1>6, <1>7, ResumeStays
  <2>. QED
    BY <1>5, <1>6, <2>1, <2>2 DEF CallsHold
<1>9. TaskRows' /\ JobRows' /\ \A j \in Job \ resumed : Single(j)'
  BY <1>1, <1>6, <1>7, TaskRowsStay, JobRowsStay, SingleStays
<1>10. Parts'
  <2>1. ExecsKnown
    BY <1>1, SameAgents
  <2>. QED
    BY <1>1, <1>7, <1>8, <1>9, <2>1, Types, PartsStay DEF ExecsKnown, Parts, Typed
<1>11. \A e \in Driver : Leading(e)' => Leading(e)
  BY <1>1, <1>5, <1>6 DEF Leading
<1>12. Keys'
  <2>1. ASSUME NEW e \in Driver PROVE KeySet(e)' /\ KeyAtHand(e)'
    <3>1. KeySet(e) /\ KeyAtHand(e) /\ mem' = mem /\ keyed' = keyed /\ Stored' = Stored
      BY <1>1 DEF IInv, Keys, SameJobs, Stored
    <3>2. KeySet(e)'
      <4>1. \A b \in Caller : b # c => call'[b] = call[b]
        BY <1>5
      <4>. QED
        BY <1>4, <1>5, <3>1, <4>1 DEF KeySet
    <3>3. KeyAtHand(e)'
      BY <1>11, <3>1 DEF KeyAtHand
    <3>. QED
      BY <3>2, <3>3
  <2>2. ASSUME NEW e \in Driver, e \notin raced',
               NEW a \in Caller, NEW b \in Caller, Keeper(a, e)', Keeper(b, e)'
        PROVE  a = b
    <3>1. OneKey(e) /\ KeySet(e)
      BY <1>1, <2>2 DEF IInv, Keys
    <3>2. ASSUME NEW x \in Caller, x # c, Keeper(x, e)', Keeper(c, e)'
          PROVE  FALSE
      <4>1. call'[x] = call[x] /\ e = d /\ pc = "new" /\ call[c].keyed
        BY <1>3, <1>4, <1>5, <3>2 DEF Keeper
      <4>2. mem[d].key = None /\ call[x].at = d /\ call[x].keyed
        BY <1>3, <3>2, <4>1 DEF Keeper
      <4>3. CASE call[x].pc = "new"
        <5>1. raced' = raced \cup {d}
          BY <3>2, <4>1, <4>2, <4>3 DEF LookUp
        <5>. QED
          BY <2>2, <4>1, <5>1
      <4>4. CASE call[x].job # None
        BY <3>1, <4>1, <4>2, <4>4 DEF KeySet
      <4>. QED
        BY <3>2, <4>1, <4>3, <4>4 DEF Keeper
    <3>3. CASE a # c /\ b # c
      BY <1>5, <2>2, <3>1, <3>3 DEF OneKey, Keeper
    <3>. QED
      BY <2>2, <3>2, <3>3
  <2>. QED
    BY <2>1, <2>2 DEF Keys, OneKey
<1>13. Answers'
  BY <1>1, <1>7, <1>11, AnswersStay DEF IInv
<1>. QED
  BY <1>10, <1>12, <1>13 DEF IInv

-----------------------------------------------------------------------------
(* The row of a job is written from one of its objects. *)
LEMMA OneJobRow ==
    ASSUME IInv, NEW d \in Driver, NEW j \in Job, NEW i \in DOMAIN mem[d].jobs[j],
           WriteJob(d, j, i),
           \A c \in Caller : call[c].pc = "place" => call[c].job # j,
           UNCHANGED <<leads, alive, facts>>, SameJobs, SameKeepers, PlacesShrink,
           raced' = raced, \A e \in Driver : call'[e].pc = call[e].pc
    PROVE  /\ JobRows' /\ jobRow' \in [Job -> JobState \cup {"none"}]
           /\ overtaken' \subseteq Driver
           /\ \A k \in Job : k # j => jobRow'[k] = jobRow[k]
           /\ d \notin leads => UNCHANGED <<jobRow, overtaken>>
           /\ d \in leads => jobRow'[j] = mem[d].jobs[j][i]
           /\ \A e \in Driver : Leading(e)' =>
                Leading(e) /\ (d \in leads => e = d /\ i = Len(mem[d].jobs[j]))
<1>1. /\ Parts /\ alive \subseteq Driver /\ leads \subseteq alive
      /\ jobRow \in [Job -> JobState \cup {"none"}] /\ overtaken \subseteq Driver
      /\ mem[d] \in Memory /\ JobsKnown(mem[d]) /\ JobRows
      /\ call \in [Caller \cup Driver -> Thread]
  BY Types DEF IInv, Parts, Typed
<1>2. /\ mem[d].jobs[j][i] \in JobState /\ members[j] # {}
      /\ Caused(facts, j, mem[d].jobs[j][i])
  BY <1>1, NonemptySeq DEF JobsKnown, Memory
<1>3. \/ d \notin leads /\ UNCHANGED <<jobRow, overtaken>>
      \/ /\ d \in leads /\ jobRow' = [jobRow EXCEPT ![j] = mem[d].jobs[j][i]]
         /\ overtaken' = overtaken \cup
              IF i = Len(mem[d].jobs[j]) THEN alive \ {d} ELSE alive
  BY DEF WriteJob
<1>4. /\ jobRow' \in [Job -> JobState \cup {"none"}] /\ overtaken \subseteq overtaken'
      /\ overtaken' \subseteq Driver
      /\ \A k \in Job : k # j => jobRow'[k] = jobRow[k]
      /\ d \in leads => jobRow'[j] = mem[d].jobs[j][i]
      /\ d \notin leads => UNCHANGED <<jobRow, overtaken>>
  BY <1>1, <1>2, <1>3
<1>5. JobRows'
  <2>1. ASSUME NEW k \in Job, jobRow'[k] # "none"
        PROVE  /\ members[k] # {} /\ Caused(facts, k, jobRow'[k])
               /\ \A c \in Caller : call[c].pc = "place" => call[c].job # k
    BY <1>1, <1>2, <1>4, <2>1 DEF JobRows
  <2>. QED
    BY <2>1 DEF JobRows, SameJobs, PlacesShrink, Caused
<1>6. ASSUME NEW e \in Driver, Leading(e)'
      PROVE  Leading(e) /\ (d \in leads => e = d /\ i = Len(mem[d].jobs[j]))
  <2>1. Leading(e) /\ e \in alive
    BY <1>1, <1>4, <1>6 DEF Leading
  <2>. QED
    BY <1>3, <1>6, <2>1 DEF Leading
<1>. QED
  BY <1>4, <1>5, <1>6

LEMMA JobWritten ==
    ASSUME IInv, NEW d \in Driver, NEW j \in Job, NEW i \in DOMAIN mem[d].jobs[j],
           WriteJob(d, j, i),
           \A c \in Caller : call[c].pc = "place" => call[c].job # j,
           UNCHANGED <<leads, alive, facts, taskRow, agent>>,
           SameJobs, SameKeepers, CallsHold, MovesAll,
           raced' = raced, \A e \in Driver : call'[e].pc = call[e].pc,
           \A e \in Driver : mem'[e].jobs = mem[e].jobs,
           \A e \in Driver \ {d} : mem'[e].saves = mem[e].saves,
           \A p \in mem[d].saves : p \in mem'[d].saves \/ (p.task \in members[j] /\ p.ji = i)
    PROVE  IInv'
<1>1. Parts /\ Grow /\ PlacesShrink /\ MembersInv /\ JobRows
  BY GrowStill DEF IInv, Parts, CallsHold
<1>2. /\ JobRows' /\ jobRow' \in [Job -> JobState \cup {"none"}]
      /\ overtaken' \subseteq Driver
      /\ \A k \in Job : k # j => jobRow'[k] = jobRow[k]
      /\ d \notin leads => UNCHANGED <<jobRow, overtaken>>
      /\ d \in leads => jobRow'[j] = mem[d].jobs[j][i]
      /\ \A e \in Driver : Leading(e)' =>
           Leading(e) /\ (d \in leads => e = d /\ i = Len(mem[d].jobs[j]))
  BY <1>1, OneJobRow
<1>3. mem[d].jobs[j] # <<>>
  BY <1>1, NonemptySeq, Types DEF Parts, Typed, Memory
<1>4. \A k \in Job \ resumed : Single(k)'
  <2>1. ASSUME NEW k \in Job, k \notin resumed PROVE Single(k)'
    <3>1. Single(k)
      BY <1>1, <2>1 DEF Parts
    <3>2. ASSUME jobRow'[k] \in Final, NEW e \in Driver, NEW l \in DOMAIN mem[e].jobs[k]
          PROVE  mem[e].jobs[k][l] \in Final
      <4>1. CASE jobRow[k] \in Final
        BY <3>1, <3>2, <4>1 DEF Single
      <4>2. CASE jobRow[k] \notin Final
        <5>1. k = j /\ d \in leads /\ mem[d].jobs[j][i] \in Final
          BY <1>2, <3>2, <4>2
        <5>2. mem[e].jobs[j] # <<>>
          BY <1>1, <3>2, <5>1, NonemptySeq, Types DEF Parts, Typed, Memory
        <5>3. e = d /\ l = 1 /\ i = 1
          BY <1>3, <3>1, <3>2, <5>1, <5>2 DEF Single
        <5>. QED
          BY <5>1, <5>3
      <4>. QED
        BY <4>1, <4>2
    <3>. QED
      BY <3>1, <3>2 DEF Single
  <2>. QED
    BY <2>1
<1>5. Parts'
  <2>1. TaskRows' /\ ExecsKnown
    BY <1>1, TaskRowsStay, SameAgents
  <2>2. /\ alive' \subseteq Driver /\ leads' \subseteq alive' /\ raced' \subseteq Driver
        /\ taskRow' \in [Task -> [state : TaskState \cup {"none"},
                                  node : Agent \cup {None, Here}]]
    BY <1>1, Types DEF Parts, Typed
  <2>. QED
    BY <1>1, <1>2, <1>4, <2>1, <2>2, PartsStay DEF ExecsKnown
<1>6. Keys'
  <2>1. ASSUME NEW e \in Driver PROVE KeySet(e)' /\ KeyAtHand(e)'
    <3>1. /\ KeySet(e) /\ KeyAtHand(e) /\ keyed' = keyed /\ mem'[e].key = mem[e].key
          /\ mem'[e].jobs = mem[e].jobs
      BY DEF IInv, Keys, SameJobs, MovesAll, Moves
    <3>2. KeySet(e)'
      BY <3>1 DEF KeySet, SameKeepers
    <3>3. ASSUME Leading(e)', Stored' \cap keyed # {} PROVE mem[e].key \in keyed
      <4>1. CASE Stored \cap keyed # {}
        BY <1>2, <3>1, <3>3, <4>1 DEF KeyAtHand
      <4>2. CASE Stored \cap keyed = {}
        <5>1. j \in keyed /\ d \in leads
          BY <1>2, <3>3, <4>2 DEF Stored
        <5>. QED
          BY <1>2, <1>3, <3>1, <3>3, <5>1 DEF KeyAtHand
      <4>. QED
        BY <4>1, <4>2
    <3>4. KeyAtHand(e)'
      BY <3>1, <3>3 DEF KeyAtHand
    <3>. QED
      BY <3>2, <3>4
  <2>2. ASSUME NEW e \in Driver, e \notin raced PROVE OneKey(e)'
    <3>1. OneKey(e)
      BY <2>2 DEF IInv, Keys
    <3>2. \A c \in Caller : Keeper(c, e)' => Keeper(c, e)
      BY DEF SameKeepers, Keeper
    <3>. QED
      BY <3>1, <3>2 DEF OneKey
  <2>. QED
    BY <2>1, <2>2 DEF Keys
<1>7. Answers'
  <2> SUFFICES ASSUME NEW e \in Driver, NEW k \in Job, Leading(e)', mem[e].jobs[k] # <<>>,
                      Table(mem[e].jobs[k]) \in Outcome,
                      Cardinality(members[k]) = 1, jobRow'[k] # "none"
               PROVE  \/ jobRow'[k] = Table(mem[e].jobs[k])
                      \/ \E p \in mem'[e].saves :
                            p.task \in members[k] /\ p.ji = Len(mem[e].jobs[k])
    BY DEF Answers, AnswerSaved, SameJobs
  <2>1. Leading(e) /\ (d \in leads => e = d /\ i = Len(mem[d].jobs[j]))
    BY <1>2
  <2>2. CASE d \in leads /\ k = j
    BY <1>2, <2>1, <2>2 DEF Table
  <2>3. CASE ~(d \in leads /\ k = j)
    <3>1. jobRow'[k] = jobRow[k]
      BY <1>2, <2>3
    <3>2. \/ jobRow[k] = Table(mem[e].jobs[k])
          \/ \E p \in mem[e].saves : p.task \in members[k] /\ p.ji = Len(mem[e].jobs[k])
      BY <2>1, <3>1 DEF IInv, Answers, AnswerSaved
    <3>3. ASSUME NEW p \in mem[e].saves, p.task \in members[k]
          PROVE  p \in mem'[e].saves
      <4>1. CASE e # d
        BY <3>3, <4>1
      <4>2. CASE e = d
        <5>1. k # j
          BY <2>1, <2>3, <4>2 DEF Leading
        <5>2. p.task \in Task
          BY <1>1, <3>3, Types DEF Parts, Typed
        <5>. QED
          BY <1>1, <3>3, <4>2, <5>1, <5>2 DEF MembersInv
      <4>. QED
        BY <4>1, <4>2
    <3>. QED
      BY <3>1, <3>2, <3>3
  <2>. QED
    BY <2>2, <2>3
<1>. QED
  BY <1>5, <1>6, <1>7 DEF IInv

LEMMA SaveNewJobStep ==
    ASSUME IInv, NEW c \in Caller, SaveNewJob(c)
    PROVE  IInv'
<1> DEFINE d == call[c].at
           j == call[c].job
           v == [call[c] EXCEPT !.pc = "saveTask"]
<1>1. /\ Parts /\ Grow /\ SameJobs /\ CallerInv(c) /\ call[c] \in Thread
      /\ call[c].pc = "saveJob" /\ UNCHANGED <<leads, alive, facts, taskRow, agent>>
      /\ UNCHANGED mem /\ raced' = raced /\ WriteJob(d, j, 1)
      /\ members \in [Job -> SUBSET Task]
  BY GrowStill, Types
     DEF IInv, Parts, Typed, SaveNewJob, ids, procs, SameJobs
<1>2. /\ d \in Driver /\ j \in Job /\ call[c].todo \subseteq members[j]
      /\ mem[d].jobs[j] # <<>> /\ call[c].todo # {}
      /\ \A t \in call[c].todo : Launched(t)
  BY <1>1 DEF CallerInv, Holding
<1>3. 1 \in DOMAIN mem[d].jobs[j]
  BY <1>1, <1>2, NonemptySeq, Types DEF Parts, Typed, Memory
<1>4. \A b \in Caller : call[b].pc = "place" => call[b].job # j
  BY <1>2 DEF Launched
<1>5. MovesAll
  BY <1>1, NoneMoves
<1>6. call' = [call EXCEPT ![c] = v]
  BY DEF SaveNewJob
<1>7. /\ v \in Thread /\ v.pc = "saveTask" /\ v.at = call[c].at
      /\ v.keyed = call[c].keyed /\ v.job = call[c].job /\ v.todo = call[c].todo
  BY <1>1 DEF Thread
<1> HIDE DEF v
<1>8. CallsHold /\ SameKeepers
  BY <1>1, <1>5, <1>6, <1>7, CallerMoves DEF Holding, Sending
<1>9. \A e \in Driver : call'[e].pc = call[e].pc
  <2>1. c \notin Driver
    BY FailoverAssumption
  <2>. QED
    BY <1>1, <1>6, <1>7, <2>1, OneCall
<1>10. PICK i \in DOMAIN mem[d].jobs[j] : i = 1 /\ WriteJob(d, j, i)
  BY <1>1, <1>3
<1> HIDE DEF d, j
<1>. QED
  BY <1>1, <1>2, <1>4, <1>5, <1>8, <1>9, <1>10, JobWritten

LEMMA PersistJobStep ==
    ASSUME IInv, NEW d \in Driver, NEW p \in mem[d].saves, PersistJob(d, p)
    PROVE  IInv'
<1> DEFINE m == mem[d]
           j == JobOf(p.task)
           n == [m EXCEPT !.saves = m.saves \ {p}]
<1>1. /\ Parts /\ Grow /\ SameJobs /\ m \in Memory /\ ThreadsKnown(m) /\ MembersInv
      /\ UNCHANGED <<leads, alive, facts, taskRow, agent>> /\ UNCHANGED call
      /\ raced' = raced /\ WriteJob(d, j, p.ji) /\ members \in [Job -> SUBSET Task]
      /\ mem \in [Driver -> Memory]
  BY GrowStill, Types
     DEF IInv, Parts, Typed, PersistJob, ids, procs, SameJobs
<1>2. /\ Launched(p.task) /\ p.ji \in DOMAIN m.jobs[j]
  BY <1>1 DEF ThreadsKnown
<1>3. j \in Job /\ p.task \in members[j]
  BY <1>1, <1>2, JobOfOwned DEF Launched
<1>4. \A c \in Caller : call[c].pc = "place" => call[c].job # j
  BY <1>2, <1>3 DEF Launched
<1>5. mem' = [mem EXCEPT ![d] = n]
  BY DEF PersistJob
<1>6. /\ n \in Memory /\ n.jobs = m.jobs /\ n.tasks = m.tasks /\ n.list = m.list
      /\ n.key = m.key /\ n.local = m.local /\ n.interrupted = m.interrupted
      /\ n.saves = m.saves \ {p}
  BY <1>1 DEF Memory
<1> HIDE DEF n
<1>7. Moves(d, n)
  <2>1. n.interrupted \subseteq n.local
    BY <1>1, <1>6 DEF ThreadsKnown
  <2>2. \A q \in n.saves : q \in m.saves
    BY <1>6
  <2>. QED
    BY <1>1, <1>6, <2>1, <2>2, ChangesMove
<1>8. \A e \in Driver : mem'[e] = IF e = d THEN n ELSE mem[e]
  BY <1>1, <1>5
<1>9. MovesAll
  <2>1. ASSUME NEW e \in Driver PROVE Moves(e, mem'[e])
    <3>1. CASE e = d
      BY <1>7, <1>8, <3>1
    <3>2. CASE e # d
      <4>1. mem'[e] = mem[e]
        BY <1>8, <3>2
      <4>. QED
        BY <1>1, <4>1, StillMoves
    <3>. QED
      BY <3>1, <3>2
  <2>2. mem' \in [Driver -> Memory]
    BY <1>1, <1>5, <1>6
  <2>. QED
    BY <2>1, <2>2 DEF MovesAll
<1>10. CallsHold /\ SameKeepers
  BY <1>1, <1>9, CallsSame
<1>11. /\ \A e \in Driver : mem'[e].jobs = mem[e].jobs
       /\ \A e \in Driver \ {d} : mem'[e].saves = mem[e].saves
       /\ \A q \in m.saves : q \in mem'[d].saves \/ (q.task \in members[j] /\ q.ji = p.ji)
  BY <1>3, <1>6, <1>8
<1>12. PICK i \in DOMAIN mem[d].jobs[j] : i = p.ji
  BY <1>2
<1>13. /\ WriteJob(d, j, i) /\ \A e \in Driver : call'[e].pc = call[e].pc
       /\ \A q \in mem[d].saves : q \in mem'[d].saves \/ (q.task \in members[j] /\ q.ji = i)
  BY <1>1, <1>11, <1>12
<1> HIDE DEF j, m
<1>. QED
  BY <1>1, <1>3, <1>4, <1>9, <1>10, <1>11, <1>13, JobWritten

-----------------------------------------------------------------------------
(* A process loads the jobs. *)
LEMMA LoadJobsStep ==
    ASSUME IInv, NEW d \in Driver, LoadJobs(d)
    PROVE  IInv'
<1> DEFINE m == mem[d]
           jobs == [j \in Job |-> IF j \in Stored THEN Append(m.jobs[j], jobRow[j])
                                                  ELSE m.jobs[j]]
           v == [call[d] EXCEPT !.pc = "tasks"]
<1>1. /\ Parts /\ MembersInv /\ JobRows /\ ResumeInv(d)
      /\ UNCHANGED <<leads, alive, facts, taskRow, jobRow, agent, members, keyed, raced>>
      /\ resumed' = resumed \cup Stored /\ overtaken' = overtaken \ {d}
      /\ call[d].pc = "jobs" /\ call' = [call EXCEPT ![d] = v]
  BY DEF IInv, Parts, LoadJobs, ids, procs, rows
<1>2. /\ m \in Memory /\ mem \in [Driver -> Memory] /\ call[d] \in Thread
      /\ call \in [Caller \cup Driver -> Thread] /\ members \in [Job -> SUBSET Task]
      /\ keyed \subseteq Job /\ jobRow \in [Job -> JobState \cup {"none"}]
      /\ JobsKnown(m) /\ TasksKnown(m) /\ ThreadsKnown(m)
  BY Types DEF IInv, Parts, Typed
<1>3. PICK k \in KeysLoaded(d) : mem' = [mem EXCEPT ![d] = [m EXCEPT !.key = k, !.jobs = jobs]]
  BY DEF LoadJobs
<1> DEFINE n == [m EXCEPT !.key = k, !.jobs = jobs]
<1>4. /\ k \in Job \cup {None} /\ (k = m.key \/ k \in Stored \cap keyed)
      /\ Stored \cap keyed # {} => k \in keyed
  BY <1>2 DEF KeysLoaded, Memory
<1>5. ASSUME NEW j \in Job
      PROVE  /\ jobs[j] \in Seq(JobState) /\ DOMAIN m.jobs[j] \subseteq DOMAIN jobs[j]
             /\ j \notin Stored => jobs[j] = m.jobs[j]
             /\ j \in Stored => jobs[j] # <<>> /\ Table(jobs[j]) = jobRow[j]
             /\ \A i \in DOMAIN jobs[j] :
                  \/ i \in DOMAIN m.jobs[j] /\ jobs[j][i] = m.jobs[j][i]
                  \/ j \in Stored /\ jobs[j][i] = jobRow[j]
  <2>1. m.jobs[j] \in Seq(JobState)
    BY <1>2 DEF Memory
  <2>2. CASE j \notin Stored
    <3>1. jobs[j] = m.jobs[j]
      BY <2>2
    <3>. QED
      BY <2>1, <2>2, <3>1
  <2>3. CASE j \in Stored
    <3>1. jobRow[j] \in JobState
      BY <1>2, <2>3 DEF Stored
    <3>2. jobs[j] = Append(m.jobs[j], jobRow[j])
      BY <2>3
    <3> HIDE DEF jobs, m
    <3>3. /\ jobs[j] \in Seq(JobState) /\ Len(jobs[j]) = Len(m.jobs[j]) + 1
          /\ \A i \in 1 .. Len(m.jobs[j]) : jobs[j][i] = m.jobs[j][i]
          /\ jobs[j][Len(m.jobs[j]) + 1] = jobRow[j]
      BY <2>1, <3>1, <3>2, AppendProperties
    <3>4. /\ DOMAIN m.jobs[j] = 1 .. Len(m.jobs[j]) /\ Len(m.jobs[j]) \in Nat
          /\ DOMAIN jobs[j] = 1 .. (Len(m.jobs[j]) + 1)
      BY <2>1, <3>3, NonemptySeq
    <3>5. jobs[j] # <<>>
      BY <3>3, <3>4, NonemptySeq
    <3>6. \A i \in DOMAIN jobs[j] : i \in DOMAIN m.jobs[j] \/ i = Len(m.jobs[j]) + 1
      BY <3>4
    <3>. QED
      BY <2>3, <3>3, <3>4, <3>5, <3>6 DEF Table
  <2>. QED
    BY <2>2, <2>3
<1>6. jobs \in [Job -> Seq(JobState)]
  BY <1>5
<1> HIDE DEF jobs
<1>7. /\ n \in Memory /\ n.jobs = jobs /\ n.tasks = m.tasks /\ n.list = m.list
      /\ n.key = k /\ n.local = m.local /\ n.interrupted = m.interrupted
      /\ n.saves = m.saves
  BY <1>2, <1>4, <1>6 DEF Memory
<1>8. mem' = [mem EXCEPT ![d] = n]
  BY <1>3
<1> HIDE DEF n
<1>9. mem' \in [Driver -> Memory] /\ \A e \in Driver : mem'[e] = IF e = d THEN n ELSE mem[e]
  BY <1>2, <1>7, <1>8
<1>10. /\ v \in Thread /\ v.pc = "tasks" /\ v.at = d /\ v.todo = call[d].todo
       /\ v.keyed = call[d].keyed /\ v.job = call[d].job
  BY <1>1, <1>2 DEF Thread, ResumeInv
<1> HIDE DEF v
<1>11. /\ call' \in [Caller \cup Driver -> Thread]
       /\ call'[d] = v /\ \A y \in Caller \cup Driver : y # d => call'[y] = call[y]
  BY <1>1, <1>10, OneCall
<1>12. d \notin Caller /\ PlacesShrink
  BY <1>11, FailoverAssumption DEF PlacesShrink
<1>13. \A t : Owned' = Owned /\ JobOf(t)' = JobOf(t) /\ (Launched(t) => Launched(t)')
  BY <1>1, <1>12, JobOfStays, LaunchedStays
<1>14. \A e \in Driver, j \in Job : mem[e].jobs[j] # <<>> => mem'[e].jobs[j] # <<>>
  <2>1. ASSUME NEW j \in Job, m.jobs[j] # <<>> PROVE n.jobs[j] # <<>>
    <3>1. m.jobs[j] \in Seq(JobState)
      BY <1>2 DEF Memory
    <3>. QED
      BY <1>5, <1>7, <2>1, <3>1, NonemptySeq
  <2>. QED
    BY <1>9, <2>1
<1>15. \A e \in Driver : mem'[e].tasks = mem[e].tasks
  BY <1>7, <1>9
<1>16. ASSUME NEW e \in Driver
       PROVE  JobsKnown(mem[e])' /\ TasksKnown(mem[e])' /\ ThreadsKnown(mem[e])'
  <2>1. JobsKnown(mem'[e]) /\ TasksKnown(mem'[e]) /\ ThreadsKnown(mem'[e])
    <3>1. CASE e # d
      BY <1>1, <1>9, <3>1 DEF Parts
    <3>2. CASE e = d
      <4>1. JobsKnown(n)
        BY <1>1, <1>2, <1>5, <1>7 DEF JobsKnown, JobRows, Stored
      <4>2. TasksKnown(n)
        BY <1>2, <1>7 DEF TasksKnown
      <4>3. ThreadsKnown(n)
        <5>1. n.interrupted \subseteq n.local
          BY <1>2, <1>7 DEF ThreadsKnown
        <5>. QED
          BY <1>1, <1>5, <1>7, <5>1, ThreadsStay
      <4>. QED
        BY <1>9, <3>2, <4>1, <4>2, <4>3
    <3>. QED
      BY <3>1, <3>2
  <2>. QED
    BY <1>1, <1>13, <2>1 DEF JobsKnown, TasksKnown, ThreadsKnown, Caused, Ended
<1>17. ASSUME NEW c \in Caller PROVE CallerInv(c)'
  <2>1. call'[c] = call[c] /\ CallerInv(c)
    BY <1>1, <1>11, <1>12 DEF Parts
  <2>2. call[c].pc = "place" =>
           \A b \in Caller : call'[b].pc = "place" /\ call'[b].job = call[c].job => b = c
    BY <1>12, <2>1 DEF CallerInv, PlacesShrink
  <2>3. call[c].pc \in Holding =>
             /\ mem'[call[c].at].jobs[call[c].job] # <<>>
             /\ \A t \in call[c].todo : mem'[call[c].at].tasks[t] # <<>>
    BY <1>14, <1>15, <2>1 DEF CallerInv
  <2>. QED
    BY <1>1, <1>13, <2>1, <2>2, <2>3, CallerKept
<1>18. ASSUME NEW x \in Driver PROVE ResumeInv(x)'
  <2>1. CASE x = d
    BY <1>1, <1>10, <1>11, <1>13, <2>1 DEF ResumeInv, Sending
  <2>2. CASE x # d
    <3>1. call'[x] = call[x] /\ ResumeInv(x)
      BY <1>1, <1>11, <2>2 DEF Parts
    <3>2. call[x].pc \in Sending => mem'[x].jobs[JobOf(call[x].cur)] # <<>>
      BY <1>9, <2>2, <3>1 DEF ResumeInv
    <3>. QED
      BY <1>1, <1>13, <3>1, <3>2, ResumeKept
  <2>. QED
    BY <2>1, <2>2
<1>19. \A j \in Job \ resumed' : Single(j)'
  <2>1. ASSUME NEW j \in Job, j \notin resumed, j \notin Stored PROVE Single(j)'
    <3>1. Single(j) /\ \A e \in Driver : mem'[e].jobs[j] = mem[e].jobs[j]
      BY <1>1, <1>5, <1>7, <1>9, <2>1 DEF Parts
    <3>. QED
      BY <1>1, <3>1 DEF Single
  <2>. QED
    BY <1>1, <2>1
<1>20. Parts'
  <2>1. Typed'
    BY <1>1, <1>9, <1>11, Types, PrimedTypes DEF Parts, Typed, Stored
  <2>2. MembersInv' /\ JobRows' /\ Executed' /\ TaskRows'
    BY <1>1, <1>12, <1>13 DEF Parts, MembersInv, JobRows, Executed, TaskRows, PlacesShrink,
                              Caused, Ended
  <2>. QED
    BY <1>16, <1>17, <1>18, <1>19, <2>1, <2>2 DEF Parts
<1>21. \A e \in Driver \ {d} : Leading(e)' => Leading(e)
  BY <1>1, <1>11 DEF Leading
<1>22. Keys'
  <2>1. ASSUME NEW e \in Driver, e \notin raced PROVE OneKey(e)'
    <3>1. OneKey(e)
      BY <2>1 DEF IInv, Keys
    <3>2. \A c \in Caller : call'[c] = call[c]
      BY <1>11, <1>12
    <3>. QED
      BY <3>1, <3>2 DEF OneKey, Keeper
  <2>2. ASSUME NEW e \in Driver PROVE KeySet(e)' /\ KeyAtHand(e)'
    <3>1. KeySet(e) /\ KeyAtHand(e) /\ None \notin Job
      BY FailoverAssumption DEF IInv, Keys
    <3>2. \A c \in Caller : call'[c] = call[c]
      BY <1>11, <1>12
    <3>3. CASE e # d
      BY <1>1, <1>9, <1>21, <3>1, <3>2, <3>3 DEF KeySet, KeyAtHand, Stored
    <3>4. CASE e = d
      <4>1. KeySet(d)'
        BY <1>2, <1>4, <1>7, <1>9, <3>1, <3>2, <3>4 DEF KeySet, Stored
      <4>2. (\E j \in keyed : n.jobs[j] # <<>>) => k \in keyed
        <5>1. ASSUME NEW j \in keyed, n.jobs[j] # <<>> PROVE k \in keyed
          <6>1. j \in Stored \/ m.jobs[j] # <<>>
            BY <1>2, <1>5, <1>7, <5>1
          <6>. QED
            BY <1>4, <3>1, <3>4, <5>1, <6>1 DEF KeyAtHand
        <5>. QED
          BY <5>1
      <4>3. KeyAtHand(d)'
        BY <1>1, <1>4, <1>7, <1>9, <4>2 DEF KeyAtHand, Stored
      <4>. QED
        BY <3>4, <4>1, <4>3
    <3>. QED
      BY <3>3, <3>4
  <2>. QED
    BY <1>1, <2>1, <2>2 DEF Keys
<1>23. Answers'
  <2>1. ASSUME NEW e \in Driver, NEW j \in Job PROVE AnswerSaved(e, j)'
    <3>1. CASE e # d
      BY <1>1, <1>9, <1>21, <3>1 DEF IInv, Answers, AnswerSaved
    <3>2. CASE e = d
      BY <1>1, <1>5, <1>7, <1>9, <3>2 DEF AnswerSaved, Stored
    <3>. QED
      BY <3>1, <3>2
  <2>. QED
    BY <2>1 DEF Answers
<1>. QED
  BY <1>20, <1>22, <1>23 DEF IInv
-----------------------------------------------------------------------------
(* A process goes, and its threads with it. *)
LEMMA DriverCrashStep ==
    ASSUME IInv, NEW d \in Driver, DriverCrash(d)
    PROVE  IInv'
<1> DEFINE reset(x) == [Idle EXCEPT !.pc = IF x \in Driver THEN "idle" ELSE "done"]
<1>1. /\ Parts /\ MembersInv /\ facts' = facts
      /\ UNCHANGED <<agent, members, keyed, resumed, jobRow, taskRow>>
      /\ alive' = alive \ {d} /\ leads' = leads \ {d}
      /\ mem' = [mem EXCEPT ![d] = Fresh]
      /\ raced' = raced \ {d} /\ overtaken' = overtaken \ {d}
      /\ call' = [x \in DOMAIN call |->
                    IF call[x].at = d THEN reset(x) ELSE call[x]]
  BY DEF IInv, Parts, DriverCrash, Deposed, ids, rows
<1>. Grow /\ SameJobs
  BY <1>1, GrowStill DEF SameJobs
<1>. \A x : reset(x) \in Thread /\ reset(x).at = None /\ reset(x).todo = {}
           /\ reset(x).pc = IF x \in Driver THEN "idle" ELSE "done"
  BY DEF Idle, Thread, Kind
<1> HIDE DEF reset
<1>2. /\ mem \in [Driver -> Memory] /\ call \in [Caller \cup Driver -> Thread]
      /\ members \in [Job -> SUBSET Task] /\ alive \subseteq Driver /\ leads \subseteq alive
  BY Types DEF IInv, Parts, Typed
<1>3. /\ Fresh \in Memory /\ (\A j \in Job : Fresh.jobs[j] = <<>> /\ Fresh.list[j] = {})
      /\ (\A t \in Task : Fresh.tasks[t] = <<>>) /\ Fresh.key = None
      /\ Fresh.local = {} /\ Fresh.interrupted = {} /\ Fresh.saves = {}
  BY DEF Fresh, Memory
<1>4. mem' \in [Driver -> Memory] /\ \A e \in Driver : mem'[e] = IF e = d THEN Fresh ELSE mem[e]
  BY <1>1, <1>2, <1>3
<1>5. ASSUME NEW x \in Caller \cup Driver
      PROVE  /\ call'[x] \in Thread
             /\ \/ call[x].at # d /\ call'[x] = call[x]
                \/ /\ call[x].at = d /\ call'[x].at = None /\ call'[x].todo = {}
                   /\ call'[x].pc \in {"idle", "done"} /\ (x \in Driver => call'[x].pc = "idle")
  <2>1. CASE call[x].at # d
    BY <1>1, <1>2, <2>1
  <2>2. CASE call[x].at = d
    <3>1. call'[x] = reset(x)
      BY <1>1, <1>2, <2>2
    <3>. QED
      BY <2>2, <3>1
  <2>. QED
    BY <2>1, <2>2
<1>6. call' \in [Caller \cup Driver -> Thread]
  <2>1. DOMAIN call' = Caller \cup Driver /\ call' = [x \in Caller \cup Driver |-> call'[x]]
    BY <1>1, <1>2
  <2>. QED
    BY <1>5, <2>1
<1>7. PlacesShrink
  BY <1>5 DEF PlacesShrink
<1>8. \A t : Owned' = Owned /\ JobOf(t)' = JobOf(t) /\ (Launched(t) => Launched(t)')
  BY <1>1, <1>7, JobOfStays, LaunchedStays
<1>9. ASSUME NEW e \in Driver
      PROVE  JobsKnown(mem[e])' /\ TasksKnown(mem[e])' /\ ThreadsKnown(mem[e])'
  <2>1. JobsKnown(mem'[e]) /\ TasksKnown(mem'[e]) /\ ThreadsKnown(mem'[e])
    <3>1. CASE e # d
      BY <1>1, <1>4, <3>1 DEF Parts
    <3>2. CASE e = d
      BY <1>3, <1>4, <3>2 DEF JobsKnown, TasksKnown, ThreadsKnown
    <3>. QED
      BY <3>1, <3>2
  <2>. QED
    BY <1>1, <1>8, <2>1 DEF JobsKnown, TasksKnown, ThreadsKnown, Caused, Ended
<1>10. ASSUME NEW c \in Caller PROVE CallerInv(c)'
  <2>1. CASE call[c].at = d
    <3>1. call'[c].pc \in {"idle", "done"}
      BY <1>5, <2>1
    <3>. QED
      BY <3>1 DEF CallerInv, Holding, Sending
  <2>2. CASE call[c].at # d
    <3>1. call'[c] = call[c]
      BY <1>5, <2>2
    <3>. CallerInv(c)
      BY <1>1 DEF Parts
    <3>2. call[c].pc = "place" =>
             \A b \in Caller : call'[b].pc = "place" /\ call'[b].job = call[c].job => b = c
      BY <1>7, <3>1 DEF CallerInv, PlacesShrink
    <3>3. call[c].pc \in Holding =>
               /\ mem'[call[c].at].jobs[call[c].job] # <<>>
               /\ \A t \in call[c].todo : mem'[call[c].at].tasks[t] # <<>>
      BY <1>4, <2>2, <3>1 DEF CallerInv
    <3>. QED
      BY <1>1, <1>8, <3>1, <3>2, <3>3, CallerKept
  <2>. QED
    BY <2>1, <2>2
<1>11. ASSUME NEW x \in Driver PROVE ResumeInv(x)'
  <2>1. CASE call[x].at = d
    BY <1>5, <2>1 DEF ResumeInv, Sending
  <2>2. CASE call[x].at # d
    <3>1. call'[x] = call[x] /\ ResumeInv(x)
      BY <1>1, <1>5, <2>2 DEF Parts
    <3>2. call[x].pc \in Sending => mem'[x].jobs[JobOf(call[x].cur)] # <<>>
      BY <1>4, <2>2, <3>1 DEF ResumeInv, Sending
    <3>. QED
      BY <1>1, <1>8, <3>1, <3>2, ResumeKept
  <2>. QED
    BY <2>1, <2>2
<1>12. ASSUME NEW j \in Job, j \notin resumed PROVE Single(j)'
  <2>1. Single(j) /\ \A e \in Driver : mem'[e].jobs[j] = IF e = d THEN <<>> ELSE mem[e].jobs[j]
    BY <1>1, <1>3, <1>4, <1>12 DEF Parts
  <2>2. DOMAIN <<>> = {}
    OBVIOUS
  <2>. QED
    BY <1>1, <2>1, <2>2 DEF Single
<1>13. Parts'
  <2>1. Typed'
    BY <1>1, <1>2, <1>4, <1>6, Types, PrimedTypes DEF Parts, Typed
  <2>2. MembersInv' /\ JobRows' /\ TaskRows'
    BY <1>1, <1>7, MembersStay, JobRowsStay, TaskRowsStay
  <2>3. Executed'
    BY <1>1, <1>8 DEF Parts, Executed
  <2>. QED
    BY <1>1, <1>9, <1>10, <1>11, <1>12, <2>1, <2>2, <2>3 DEF Parts
<1>14. \A e \in Driver : Leading(e)' => Leading(e) /\ e # d
  <2>1. ASSUME NEW e \in Driver, Leading(e)' PROVE Leading(e) /\ e # d
    <3>1. e \in leads /\ e # d /\ e \notin overtaken /\ call'[e].pc # "jobs"
      BY <1>1, <2>1 DEF Leading
    <3>2. ResumeInv(e)
      BY <1>1 DEF Parts
    <3>3. call[e].pc # "jobs"
      BY <1>5, <3>1, <3>2 DEF ResumeInv
    <3>. QED
      BY <3>1, <3>3 DEF Leading
  <2>. QED
    BY <2>1
<1>15. Keys'
  <2>1. None \notin Driver /\ \A c \in Caller, e \in Driver :
            call'[c].at = e => call'[c] = call[c] /\ e # d
    BY <1>5, FailoverAssumption
  <2>2. ASSUME NEW e \in Driver, e \notin raced' PROVE OneKey(e)'
    <3>1. e \in raced => e = d
      BY <1>1, <2>2
    <3>2. CASE e = d
      BY <2>1, <3>2 DEF OneKey, Keeper
    <3>3. CASE e # d
      <4>1. OneKey(e)
        BY <3>1, <3>3 DEF IInv, Keys
      <4>. QED
        BY <2>1, <4>1 DEF OneKey, Keeper
    <3>. QED
      BY <3>2, <3>3
  <2>3. ASSUME NEW e \in Driver PROVE KeySet(e)' /\ KeyAtHand(e)'
    <3>1. KeySet(e) /\ KeyAtHand(e)
      BY DEF IInv, Keys
    <3>2. KeySet(e)'
      BY <1>4, <2>1, <3>1 DEF KeySet
    <3>3. CASE e = d
      <4>1. keyed \subseteq Job
        BY Types DEF IInv, Parts, Typed
      <4>. QED
        BY <1>1, <1>3, <1>4, <1>14, <3>2, <3>3, <4>1 DEF KeyAtHand
    <3>4. CASE e # d
      <4>1. mem'[e] = mem[e] /\ Stored' = Stored
        BY <1>1, <1>4, <3>4 DEF Stored
      <4>. QED
        BY <1>1, <1>14, <3>1, <3>2, <3>4, <4>1 DEF KeyAtHand
    <3>. QED
      BY <3>3, <3>4
  <2>. QED
    BY <2>2, <2>3 DEF Keys
<1>16. Answers'
  BY <1>1, <1>4, <1>14 DEF IInv, Answers, AnswerSaved
<1>. QED
  BY <1>13, <1>15, <1>16 DEF IInv

-----------------------------------------------------------------------------
(* A submission enters its job. *)
LEMMA EnterStep ==
    ASSUME IInv, NEW c \in Caller, NEW j \in Job, NEW ts \in SUBSET Task, Enter(c, j, ts)
    PROVE  IInv'
<1> DEFINE d == call[c].at
           m == mem[d]
           jobs == [m.jobs EXCEPT ![j] = <<"PENDING">>]
           new == <<[state |-> "PENDING", node |-> None]>>
           tasks == [t \in Task |-> IF t \in ts THEN new ELSE m.tasks[t]]
           list == [m.list EXCEPT ![j] = ts]
           key == IF call[c].keyed THEN j ELSE m.key
           n == [m EXCEPT !.jobs = jobs, !.tasks = tasks, !.list = list, !.key = key]
           v == [call[c] EXCEPT !.pc = "place", !.job = j, !.todo = ts]
<1>1. /\ Parts /\ MembersInv /\ JobRows /\ CallerInv(c) /\ call[c].pc = "new"
      /\ UNCHANGED <<alive, leads, agent, facts, resumed, raced, overtaken, jobRow, taskRow>>
      /\ members[j] = {} /\ ts \subseteq Unused /\ Cardinality(ts) = call[c].size
      /\ members' = [members EXCEPT ![j] = ts]
      /\ keyed' = IF call[c].keyed THEN keyed \cup {j} ELSE keyed
      /\ call' = [call EXCEPT ![c] = v] /\ mem' = [mem EXCEPT ![d] = n]
  BY DEF IInv, Parts, Enter, KeyEntered, procs, rows, history
<1>2. /\ mem \in [Driver -> Memory] /\ call \in [Caller \cup Driver -> Thread]
      /\ members \in [Job -> SUBSET Task] /\ keyed \subseteq Job /\ call[c] \in Thread
  BY Types DEF IInv, Parts, Typed
<1>3. d \in Driver /\ m \in Memory /\ ts # {}
  <2>1. d \in Driver /\ Cardinality(ts) # 0
    BY <1>1 DEF CallerInv
  <2>. QED
    BY <1>2, <2>1, FS_EmptySet
<1>4. /\ \A t \in ts : t \notin Owned
      /\ \A k \in Job : members'[k] = IF k = j THEN ts ELSE members[k]
  BY <1>1, <1>2 DEF Unused, Owned
<1>5. MembersInv'
  <2>1. ASSUME NEW k \in Job, NEW l \in Job, NEW t \in Task, t \in members'[k], t \in members'[l]
        PROVE  k = l
    <3>1. t \in ts => \A i \in Job : t \notin members[i]
      BY <1>4 DEF Owned
    <3>. QED
      BY <1>1, <1>4, <2>1, <3>1 DEF MembersInv
  <2>2. \A k \in keyed' : members'[k] # {}
    BY <1>1, <1>2, <1>3, <1>4 DEF MembersInv
  <2>. QED
    BY <2>1, <2>2 DEF MembersInv
<1>6. members' \in [Job -> SUBSET Task]
  BY <1>1, <1>2
<1>7. /\ \A t \in Owned : JobOf(t) \in Job /\ t \in members[JobOf(t)] /\ t \in Task
      /\ \A k \in Job : \A t \in members[k] : JobOf(t) = k /\ t \in Owned
  BY <1>1, <1>2, JobOfOwned
<1>8. ASSUME NEW t \in Owned PROVE t \in Owned' /\ JobOf(t)' = JobOf(t) /\ t \notin ts /\ JobOf(t) # j
  <2>1. JobOf(t) \in Job /\ t \in members[JobOf(t)] /\ t \notin ts /\ JobOf(t) # j
    BY <1>1, <1>4, <1>7
  <2>2. t \in members'[JobOf(t)]
    BY <1>4, <2>1
  <2>3. JobOf(t)' = JobOf(t)
    <3>1. \A k \in Job : t \in members'[k] <=> k = JobOf(t)
      BY <1>1, <1>2, <1>4, <1>7, <2>1
    <3>. QED
      BY <2>1, <3>1 DEF JobOf
  <2>. QED
    BY <2>1, <2>2, <2>3 DEF Owned
<1>9. v \in Thread /\ v.pc = "place" /\ v.job = j /\ v.todo = ts /\ v.at = d
      /\ v.keyed = call[c].keyed
  BY <1>2 DEF Thread
<1> HIDE DEF v
<1>10. /\ call' \in [Caller \cup Driver -> Thread]
       /\ call'[c] = v /\ \A y \in Caller \cup Driver : y # c => call'[y] = call[y]
  BY <1>1, <1>9, OneCall
<1>11. c \notin Driver
  BY FailoverAssumption
<1>12. \A b \in Caller : call[b].pc = "place" => call[b].job \in Job /\ call[b].job # j
  <2>1. ASSUME NEW b \in Caller, call[b].pc = "place" PROVE call[b].job \in Job /\ call[b].job # j
    <3>1. CallerInv(b)
      BY <1>1 DEF Parts
    <3>. QED
      BY <1>1, <2>1, <3>1 DEF CallerInv, Holding
  <2>. QED
    BY <2>1
<1>13. ASSUME NEW t \in Task, Launched(t) PROVE Launched(t)' /\ JobOf(t)' = JobOf(t)
  <2>1. t \in Owned' /\ JobOf(t)' = JobOf(t) /\ t \notin ts
    BY <1>8, <1>13 DEF Launched
  <2>2. ASSUME NEW b \in Caller, call'[b].pc = "place" PROVE t \notin members'[call'[b].job]
    <3>1. CASE b = c
      BY <1>4, <1>9, <1>10, <2>1, <3>1
    <3>2. CASE b # c
      BY <1>4, <1>10, <1>12, <1>13, <2>2, <3>2 DEF Launched
    <3>. QED
      BY <3>1, <3>2
  <2>. QED
    BY <2>1, <2>2 DEF Launched
<1>14. /\ jobs \in [Job -> Seq(JobState)]
       /\ \A k \in Job : jobs[k] = IF k = j THEN <<"PENDING">> ELSE m.jobs[k]
  <2>1. m.jobs \in [Job -> Seq(JobState)]
    BY <1>3 DEF Memory
  <2>2. "PENDING" \in JobState
    BY DEF JobState
  <2>3. <<"PENDING">> \in Seq(JobState)
    BY <2>2
  <2>. QED
    BY <2>1, <2>3
<1>15. DOMAIN <<"PENDING">> = {1} /\ <<"PENDING">>[1] = "PENDING" /\ <<"PENDING">> # <<>>
       /\ Table(<<"PENDING">>) = "PENDING"
  BY DEF Table
<1>16. new \in Seq(TaskObject) /\ new # <<>> /\ \A i \in DOMAIN new : new[i].state = "PENDING"
  BY DEF TaskObject, TaskState
<1> HIDE DEF new
<1>17. /\ tasks \in [Task -> Seq(TaskObject)]
       /\ \A t \in Task : tasks[t] = IF t \in ts THEN new ELSE m.tasks[t]
  BY <1>3, <1>16 DEF Memory
<1>18. /\ list \in [Job -> SUBSET Task]
       /\ \A k \in Job : list[k] = IF k = j THEN ts ELSE m.list[k]
  BY <1>3 DEF Memory
<1>19. key \in Job \cup {None} /\ (call[c].keyed => key = j) /\ (~call[c].keyed => key = m.key)
  BY <1>3 DEF Memory
<1> HIDE DEF jobs, tasks, list, key
<1>20. /\ n \in Memory /\ n.jobs = jobs /\ n.tasks = tasks /\ n.list = list
       /\ n.key = key /\ n.local = m.local /\ n.interrupted = m.interrupted
       /\ n.saves = m.saves
  BY <1>3, <1>14, <1>17, <1>18, <1>19 DEF Memory
<1> HIDE DEF n
<1>21. mem' \in [Driver -> Memory] /\ \A e \in Driver : mem'[e] = IF e = d THEN n ELSE mem[e]
  BY <1>1, <1>2, <1>3, <1>20
<1>22. \A e \in Driver : JobsKnown(mem[e]) /\ TasksKnown(mem[e]) /\ ThreadsKnown(mem[e])
                         /\ mem[e] \in Memory
  BY <1>1, <1>2 DEF Parts
<1>23. \A e \in Driver : mem[e].jobs[j] = <<>>
  <2>1. ASSUME NEW e \in Driver PROVE mem[e].jobs[j] = <<>>
    <3>1. mem[e].jobs[j] \in Seq(JobState)
      BY <1>22 DEF Memory
    <3>. QED
      BY <1>1, <1>22, <3>1, NonemptySeq DEF JobsKnown
  <2>. QED
    BY <2>1
<1>24. /\ \A e \in Driver, k \in Job : k # j => mem'[e].jobs[k] = mem[e].jobs[k]
       /\ \A e \in Driver : mem'[e].jobs[j] = IF e = d THEN <<"PENDING">> ELSE <<>>
       /\ \A e \in Driver, t \in Task : t \notin ts => mem'[e].tasks[t] = mem[e].tasks[t]
       /\ \A t \in ts : t \in Task /\ mem'[d].tasks[t] = new
       /\ \A e \in Driver : mem'[e].saves = mem[e].saves
  <2>1. ASSUME NEW e \in Driver, e # d
        PROVE  mem'[e] = mem[e] /\ mem[e].jobs[j] = <<>>
    BY <1>21, <1>23, <2>1
  <2>2. mem'[d] = n
    BY <1>3, <1>21
  <2>3. /\ \A k \in Job : n.jobs[k] = IF k = j THEN <<"PENDING">> ELSE m.jobs[k]
        /\ \A t \in Task : n.tasks[t] = IF t \in ts THEN new ELSE m.tasks[t]
        /\ n.saves = m.saves
    BY <1>14, <1>17, <1>20
  <2>. QED
    BY <2>1, <2>2, <2>3
<1> HIDE DEF d, m
<1>25. \A e \in Driver :
         /\ \A k \in Job : mem[e].jobs[k] # <<>> => mem'[e].jobs[k] # <<>>
         /\ \A t \in Task : mem[e].tasks[t] # <<>> => mem'[e].tasks[t] # <<>>
  BY <1>14, <1>15, <1>16, <1>17, <1>20, <1>21 DEF m
<1>26. ASSUME NEW e \in Driver
       PROVE  JobsKnown(mem[e])' /\ TasksKnown(mem[e])' /\ ThreadsKnown(mem[e])'
  <2>1. JobsKnown(mem[e])'
    <3>1. ASSUME NEW k \in Job
          PROVE  /\ mem'[e].list[k] \subseteq members'[k]
                 /\ \A t \in mem'[e].list[k] : mem'[e].tasks[t] # <<>>
      <4>1. /\ mem[e].list[k] \subseteq members[k] /\ members[k] \subseteq Task
            /\ \A t \in mem[e].list[k] : mem[e].tasks[t] # <<>>
        BY <1>2, <1>22 DEF JobsKnown
      <4>2. CASE k = j
        <5>1. mem[e].list[k] = {}
          BY <1>1, <4>1, <4>2
        <5>2. mem'[e].list[k] = IF e = d THEN ts ELSE {}
          BY <1>18, <1>20, <1>21, <4>2, <5>1
        <5>3. ts \subseteq members'[k] /\ \A t \in ts : mem'[d].tasks[t] # <<>>
          BY <1>4, <1>16, <1>24, <4>2
        <5>. QED
          BY <5>2, <5>3
      <4>3. CASE k # j
        <5>1. mem'[e].list[k] = mem[e].list[k] /\ members'[k] = members[k]
          BY <1>4, <1>18, <1>20, <1>21, <4>3 DEF m
        <5>. QED
          BY <1>25, <4>1, <5>1
      <4>. QED
        BY <4>2, <4>3
    <3>2. ASSUME NEW k \in Job, NEW i \in DOMAIN mem'[e].jobs[k]
          PROVE  members'[k] # {} /\ Caused(facts', k, mem'[e].jobs[k][i])
      <4>1. CASE k = j
        <5>1. e = d /\ mem'[e].jobs[k] = <<"PENDING">> /\ i = 1
          BY <1>15, <1>24, <3>2, <4>1
        <5>. QED
          BY <1>3, <1>4, <1>15, <4>1, <5>1 DEF Caused
      <4>2. CASE k # j
        <5>1. mem'[e].jobs[k] = mem[e].jobs[k] /\ members'[k] = members[k]
          BY <1>4, <1>24, <4>2
        <5>. QED
          BY <1>1, <1>22, <3>2, <5>1 DEF JobsKnown
      <4>. QED
        BY <4>1, <4>2
    <3>. QED
      BY <3>1, <3>2 DEF JobsKnown, Caused
  <2>2. TasksKnown(mem[e])'
    <3>1. ASSUME NEW t \in Task, NEW i \in DOMAIN mem'[e].tasks[t]
          PROVE  /\ t \in Owned'
                 /\ mem'[e].tasks[t][i].state = "COMPLETED" => "returned" \in facts[JobOf(t)']
      <4>1. CASE t \in ts /\ e = d
        <5>1. t \in Owned' /\ mem'[e].tasks[t] = new
          BY <1>4, <1>24, <4>1 DEF Owned
        <5>. QED
          BY <1>16, <3>1, <5>1
      <4>2. CASE t \notin ts \/ e # d
        <5>1. mem'[e].tasks[t] = mem[e].tasks[t]
          BY <1>21, <1>24, <4>2
        <5>2. t \in Owned /\ Ended(facts, t, mem[e].tasks[t][i].state)
          BY <1>22, <3>1, <5>1 DEF TasksKnown
        <5>. QED
          BY <1>1, <1>8, <5>1, <5>2 DEF Ended
      <4>. QED
        BY <4>1, <4>2
    <3>. QED
      BY <1>1, <3>1 DEF TasksKnown, Ended
  <2>3. ThreadsKnown(mem[e])'
    <3>1. /\ mem'[e].local = mem[e].local /\ mem'[e].saves = mem[e].saves
          /\ mem'[e].interrupted = mem[e].interrupted /\ mem[e] \in Memory
      BY <1>20, <1>21, <1>22 DEF m
    <3>2. ASSUME NEW t \in mem[e].local
          PROVE  Launched(t)' /\ mem'[e].tasks[t] # <<>> /\ mem'[e].jobs[JobOf(t)'] # <<>>
      <4>1. t \in Task /\ Launched(t) /\ mem[e].tasks[t] # <<>> /\ mem[e].jobs[JobOf(t)] # <<>>
        BY <1>22, <3>2 DEF ThreadsKnown, Memory
      <4>2. JobOf(t) \in Job /\ JobOf(t)' = JobOf(t) /\ Launched(t)'
        BY <1>7, <1>13, <4>1 DEF Launched
      <4>. QED
        BY <1>25, <4>1, <4>2
    <3>3. ASSUME NEW p \in mem[e].saves
          PROVE  /\ Launched(p.task)' /\ (p.ti = 0 \/ p.ti \in DOMAIN mem'[e].tasks[p.task])
                 /\ p.ji \in DOMAIN mem'[e].jobs[JobOf(p.task)']
      <4>1. /\ Launched(p.task) /\ (p.ti = 0 \/ p.ti \in DOMAIN mem[e].tasks[p.task])
            /\ p.ji \in DOMAIN mem[e].jobs[JobOf(p.task)] /\ p.task \in Owned
        BY <1>22, <3>3 DEF ThreadsKnown, Launched
      <4>2. /\ p.task \in Task /\ JobOf(p.task) \in Job /\ JobOf(p.task) # j /\ p.task \notin ts
            /\ JobOf(p.task)' = JobOf(p.task)
        BY <1>7, <1>8, <4>1
      <4>3. Launched(p.task)'
        BY <1>13, <4>1, <4>2
      <4>4. /\ mem'[e].tasks[p.task] = mem[e].tasks[p.task]
            /\ mem'[e].jobs[JobOf(p.task)] = mem[e].jobs[JobOf(p.task)]
        BY <1>24, <4>2
      <4>. QED
        BY <4>1, <4>2, <4>3, <4>4
    <3>4. mem[e].interrupted \subseteq mem[e].local
      BY <1>22 DEF ThreadsKnown
    <3>. QED
      BY <3>1, <3>2, <3>3, <3>4 DEF ThreadsKnown
  <2>. QED
    BY <2>1, <2>2, <2>3
<1>27. JobRows'
  <2>1. ASSUME NEW k \in Job, jobRow[k] # "none"
        PROVE  /\ members'[k] # {} /\ Caused(facts, k, jobRow[k])
               /\ \A b \in Caller : call'[b].pc = "place" => call'[b].job # k
    <3>1. /\ members[k] # {} /\ Caused(facts, k, jobRow[k]) /\ k # j
          /\ \A b \in Caller : call[b].pc = "place" => call[b].job # k
      BY <1>1, <2>1 DEF JobRows
    <3>. QED
      BY <1>4, <1>9, <1>10, <3>1
  <2>. QED
    BY <1>1, <2>1 DEF JobRows, Caused
<1>28. TaskRows' /\ Executed'
  <2>1. TaskRows'
    BY <1>1, <1>13 DEF Parts, TaskRows, Ended
  <2>2. Executed'
    BY <1>1, <1>13 DEF Parts, Executed
  <2>. QED
    BY <2>1, <2>2
<1>29. ASSUME NEW b \in Caller PROVE CallerInv(b)'
  <2>1. CASE b = c
    <3>1. /\ mem'[d].jobs[j] # <<>> /\ \A t \in ts : mem'[d].tasks[t] # <<>>
      BY <1>3, <1>15, <1>16, <1>24
    <3>2. \A x \in Caller : call'[x].pc = "place" /\ call'[x].job = j => x = c
      BY <1>10, <1>12
    <3>3. ts \subseteq members'[j]
      BY <1>4
    <3>. QED
      BY <1>3, <1>9, <1>10, <2>1, <3>1, <3>2, <3>3 DEF CallerInv, Holding, Sending
  <2>2. CASE b # c
    <3>1. call'[b] = call[b] /\ CallerInv(b) /\ call[b] \in Thread
      BY <1>1, <1>2, <1>10, <2>2 DEF Parts
    <3>2. call[b].pc = "place" =>
             \A x \in Caller : call'[x].pc = "place" /\ call'[x].job = call[b].job => x = b
      BY <1>9, <1>10, <1>12, <2>2, <3>1 DEF CallerInv
    <3>3. call[b].pc \in Holding =>
               /\ mem'[call[b].at].jobs[call[b].job] # <<>>
               /\ \A t \in call[b].todo : mem'[call[b].at].tasks[t] # <<>>
      BY <1>25, <3>1 DEF CallerInv, Thread
    <3>4. \A k \in Job : members[k] \subseteq members'[k]
      BY <1>1, <1>4
    <3>. QED
      BY <1>1, <1>13, <3>1, <3>2, <3>3, <3>4, CallerKept
  <2>. QED
    BY <2>1, <2>2
<1>30. ASSUME NEW x \in Driver PROVE ResumeInv(x)'
  <2>1. call'[x] = call[x] /\ ResumeInv(x)
    BY <1>1, <1>10, <1>11 DEF Parts
  <2>2. ASSUME call[x].pc \in Sending PROVE mem'[x].jobs[JobOf(call[x].cur)] # <<>>
    <3>1. Launched(call[x].cur) /\ mem[x].jobs[JobOf(call[x].cur)] # <<>>
      BY <2>1, <2>2 DEF ResumeInv
    <3>2. JobOf(call[x].cur) \in Job
      BY <1>7, <3>1 DEF Launched
    <3>. QED
      BY <1>25, <3>1, <3>2
  <2>. QED
    BY <1>1, <1>13, <2>1, <2>2, ResumeKept
<1>31. ASSUME NEW k \in Job, k \notin resumed PROVE Single(k)'
  <2>1. CASE k = j
    <3>1. jobRow[j] \notin Final
      BY <1>1 DEF JobRows, Final
    <3>2. DOMAIN <<>> = {} /\ DOMAIN <<"PENDING">> \subseteq {1}
      BY <1>15
    <3>3. \A e \in Driver : mem'[e].jobs[k] = IF e = d THEN <<"PENDING">> ELSE <<>>
      BY <1>24, <2>1
    <3>. QED
      BY <1>1, <2>1, <3>1, <3>2, <3>3 DEF Single
  <2>2. CASE k # j
    <3>1. Single(k) /\ \A e \in Driver : mem'[e].jobs[k] = mem[e].jobs[k]
      BY <1>1, <1>24, <1>31, <2>2 DEF Parts
    <3>. QED
      BY <1>1, <3>1 DEF Single
  <2>. QED
    BY <2>1, <2>2
<1>32. Parts'
  <2>1. Typed'
    BY <1>1, <1>2, <1>6, <1>10, <1>21, Types, PrimedTypes DEF Parts, Typed
  <2>. QED
    BY <1>1, <1>5, <1>26, <1>27, <1>28, <1>29, <1>30, <1>31, <2>1 DEF Parts
<1>33. \A e \in Driver : Leading(e)' <=> Leading(e)
  BY <1>1, <1>10, <1>11 DEF Leading
<1>34. Keys'
  <2>1. ASSUME NEW e \in Driver, e \notin raced PROVE OneKey(e)'
    <3>1. \A b \in Caller : Keeper(b, e)' => Keeper(b, e)
      <4>1. call[c].at = d
        BY DEF d
      <4>. QED
        BY <1>1, <1>9, <1>10, <4>1 DEF Keeper
    <3>2. OneKey(e)
      BY <2>1 DEF IInv, Keys
    <3>. QED
      BY <3>1, <3>2 DEF OneKey
  <2>2. ASSUME NEW e \in Driver PROVE KeySet(e)' /\ KeyAtHand(e)'
    <3>1. KeySet(e) /\ KeyAtHand(e) /\ j # None /\ j \notin keyed /\ j \notin Stored
      BY <1>1, FailoverAssumption DEF IInv, Keys, MembersInv, JobRows, Stored
    <3>2. Stored' = Stored /\ Stored \cap keyed' = Stored \cap keyed
      BY <1>1, <3>1 DEF Stored
    <3>3. CASE e # d
      <4>1. mem'[e] = mem[e] /\ mem[e].jobs[j] = <<>>
        BY <1>21, <1>23, <3>3
      <4>2. KeySet(e)'
        BY <1>9, <1>10, <3>1, <3>3, <4>1 DEF KeySet
      <4>3. KeyAtHand(e)'
        BY <1>1, <1>33, <3>1, <3>2, <4>1 DEF KeyAtHand
      <4>. QED
        BY <4>2, <4>3
    <3>4. CASE e = d
      <4>1. mem'[e].key = key /\ mem[e].key = m.key
        BY <1>3, <1>20, <1>21, <3>4 DEF m
      <4>2. KeySet(e)'
        BY <1>9, <1>10, <1>19, <3>1, <3>4, <4>1 DEF KeySet
      <4>3. KeyAtHand(e)'
        <5>1. CASE call[c].keyed
          BY <1>1, <1>19, <4>1, <5>1 DEF KeyAtHand
        <5>2. CASE ~call[c].keyed
          <6>1. keyed' = keyed /\ mem'[e].key = mem[e].key
            BY <1>1, <1>19, <4>1, <5>2
          <6>2. \A k \in keyed : mem'[e].jobs[k] = mem[e].jobs[k]
            BY <1>2, <1>24, <3>1
          <6>. QED
            BY <1>33, <3>1, <3>2, <3>4, <6>1, <6>2 DEF KeyAtHand
        <5>. QED
          BY <5>1, <5>2
      <4>. QED
        BY <4>2, <4>3
    <3>. QED
      BY <3>3, <3>4
  <2>. QED
    BY <1>1, <2>1, <2>2 DEF Keys
<1>35. Answers'
  <2>1. ASSUME NEW e \in Driver, NEW k \in Job PROVE AnswerSaved(e, k)'
    <3>1. CASE k = j
      <4>1. jobRow'[k] = "none"
        BY <1>1, <3>1 DEF JobRows
      <4>. QED
        BY <4>1 DEF AnswerSaved
    <3>2. CASE k # j
      <4>1. /\ mem'[e].jobs[k] = mem[e].jobs[k] /\ mem'[e].saves = mem[e].saves
            /\ members'[k] = members[k] /\ AnswerSaved(e, k)
        BY <1>4, <1>24, <3>2 DEF IInv, Answers
      <4>. QED
        BY <1>1, <1>33, <4>1 DEF AnswerSaved
    <3>. QED
      BY <3>1, <3>2
  <2>. QED
    BY <2>1 DEF Answers
<1>. QED
  BY <1>32, <1>34, <1>35 DEF IInv
-----------------------------------------------------------------------------
LEMMA InitInv == Init => IInv
<1> SUFFICES ASSUME Init PROVE IInv
  OBVIOUS
<1>1. /\ alive = Driver /\ leads = {} /\ keyed = {} /\ members = [j \in Job |-> {}]
      /\ jobRow = [j \in Job |-> "none"]
      /\ taskRow = [t \in Task |-> [state |-> "none", node |-> None]]
      /\ facts = [j \in Job |-> {}] /\ resumed = {} /\ raced = {} /\ overtaken = {}
  BY DEF Init
<1>2. PICK home \in [Agent -> Driver] :
         /\ mem = [d \in Driver |-> [Fresh EXCEPT !.handles = {a \in Agent : home[a] = d}]]
         /\ agent = [a \in Agent |-> [Down(home[a]) EXCEPT !.up = TRUE]]
  BY DEF Init
<1>3. PICK w \in Workload :
         call = [x \in Caller \cup Driver |->
                IF x \notin DOMAIN w.calls THEN Idle
                ELSE [Idle EXCEPT !.pc = "called", !.kind = w.calls[x].kind,
                        !.keyed = w.calls[x].keyed, !.size = w.calls[x].size]]
  BY DEF Init
<1>4. ASSUME NEW d \in Driver
      PROVE  /\ mem[d] \in Memory /\ mem[d].saves = {} /\ mem[d].local = {}
             /\ mem[d].interrupted = {}
             /\ \A j \in Job : mem[d].jobs[j] = <<>> /\ mem[d].list[j] = {}
             /\ \A t \in Task : mem[d].tasks[t] = <<>>
  <2> DEFINE hs == {a \in Agent : home[a] = d}
             n == [Fresh EXCEPT !.handles = hs]
  <2>1. mem[d] = n /\ hs \subseteq Agent
    BY <1>2
  <2> HIDE DEF hs
  <2>2. /\ n \in Memory /\ n.saves = {} /\ n.local = {} /\ n.interrupted = {}
        /\ n.jobs = [j \in Job |-> <<>>] /\ n.list = [j \in Job |-> {}]
        /\ n.tasks = [t \in Task |-> <<>>]
    <3>1. /\ Fresh \in Memory /\ Fresh.saves = {} /\ Fresh.local = {}
          /\ Fresh.interrupted = {} /\ Fresh.jobs = [j \in Job |-> <<>>]
          /\ Fresh.list = [j \in Job |-> {}] /\ Fresh.tasks = [t \in Task |-> <<>>]
      BY DEF Fresh, Memory
    <3>. QED
      BY <2>1, <3>1 DEF Memory
  <2> HIDE DEF n
  <2>. QED
    BY <2>1, <2>2
<1>5. ASSUME NEW a \in Agent
      PROVE  agent[a] \in AgentState /\ \A t \in Task : agent[a].execs[t] = 0
  <2>1. PICK h \in Driver : agent[a] = [Down(h) EXCEPT !.up = TRUE]
    BY <1>2
  <2> DEFINE new == [Down(h) EXCEPT !.up = TRUE]
  <2>2. new \in AgentState /\ \A t \in Task : new.execs[t] = 0
    BY DEF Down, AgentState
  <2> HIDE DEF new
  <2>. QED
    BY <2>1, <2>2 DEF new
<1>6. ASSUME NEW x \in Caller \cup Driver
      PROVE  /\ call[x] \in Thread /\ call[x].pc \in {"idle", "called"}
             /\ call[x].at = None /\ call[x].job = None /\ call[x].todo = {} /\ call[x].size # 0
             /\ x \in Driver => call[x].pc = "idle"
  <2>1. CASE x \notin DOMAIN w.calls
    <3>1. call[x] = Idle
      BY <1>3, <2>1
    <3>. QED
      BY <3>1 DEF Idle, Thread, Kind
  <2>2. CASE x \in DOMAIN w.calls
    <3>1. /\ x \in Caller /\ x \notin Driver
          /\ w.calls[x].kind \in Kind /\ w.calls[x].keyed \in BOOLEAN
          /\ w.calls[x].size \in Nat \ {0}
      BY <2>2, FailoverAssumption DEF Kind
    <3>2. call[x] = [Idle EXCEPT !.pc = "called", !.kind = w.calls[x].kind,
                        !.keyed = w.calls[x].keyed, !.size = w.calls[x].size]
      BY <1>3, <2>2
    <3>3. call[x] = [pc |-> "called", at |-> None, kind |-> w.calls[x].kind,
                     keyed |-> w.calls[x].keyed, size |-> w.calls[x].size,
                     job |-> None, todo |-> {}, cur |-> None]
      BY <3>2 DEF Idle
    <3>. QED
      BY <3>1, <3>3 DEF Thread
  <2>. QED
    BY <2>1, <2>2
<1>7. Owned = {}
  BY <1>1 DEF Owned
<1>8. mem \in [Driver -> Memory] /\ agent \in [Agent -> AgentState]
      /\ call \in [Caller \cup Driver -> Thread]
  <2>1. /\ mem = [d \in Driver |-> mem[d]] /\ agent = [a \in Agent |-> agent[a]]
        /\ call = [x \in Caller \cup Driver |-> call[x]]
    BY <1>2, <1>3
  <2>. QED
    BY <1>4, <1>5, <1>6, <2>1
<1>9. DOMAIN <<>> = {}
  OBVIOUS
<1>10. None \notin Driver /\ None \notin Job
  BY FailoverAssumption
<1>11. Typed /\ MembersInv
  BY <1>1, <1>8, Types DEF Typed, MembersInv
<1>12. \A d \in Driver : JobsKnown(mem[d]) /\ TasksKnown(mem[d]) /\ ThreadsKnown(mem[d])
  BY <1>4, <1>9 DEF JobsKnown, TasksKnown, ThreadsKnown
<1>13. JobRows /\ TaskRows
  BY <1>1 DEF JobRows, TaskRows
<1>14. Executed
  BY <1>5 DEF Executed
<1>15. \A c \in Caller : CallerInv(c)
  BY <1>6 DEF CallerInv, Holding, Sending
<1>16. \A x \in Driver : ResumeInv(x)
  BY <1>6 DEF ResumeInv, Sending
<1>17. \A j \in Job : Single(j)
  BY <1>1, <1>4, <1>9 DEF Single, Final
<1>18. Keys
  BY <1>1, <1>6, <1>10 DEF Keys, OneKey, Keeper, KeySet, KeyAtHand
<1>19. Answers
  BY <1>4 DEF Answers, AnswerSaved
<1>. QED
  BY <1>11, <1>12, <1>13, <1>14, <1>15, <1>16, <1>17, <1>18, <1>19 DEF IInv, Parts

(* Nothing happens. *)
LEMMA QuietStutter == ASSUME IInv, UNCHANGED vars PROVE Quiet
<1>1. /\ Parts /\ Grow /\ SameJobs /\ UNCHANGED mem /\ UNCHANGED agent /\ UNCHANGED call
      /\ UNCHANGED <<procs, ids, rows, resumed, raced, overtaken>> /\ StillLoading
  BY GrowStill DEF IInv, vars, procs, ids, rows, history, SameJobs, StillLoading
<1>. QED
  BY <1>1, NoneMoves, CallsSame, SameAgents, QuietMemory

LEMMA StepInv == IInv /\ [Next]_vars => IInv'
<1> SUFFICES ASSUME IInv, [Next]_vars PROVE IInv'
  OBVIOUS
<1>1. CASE Processes
  <2>1. ASSUME NEW d \in Driver, DriverStart(d) \/ BecomeLeader(d) \/ LoseLead(d) PROVE IInv'
    BY <2>1, QuietProcesses, QuietStep
  <2>2. ASSUME NEW d \in Driver, DriverCrash(d) PROVE IInv'
    BY <2>2, DriverCrashStep
  <2>3. ASSUME NEW a \in Agent, AgentCrash(a) PROVE IInv'
    BY <2>3, QuietAgentSteps, QuietStep
  <2>4. ASSUME NEW a \in Agent, NEW d \in Driver, AgentStart(a, d) PROVE IInv'
    BY <2>4, QuietAgentStart, QuietStep
  <2>. QED
    BY <1>1, <2>1, <2>2, <2>3, <2>4 DEF Processes
<1>2. CASE Submissions
  <2>1. ASSUME NEW c \in Caller, NEW d \in Driver, LookUp(c, d) PROVE IInv'
    BY <2>1, LookUpStep
  <2>2. ASSUME NEW c \in Caller, NEW j \in Job, NEW ts \in SUBSET Task, Enter(c, j, ts)
        PROVE  IInv'
    BY <2>2, EnterStep
  <2>3. ASSUME NEW c \in Caller, Place(c) PROVE IInv'
    BY <2>3, QuietPlace, QuietStep
  <2>4. ASSUME NEW c \in Caller, SaveNewJob(c) PROVE IInv'
    BY <2>4, SaveNewJobStep
  <2>5. ASSUME NEW c \in Caller, NEW t \in Task, SaveNewTask(c, t) PROVE IInv'
    BY <2>5, QuietSaveNewTask, QuietStep
  <2>. QED
    BY <1>2, <2>1, <2>2, <2>3, <2>4, <2>5 DEF Submissions
<1>3. CASE Dispatches
  <2>1. ASSUME NEW x \in Caller \cup Driver, DispatchSkips(x) \/ DispatchLocally(x)
        PROVE  IInv'
    BY <2>1, QuietDispatchSkips, QuietDispatchLocally, QuietStep
  <2>2. ASSUME NEW x \in Caller \cup Driver, NEW answered \in BOOLEAN, DispatchSent(x, answered)
        PROVE  IInv'
    BY <2>2, QuietDispatchSent, QuietStep
  <2>3. ASSUME NEW x \in Caller \cup Driver, DispatchRefused(x) \/ AnswerLost(x)
        PROVE  IInv'
    BY <2>3, QuietDispatchFails, QuietStep
  <2>4. ASSUME NEW x \in Caller \cup Driver, FailureHandled(x) PROVE IInv'
    BY <2>4, QuietFailureHandled, QuietStep
  <2>. QED
    BY <1>3, <2>1, <2>2, <2>3, <2>4 DEF Dispatches
<1>4. CASE Executions
  <2>1. ASSUME NEW a \in Agent, NEW t \in Task, NEW ok \in BOOLEAN, NEW lost \in BOOLEAN,
               AgentReports(a, t, ok, lost)
        PROVE  IInv'
    BY <2>1, QuietAgentReports, QuietStep
  <2>2. ASSUME NEW a \in Agent, NEW t \in Task, AgentPops(a, t) PROVE IInv'
    BY <2>2, QuietAgentSteps, QuietStep
  <2>3. ASSUME NEW d \in Driver, NEW t \in Task,
               LocalReturns(d, t) \/ LocalRaises(d, t) \/ LocalStops(d, t)
        PROVE  IInv'
    BY <2>3, QuietLocalReturns, QuietLocalRaises, QuietLocalStops, QuietStep
  <2>4. ASSUME NEW d \in Driver, NEW j \in Job, Cancel(d, j) PROVE IInv'
    BY <2>4, QuietCancel, QuietStep
  <2>. QED
    BY <1>4, <2>1, <2>2, <2>3, <2>4 DEF Executions
<1>5. CASE Saves
  <2>1. ASSUME NEW d \in Driver, NEW p \in mem[d].saves, PersistTask(d, p) PROVE IInv'
    BY <2>1, QuietPersistTask, QuietStep
  <2>2. ASSUME NEW d \in Driver, NEW p \in mem[d].saves, PersistJob(d, p) PROVE IInv'
    BY <2>2, PersistJobStep
  <2>. QED
    BY <1>5, <2>1, <2>2 DEF Saves
<1>6. CASE Resumes
  <2>1. ASSUME NEW d \in Driver, LoadJobs(d) PROVE IInv'
    BY <2>1, LoadJobsStep
  <2>2. ASSUME NEW d \in Driver, LoadTasks(d) \/ ListAgain(d) PROVE IInv'
    BY <2>2, QuietLoadTasks, QuietListAgain, QuietStep
  <2>3. ASSUME NEW d \in Driver, NEW t \in Task, ResumeNext(d, t) PROVE IInv'
    BY <2>3, QuietResumeNext, QuietStep
  <2>. QED
    BY <1>6, <2>1, <2>2, <2>3 DEF Resumes
<1>7. CASE UNCHANGED vars
  BY <1>7, QuietStutter, QuietStep
<1>. QED
  BY <1>1, <1>2, <1>3, <1>4, <1>5, <1>6, <1>7 DEF Next

(* The invariant holds throughout. *)
THEOREM FailoverInvariant == Spec => []IInv
BY InitInv, StepInv, PTL DEF Spec

(* Every variable stays in its type. *)
THEOREM FailoverTypeCorrect == Spec => []TypeOK
<1>1. IInv => TypeOK
  BY DEF IInv, Parts, Typed
<1>. QED
  BY <1>1, FailoverInvariant, PTL

(* What a leader tells of a finished job of one task is what the next leader
   will read, once its handlers have saved and unless another driver wrote. *)
THEOREM AnswersDurable == Spec => []AnswerIsDurable
<1>1. IInv => AnswerIsDurable
  <2> SUFFICES ASSUME IInv, NEW d \in leads, NEW j \in Job, call[d].pc = "idle",
                      d \notin overtaken, JobKnown(d, j),
                      Table(mem[d].jobs[j]) \in {"COMPLETED", "FAILED"},
                      Cardinality(members[j]) = 1, jobRow[j] # "none",
                      \A p \in mem[d].saves : p.task \notin members[j]
               PROVE  jobRow[j] = Table(mem[d].jobs[j])
    BY DEF AnswerIsDurable
  <2>1. d \in Driver
    BY Types DEF IInv, Parts, Typed
  <2>2. AnswerSaved(d, j)
    BY <2>1 DEF IInv, Answers
  <2>. QED
    BY <2>2 DEF AnswerSaved, Leading, JobKnown, Outcome
<1>. QED
  BY <1>1, FailoverInvariant, PTL

(* A process makes one job for the key, unless two lookups of it overlapped. *)
THEOREM KeysHonoured == Spec => []KeyHonoured
<1>1. IInv => KeyHonoured
  BY DEF IInv, Keys, OneKey, Keeper, KeyHonoured
<1>. QED
  BY <1>1, FailoverInvariant, PTL

(* A leader that has resumed knows the key of the stored jobs. *)
THEOREM KeysKnown == Spec => []KeyKnown
<1>1. IInv => KeyKnown
  <2> SUFFICES ASSUME IInv, NEW d \in leads, call[d].pc = "idle", d \notin overtaken,
                      Stored \cap keyed # {}
               PROVE  mem[d].key \in keyed
    BY DEF KeyKnown
  <2>1. d \in Driver
    BY Types DEF IInv, Parts, Typed
  <2>. QED
    BY <2>1 DEF IInv, Keys, KeyAtHand, Leading
<1>. QED
  BY <1>1, FailoverInvariant, PTL
-----------------------------------------------------------------------------
(* What a step makes of the rows and of what is known of the jobs. *)
LEMMA JobRowStep ==
    ASSUME IInv, NEW d \in Driver, NEW j \in Job, NEW i \in DOMAIN mem[d].jobs[j],
           WriteJob(d, j, i), UNCHANGED <<facts, resumed>>
    PROVE  [Durable!Next]_(Durable!vars)
<1>1. /\ mem[d] \in Memory /\ JobsKnown(mem[d])
      /\ jobRow \in [Job -> JobState \cup {"none"}]
      /\ j \notin resumed => Single(j)
  BY Types DEF IInv, Parts, Typed
<1> DEFINE s == mem[d].jobs[j][i]
<1>2. s \in JobState /\ Caused(facts, j, s)
  BY <1>1, NonemptySeq DEF JobsKnown, Memory
<1>3. UNCHANGED jobRow \/ jobRow' = [jobRow EXCEPT ![j] = s]
  BY DEF WriteJob
<1>4. CASE UNCHANGED jobRow
  BY <1>4 DEF Durable!vars
<1>5. CASE jobRow' = [jobRow EXCEPT ![j] = s] /\ s \in Final
  <2>1. Durable!Final = Final
    BY DEF Durable!Final, Final
  <2>2. Durable!CauseOf[s] \in facts[j]
    BY <1>2, <1>5 DEF Durable!CauseOf, Durable!Final, Final, Caused
  <2>3. Durable!StoreFinal(j, s)
    BY <1>5, <2>2 DEF Durable!StoreFinal
  <2>. QED
    BY <1>5, <2>1, <2>3 DEF Durable!Next
<1>6. CASE jobRow' = [jobRow EXCEPT ![j] = s] /\ s \notin Final
  <2>1. s \in {"PENDING", "RUNNING"}
    BY <1>2, <1>6 DEF JobState
  <2>2. jobRow[j] \in Durable!Final => j \in resumed
    BY <1>1, <1>6 DEF Single, Durable!Final, Final
  <2>3. Durable!StoreOpen(j)
    BY <1>6, <2>1, <2>2 DEF Durable!StoreOpen
  <2>. QED
    BY <2>3 DEF Durable!Next
<1>. QED
  BY <1>3, <1>4, <1>5, <1>6

LEMMA FactStep ==
    ASSUME NEW j \in Job, NEW c \in Cause, facts' = [facts EXCEPT ![j] = @ \cup {c}],
           UNCHANGED <<jobRow, resumed>>
    PROVE  [Durable!Next]_(Durable!vars)
<1>1. Durable!Happens(j, c)
  BY DEF Durable!Happens
<1>2. c \in Durable!Cause
  BY DEF Durable!Cause, Cause
<1>. QED
  BY <1>1, <1>2 DEF Durable!Next

LEMMA LaunchedJob == ASSUME IInv, NEW t, Launched(t) PROVE JobOf(t) \in Job
BY JobOfOwned, Types DEF Launched, IInv, Parts, Typed

LEMMA PromiseStep == IInv /\ [Next]_vars => [Durable!Next]_(Durable!vars)
<1> SUFFICES ASSUME IInv, [Next]_vars PROVE [Durable!Next]_(Durable!vars)
  OBVIOUS
<1>1. ASSUME UNCHANGED <<jobRow, facts, resumed>> PROVE [Durable!Next]_(Durable!vars)
  BY <1>1 DEF Durable!vars
<1>2. Parts
  BY DEF IInv
<1>3. CASE Processes
  <2>1. UNCHANGED <<jobRow, facts, resumed>>
    BY <1>3 DEF Processes, DriverStart, BecomeLeader, LoseLead, DriverCrash, AgentCrash,
                AgentStart, rows, history
  <2>. QED
    BY <1>1, <2>1
<1>4. CASE Submissions
  <2>1. ASSUME NEW c \in Caller, SaveNewJob(c) PROVE [Durable!Next]_(Durable!vars)
    <3> DEFINE d == call[c].at
               j == call[c].job
    <3>1. WriteJob(d, j, 1) /\ UNCHANGED <<facts, resumed>> /\ call[c].pc = "saveJob"
      BY <2>1 DEF SaveNewJob
    <3>2. d \in Driver /\ j \in Job /\ mem[d].jobs[j] # <<>> /\ mem \in [Driver -> Memory]
      BY <1>2, <3>1, Types DEF Parts, Typed, CallerInv, Holding
    <3>3. PICK i \in DOMAIN mem[d].jobs[j] : i = 1
      BY <3>2, NonemptySeq DEF Memory
    <3>4. WriteJob(d, j, i)
      BY <3>1, <3>3
    <3> HIDE DEF d, j
    <3>. QED
      BY <3>1, <3>2, <3>4, JobRowStep
  <2>2. ASSUME ~(\E c \in Caller : SaveNewJob(c)) PROVE UNCHANGED <<jobRow, facts, resumed>>
    <3>1. ASSUME NEW c \in Caller,
                 \/ \E d \in Driver : LookUp(c, d)
                 \/ \E j \in Job, ts \in SUBSET Task : Enter(c, j, ts)
          PROVE  UNCHANGED <<jobRow, facts, resumed>>
      BY <3>1 DEF Enter, LookUp, rows, history
    <3>2. ASSUME NEW c \in Caller, Place(c) \/ \E t \in Task : SaveNewTask(c, t)
          PROVE  UNCHANGED <<jobRow, facts, resumed>>
      BY <3>2 DEF Place, SaveNewTask, rows, history
    <3>. QED
      BY <1>4, <2>2, <3>1, <3>2 DEF Submissions
  <2>. QED
    BY <1>1, <2>1, <2>2
<1>5. CASE Dispatches
  <2>1. ASSUME NEW x \in Caller \cup Driver, DispatchRefused(x) \/ AnswerLost(x)
        PROVE  [Durable!Next]_(Durable!vars)
    <3>1. DispatchFails(x) /\ call[x].pc \in Sending
      BY <2>1 DEF DispatchRefused, AnswerLost, Dispatching, Sending
    <3>2. JobOf(call[x].cur) \in Job /\ "raised" \in Cause
      BY <1>2, <3>1, SenderKnown DEF Cause
    <3>3. /\ facts' = [facts EXCEPT ![JobOf(call[x].cur)] = @ \cup {"raised"}]
          /\ UNCHANGED <<jobRow, resumed>>
      BY <3>1 DEF DispatchFails, rows
    <3>. QED
      BY <3>2, <3>3, FactStep
  <2>2. ASSUME ~(\E x \in Caller \cup Driver : DispatchRefused(x) \/ AnswerLost(x))
        PROVE  UNCHANGED <<jobRow, facts, resumed>>
    BY <1>5, <2>2
       DEF Dispatches, DispatchSkips, DispatchLocally, DispatchSent, FailureHandled,
           rows, history
  <2>. QED
    BY <1>1, <2>1, <2>2
<1>6. CASE Executions
  <2>1. ASSUME NEW a \in Agent, NEW t \in Task, NEW ok \in BOOLEAN, NEW lost \in BOOLEAN,
               AgentReports(a, t, ok, lost)
        PROVE  [Durable!Next]_(Durable!vars)
    <3>1. Launched(t)
      BY <1>2, <2>1 DEF AgentReports, Parts, Executed
    <3>2. /\ facts' = [facts EXCEPT ![JobOf(t)] = @ \cup {IF ok THEN "returned" ELSE "raised"}]
          /\ UNCHANGED <<jobRow, resumed>>
      BY <2>1 DEF AgentReports, rows
    <3>3. (IF ok THEN "returned" ELSE "raised") \in Cause
      BY DEF Cause
    <3>. QED
      BY <3>1, <3>2, <3>3, FactStep, LaunchedJob
  <2>2. ASSUME NEW a \in Agent, NEW t \in Task, AgentPops(a, t)
        PROVE  [Durable!Next]_(Durable!vars)
    BY <1>1, <2>2 DEF AgentPops, rows, history
  <2>3. ASSUME NEW d \in Driver, NEW t \in Task, LocalReturns(d, t) \/ LocalRaises(d, t)
        PROVE  [Durable!Next]_(Durable!vars)
    <3>1. Launched(t)
      BY <1>2, <2>3 DEF LocalReturns, LocalRaises, Parts, ThreadsKnown
    <3>2. /\ \E c \in Cause : facts' = [facts EXCEPT ![JobOf(t)] = @ \cup {c}]
          /\ UNCHANGED <<jobRow, resumed>>
      BY <2>3 DEF LocalReturns, LocalRaises, rows, Cause
    <3>. QED
      BY <3>1, <3>2, FactStep, LaunchedJob
  <2>4. ASSUME NEW d \in Driver, NEW t \in Task, LocalStops(d, t)
        PROVE  [Durable!Next]_(Durable!vars)
    BY <1>1, <2>4 DEF LocalStops, rows, history
  <2>5. ASSUME NEW d \in Driver, NEW j \in Job, Cancel(d, j)
        PROVE  [Durable!Next]_(Durable!vars)
    <3>1. /\ facts' = facts \/ facts' = [facts EXCEPT ![j] = @ \cup {"cancelled"}]
          /\ UNCHANGED <<jobRow, resumed>>
      BY <2>5 DEF Cancel, rows
    <3>2. "cancelled" \in Cause
      BY DEF Cause
    <3>. QED
      BY <1>1, <3>1, <3>2, FactStep
  <2>. QED
    BY <1>6, <2>1, <2>2, <2>3, <2>4, <2>5 DEF Executions
<1>7. CASE Saves
  <2>1. ASSUME NEW d \in Driver, NEW p \in mem[d].saves, PersistTask(d, p)
        PROVE  [Durable!Next]_(Durable!vars)
    BY <1>1, <2>1 DEF PersistTask, history
  <2>2. ASSUME NEW d \in Driver, NEW p \in mem[d].saves, PersistJob(d, p)
        PROVE  [Durable!Next]_(Durable!vars)
    <3> DEFINE j == JobOf(p.task)
    <3>1. WriteJob(d, j, p.ji) /\ UNCHANGED <<facts, resumed>>
      BY <2>2 DEF PersistJob
    <3>2. Launched(p.task) /\ p.ji \in DOMAIN mem[d].jobs[j]
      BY <1>2 DEF Parts, ThreadsKnown
    <3>3. j \in Job
      BY <3>2, LaunchedJob
    <3>4. PICK i \in DOMAIN mem[d].jobs[j] : i = p.ji
      BY <3>2
    <3>5. WriteJob(d, j, i)
      BY <3>1, <3>4
    <3> HIDE DEF j
    <3>. QED
      BY <3>1, <3>3, <3>5, JobRowStep
  <2>. QED
    BY <1>7, <2>1, <2>2 DEF Saves
<1>8. CASE Resumes
  <2>1. ASSUME NEW d \in Driver, LoadJobs(d) PROVE [Durable!Next]_(Durable!vars)
    <3>1. Durable!Resume
      BY <2>1 DEF LoadJobs, Durable!Resume, Stored, rows
    <3>. QED
      BY <3>1 DEF Durable!Next
  <2>2. ASSUME NEW d \in Driver,
               LoadTasks(d) \/ ListAgain(d) \/ \E t \in Task : ResumeNext(d, t)
        PROVE  [Durable!Next]_(Durable!vars)
    BY <1>1, <2>2 DEF LoadTasks, ListAgain, ResumeNext, rows, history
  <2>. QED
    BY <1>8, <2>1, <2>2 DEF Resumes
<1>9. CASE UNCHANGED vars
  BY <1>1, <1>9 DEF vars, rows, history
<1>. QED
  BY <1>3, <1>4, <1>5, <1>6, <1>7, <1>8, <1>9 DEF Next

LEMMA PromiseInit == Init => Durable!Init
BY DEF Init, Durable!Init

(* The rows keep the durable promise: an outcome in a row has happened, and only
   for a job that a failover has loaded does the store forget one. *)
THEOREM PromiseKept == Spec => Promise
BY PromiseInit, PromiseStep, FailoverInvariant, PTL DEF Spec, Promise, Durable!Spec
=============================================================================
