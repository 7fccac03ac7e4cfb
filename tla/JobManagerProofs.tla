---------------------------- MODULE JobManagerProofs ----------------------------
(***************************************************************************)
(* Proofs about JobManager, for all sets of nodes, jobs, tasks, threads    *)
(* and executions and all bounds: the type invariant, that no job          *)
(* completes, or fails, without a cause, that entries and events belong to *)
(* executions, and that no two executions of a task overlap.               *)
(***************************************************************************)
EXTENDS JobManager, TLAPS

(* Type correctness.  Executions and dispatching threads have a task. *)

Dispatching == {"checked", "assigning", "failing", "failed"}

ThreadsTyped ==
    /\ thread \in [Thread -> ThreadType]
    /\ \A a \in Thread : thread[a].pc \in Dispatching => thread[a].task \in Task
CopiesTyped ==
    /\ copy \in [Copy -> CopyType]
    /\ \A c \in Copy : copy[c].pc # "idle" => copy[c].task \in Task

TypeInv ==
    /\ JobTypes /\ TaskTypes /\ EntryTypes /\ ClusterTypes /\ EventTypes
    /\ BookTypes /\ ThreadsTyped /\ CopiesTyped

LEMMA InitType == Init => TypeInv
<1> SUFFICES ASSUME Init PROVE TypeInv
  OBVIOUS
<1>1. JobTypes /\ TaskTypes /\ EntryTypes
  BY DEF Init, JobTypes, JobState, TaskTypes, TaskState, EntryTypes
<1>2. ClusterTypes /\ EventTypes /\ BookTypes
  BY BoundAssumption DEF Init, ClusterTypes, Agent, EventTypes, BookTypes
<1>3. ThreadsTyped
  BY DEF Init, ThreadsTyped, ThreadType, ThreadPC, IdleThread, Dispatching
<1>4. CopiesTyped
  BY DEF Init, CopiesTyped, CopyType, CopyPC, IdleCopy
<1> QED BY <1>1, <1>2, <1>3, <1>4 DEF TypeInv

LEMMA StartTyped ==
    ASSUME CopiesTyped, NEW t \in Task, NEW place \in Agent \cup {Driver},
           NEW pc \in {"begin", "run"}, StartCopy(t, place, pc)
    PROVE  CopiesTyped'
BY DEF StartCopy, CopiesTyped, CopyType, CopyPC

LEMMA ThreadSet ==
    ASSUME ThreadsTyped, NEW a \in Thread, NEW pc \in ThreadPC \ Dispatching,
           NEW ts \in SUBSET Task,
           thread' = [thread EXCEPT ![a].pc = pc, ![a].todo = ts]
    PROVE  ThreadsTyped'
<1>1. thread' \in [Thread -> ThreadType]
  BY DEF ThreadsTyped, ThreadType
<1>2. \A b \in Thread \ {a} : thread'[b] = thread[b]
  BY DEF ThreadsTyped
<1>3. thread'[a].pc = pc
  BY DEF ThreadsTyped, ThreadType
<1> QED BY <1>1, <1>2, <1>3 DEF ThreadsTyped

LEMMA DispatchedTyped ==
    ASSUME ThreadsTyped, NEW a \in Thread, Dispatched(a)
    PROVE  ThreadsTyped'
<1> "dispatching" \in ThreadPC \ Dispatching
  BY DEF ThreadPC, Dispatching
<1> QED BY DEF Dispatched, ThreadsTyped, ThreadType

LEMMA ThreadAt ==
    ASSUME ThreadsTyped, NEW a \in Thread, NEW n \in Node \cup {None},
           NEW pc \in ThreadPC, pc \in Dispatching => thread[a].task \in Task,
           thread' = [thread EXCEPT ![a].pc = pc, ![a].node = n]
    PROVE  ThreadsTyped'
<1>1. thread' \in [Thread -> ThreadType]
  BY DEF ThreadsTyped, ThreadType
<1>2. \A b \in Thread \ {a} : thread'[b] = thread[b]
  BY DEF ThreadsTyped
<1>3. thread'[a].pc = pc /\ thread'[a].task = thread[a].task
  BY DEF ThreadsTyped, ThreadType
<1> QED BY <1>1, <1>2, <1>3 DEF ThreadsTyped

LEMMA OrphansTyped ==
    ASSUME TypeInv, NEW a \in Thread, FindOrphans(a)
    PROVE  ThreadsTyped'
<1>1. PICK orphans \in SUBSET Task :
        \/ thread' = [thread EXCEPT ![a] = IdleThread]
        \/ thread' = [thread EXCEPT ![a] =
                        [@ EXCEPT !.pc = "stealing", !.todo = orphans]]
  BY DEF FindOrphans, TypeInv, TaskTypes
<1>2. CASE thread' = [thread EXCEPT ![a] = IdleThread]
  BY <1>2 DEF TypeInv, ThreadsTyped, ThreadType, ThreadPC, IdleThread, Dispatching
<1>3. CASE thread' = [thread EXCEPT ![a] =
                        [@ EXCEPT !.pc = "stealing", !.todo = orphans]]
  BY <1>3 DEF TypeInv, ThreadsTyped, ThreadType, ThreadPC, Dispatching
<1> QED BY <1>1, <1>2, <1>3

LEMMA CopySet ==
    ASSUME CopiesTyped, NEW c \in Copy, copy[c].pc # "idle", NEW pc \in CopyPC,
           NEW ts \in SUBSET Task,
           copy' = [copy EXCEPT ![c].pc = pc, ![c].losers = ts]
    PROVE  CopiesTyped'
<1>1. copy' \in [Copy -> CopyType]
  <2>1. copy[c] \in CopyType /\ copy \in [Copy -> CopyType]
    BY DEF CopiesTyped
  <2>2. [copy[c] EXCEPT !.pc = pc, !.losers = ts] \in CopyType
    BY <2>1 DEF CopyType
  <2>3. copy' = [copy EXCEPT ![c] = [copy[c] EXCEPT !.pc = pc, !.losers = ts]]
    BY <2>1
  <2> QED BY <2>1, <2>2, <2>3
<1>2. \A d \in Copy \ {c} : copy'[d] = copy[d]
  BY DEF CopiesTyped
<1>3. copy'[c].task = copy[c].task
  BY DEF CopiesTyped, CopyType
<1> QED BY <1>1, <1>2, <1>3 DEF CopiesTyped

LEMMA EventsTyped ==
    ASSUME EventTypes, NEW ts \in SUBSET Task
    PROVE  Events(ts) \subseteq Copy
BY DEF EventTypes, Events

LEMMA NextType == TypeInv /\ [Next]_vars => TypeInv'
<1> SUFFICES ASSUME TypeInv, [Next]_vars PROVE TypeInv'
  OBVIOUS
<1> USE JobOfAssumption, NodeAssumption, BoundAssumption, CancellableAssumption
    DEF TypeInv
<1>f. /\ UNCHANGED <<jobState, winner, result>> => JobTypes'
      /\ UNCHANGED <<known, taskState, assigned>> => TaskTypes'
      /\ UNCHANGED <<running, speculative, started>> => EntryTypes'
      /\ UNCHANGED <<dead, remote, up, agentRunning>> => ClusterTypes'
      /\ UNCHANGED <<interruptOf, interrupted>> => EventTypes'
      /\ UNCHANGED <<cancelling, cancelled, finished, decided, faults, moves>>
           => BookTypes'
      /\ UNCHANGED thread => ThreadsTyped'
      /\ UNCHANGED copy => CopiesTyped'
  BY DEF JobTypes, TaskTypes, EntryTypes, ClusterTypes, EventTypes, BookTypes,
         ThreadsTyped, CopiesTyped
<1>1. ASSUME NEW n \in Node, AgentCrash(n) PROVE TypeInv'
  <2>1. BookTypes'
    BY <1>1 DEF AgentCrash, Fault, BookTypes, cancels, history, bounds
  <2>2. ClusterTypes'
    BY <1>1 DEF AgentCrash, ClusterTypes, Agent, cluster
  <2>3. CopiesTyped'
    BY <1>1 DEF AgentCrash, IdleCopy, CopiesTyped, CopyType, CopyPC
  <2> QED BY <1>1, <2>1, <2>2, <2>3, <1>f DEF AgentCrash, Fault, bounds,
         cancels, cluster, events, history, jobs, spec, tasks
<1>2. ASSUME NEW n \in Node, AgentRegisters(n) PROVE TypeInv'
  <2>1. BookTypes'
    BY <1>2 DEF AgentRegisters, Fault, BookTypes, cancels, history, bounds
  <2>2. ClusterTypes'
    BY <1>2 DEF AgentRegisters, ClusterTypes, Agent, cluster
  <2> QED BY <1>2, <2>1, <2>2, <1>f DEF AgentRegisters, Fault, bounds, cancels,
         cluster, events, history, jobs, spec, tasks
<1>3. ASSUME NEW n \in Node, LateHeartbeat(n) PROVE TypeInv'
  <2>1. BookTypes'
    BY <1>3 DEF LateHeartbeat, Fault, BookTypes, cancels, history, bounds
  <2>2. ClusterTypes'
    BY <1>3 DEF LateHeartbeat, ClusterTypes, Agent, cluster
  <2> QED BY <1>3, <2>1, <2>2, <1>f DEF LateHeartbeat, Fault, bounds, cancels,
         cluster, events, history, jobs, spec, tasks
<1>4. ASSUME NEW n \in Node, PolledDead(n) PROVE TypeInv'
  <2>1. BookTypes'
    BY <1>4 DEF PolledDead, Fault, BookTypes, cancels, history, bounds
  <2>2. ClusterTypes'
    BY <1>4 DEF PolledDead, Live, ClusterTypes, Agent, cluster
  <2> QED BY <1>4, <2>1, <2>2, <1>f DEF PolledDead, Fault, bounds, cancels,
         cluster, events, history, jobs, spec, tasks
<1>5. ASSUME NEW n \in Node, DeclareDead(n) PROVE TypeInv'
  <2>1. BookTypes'
    BY <1>5 DEF DeclareDead, Fault, BookTypes, cancels, history, bounds
  <2>2. ClusterTypes'
    BY <1>5 DEF DeclareDead, Live, ClusterTypes, Agent, cluster
  <2>3. ThreadsTyped'
    <3>1. Health \in Thread /\ "pausing" \in ThreadPC \ Dispatching
      BY DEF Thread, ThreadPC, Dispatching
    <3> QED BY <1>5, <3>1, ThreadAt DEF DeclareDead
  <2> QED BY <1>5, <2>1, <2>2, <2>3, <1>f DEF DeclareDead, Fault, bounds,
         cancels, cluster, events, history, jobs, spec, tasks
<1>6. ASSUME NEW a \in Preemptor, NEW n \in Node, PreemptionWarning(a, n) PROVE
       TypeInv'
  <2>1. BookTypes'
    BY <1>6 DEF PreemptionWarning, Fault, BookTypes, cancels, history, bounds
  <2>2. ThreadsTyped'
    <3>1. a \in Thread /\ "pausing" \in ThreadPC \ Dispatching
      BY DEF Thread, ThreadPC, Dispatching
    <3> QED BY <1>6, <3>1, ThreadAt DEF PreemptionWarning
  <2> QED BY <1>6, <2>1, <2>2, <1>f DEF PreemptionWarning, Fault, bounds,
         cancels, cluster, events, history, jobs, spec, tasks
<1>7. ASSUME NEW a \in Thread, PauseTasks(a) PROVE TypeInv'
  <2>1. EventTypes'
    BY <1>7 DEF PauseTasks, Events, EventTypes, events
  <2>2. ThreadsTyped'
    BY <1>7 DEF PauseTasks, Raise, IdleThread, ThreadsTyped, ThreadType,
           ThreadPC, Dispatching
  <2> QED BY <1>7, <2>1, <2>2, <1>f DEF PauseTasks, bounds, cancels, cluster,
         events, history, jobs, spec, tasks
<1>8. ASSUME NEW a \in Thread, AllPaused(a) PROVE TypeInv'
  <2>1. ThreadsTyped'
    BY <1>8, OrphansTyped DEF AllPaused
  <2> QED BY <1>8, <2>1, <1>f DEF AllPaused, FindOrphans, bounds, cancels,
         cluster, events, history, jobs, spec, tasks
<1>9. ASSUME NEW a \in Thread, PauseTimeout(a) PROVE TypeInv'
  <2>1. ThreadsTyped'
    BY <1>9, OrphansTyped DEF PauseTimeout
  <2> QED BY <1>9, <2>1, <1>f DEF PauseTimeout, FindOrphans, bounds, cancels,
         cluster, events, history, jobs, spec, tasks
<1>10. ASSUME NEW a \in Thread, Steal(a) PROVE TypeInv'
  <2>1. TaskTypes'
    BY <1>10 DEF Steal, Live, ThreadsTyped, ThreadType, TaskTypes, TaskState,
           tasks
  <2>2. ThreadsTyped'
    <3>1. PICK ts \in SUBSET thread[a].todo :
            thread' = [thread EXCEPT ![a] =
                         [@ EXCEPT !.pc = "dispatching", !.node = None, !.todo = ts]]
      BY <1>10 DEF Steal
    <3> QED BY <3>1 DEF ThreadsTyped, ThreadType, ThreadPC, Dispatching
  <2> QED BY <1>10, <2>1, <2>2, <1>f DEF Steal, bounds, cancels, cluster,
         events, history, jobs, spec, tasks
<1>11. ASSUME NEW a \in Thread, NextDispatch(a) PROVE TypeInv'
  <2>1. ThreadsTyped'
    <3>1. CASE thread' = [thread EXCEPT ![a] = IdleThread]
      BY <3>1 DEF IdleThread, ThreadsTyped, ThreadType, ThreadPC, Dispatching
    <3>2. ASSUME NEW t \in thread[a].todo,
                 thread' = [thread EXCEPT ![a].todo = @ \ {t}]
          PROVE  ThreadsTyped'
      BY <3>2 DEF ThreadsTyped, ThreadType
    <3>3. ASSUME NEW t \in thread[a].todo,
                 thread' = [thread EXCEPT ![a].pc = "checked", ![a].task = t,
                                          ![a].todo = @ \ {t}]
          PROVE  ThreadsTyped'
      <4>1. "checked" \in ThreadPC /\ t \in Task
        BY DEF ThreadPC, ThreadsTyped, ThreadType
      <4> QED BY <3>3, <4>1 DEF ThreadsTyped, ThreadType
    <3> QED BY <1>11, <3>1, <3>2, <3>3 DEF NextDispatch
  <2> QED BY <1>11, <2>1, <1>f DEF NextDispatch, bounds, cancels, cluster,
         events, history, jobs, spec, tasks
<1>12. ASSUME NEW a \in Thread, EnterRemote(a) PROVE TypeInv'
  <2>1. EntryTypes'
    BY <1>12 DEF EnterRemote, ThreadsTyped, Dispatching, EntryTypes, spec
  <2>2. ThreadsTyped'
    <3>1. CASE Dispatched(a)
      BY <3>1, DispatchedTyped
    <3>2. CASE thread' = [thread EXCEPT ![a].pc = "assigning",
                                        ![a].node = assigned[thread[a].task]]
      <4>1. thread[a].pc \in Dispatching /\ thread[a].task \in Task
        BY <1>12 DEF EnterRemote, ThreadsTyped, Dispatching
      <4>2. assigned[thread[a].task] \in Node \cup {None}
        BY <4>1 DEF TaskTypes
      <4>3. "assigning" \in ThreadPC
        BY DEF ThreadPC
      <4> QED BY <3>2, <4>1, <4>2, <4>3, ThreadAt
    <3> QED BY <1>12, <3>1, <3>2 DEF EnterRemote
  <2> QED BY <1>12, <2>1, <2>2, <1>f DEF EnterRemote, bounds, cancels, cluster,
         events, history, jobs, spec, tasks
<1>13. ASSUME NEW a \in Thread, EnterLocal(a) PROVE TypeInv'
  <2>1. EntryTypes'
    BY <1>13 DEF EnterLocal, ThreadsTyped, Dispatching, EntryTypes, spec
  <2>2. ThreadsTyped'
    BY <1>13, DispatchedTyped DEF EnterLocal
  <2>3. CopiesTyped'
    <3>1. thread[a].task \in Task
      BY <1>13 DEF EnterLocal, ThreadsTyped, Dispatching
    <3> QED BY <1>13, <1>f, <3>1, StartTyped DEF EnterLocal
  <2> QED BY <1>13, <2>1, <2>2, <2>3, <1>f DEF EnterLocal, bounds, cancels,
         cluster, events, history, jobs, spec, tasks
<1>14. ASSUME NEW a \in Thread, AssignRpc(a) PROVE TypeInv'
  <2>1. ClusterTypes'
    BY <1>14 DEF AssignRpc, ThreadsTyped, Dispatching, ClusterTypes, Agent,
           cluster
  <2>2. ThreadsTyped'
    <3>1. CASE Dispatched(a)
      BY <3>1, DispatchedTyped
    <3>2. CASE thread' = [thread EXCEPT ![a].pc = "failing"]
      BY <1>14, <3>2 DEF AssignRpc, ThreadsTyped, ThreadType, ThreadPC, Dispatching
    <3> QED BY <1>14, <3>1, <3>2 DEF AssignRpc
  <2>3. CopiesTyped'
    <3>1. thread[a].task \in Task
      BY <1>14 DEF AssignRpc, ThreadsTyped, Dispatching
    <3>2. thread[a].node \in up => thread[a].node \in Agent
      BY DEF ClusterTypes
    <3> QED BY <1>14, <1>f, <3>1, <3>2, StartTyped DEF AssignRpc
  <2>4. BookTypes'
    BY <1>14 DEF AssignRpc, ThreadsTyped, Dispatching, BookTypes, cancels,
           history, bounds
  <2> QED BY <1>14, <2>1, <2>2, <2>3, <2>4, <1>f DEF AssignRpc, bounds,
         cancels, cluster, events, history, jobs, spec, tasks
<1>15. ASSUME NEW a \in Thread, AssignFailed(a) PROVE TypeInv'
  <2>1. TaskTypes'
    BY <1>15 DEF AssignFailed, FailTask, TaskTypes, TaskState, tasks
  <2>2. EntryTypes'
    BY <1>15 DEF AssignFailed, FailTask, PopEntry, EntryTypes, spec
  <2>3. ThreadsTyped'
    BY <1>15 DEF AssignFailed, ThreadsTyped, ThreadType, ThreadPC, Dispatching
  <2> QED BY <1>15, <2>1, <2>2, <2>3, <1>f DEF AssignFailed, bounds, cancels,
         cluster, events, history, jobs, spec, tasks
<1>16. ASSUME NEW a \in Thread, AssignFailedJob(a) PROVE TypeInv'
  <2>1. JobTypes'
    BY <1>16 DEF AssignFailedJob, FailJobOf, ThreadsTyped, Dispatching,
           JobTypes, JobState, Terminal, jobs
  <2>2. EntryTypes'
    BY <1>16 DEF AssignFailedJob, EntryTypes, spec
  <2>3. ThreadsTyped'
    BY <1>16, DispatchedTyped DEF AssignFailedJob
  <2> QED BY <1>16, <2>1, <2>2, <2>3, <1>f DEF AssignFailedJob, bounds,
         cancels, cluster, events, history, jobs, spec, tasks
<1>17. ASSUME NEW j \in Job, Submit(j) PROVE TypeInv'
  <2>1. JobTypes'
    BY <1>17 DEF Submit, JobTypes, JobState, Terminal, jobs
  <2>2. TaskTypes'
    BY <1>17 DEF Submit, Live, TasksOf, TaskTypes, TaskState, tasks
  <2>3. ThreadsTyped'
    <3>1. \E ts \in SUBSET Task :
            thread' = [thread EXCEPT ![j].pc = "placed", ![j].todo = ts]
      <4>1. PICK place \in [TasksOf(j) -> Live \cup {None}] :
              thread' = [thread EXCEPT ![j].pc = "placed",
                           ![j].todo = {t \in TasksOf(j) : place[t] # None}]
        BY <1>17 DEF Submit
      <4>2. {t \in TasksOf(j) : place[t] # None} \in SUBSET Task
        BY DEF TasksOf
      <4> QED BY <4>1, <4>2
    <3>2. "placed" \in ThreadPC \ Dispatching /\ j \in Thread
      BY DEF ThreadPC, Dispatching, Thread
    <3> QED BY <3>1, <3>2, ThreadSet
  <2> QED BY <1>17, <2>1, <2>2, <2>3, <1>f DEF Submit, bounds, cancels,
         cluster, events, history, jobs, spec, tasks
<1>18. ASSUME NEW j \in Job, SubmitRuns(j) PROVE TypeInv'
  <2>1. JobTypes'
    BY <1>18 DEF SubmitRuns, JobTypes, JobState, Terminal, jobs
  <2>2. ThreadsTyped'
    BY <1>18 DEF SubmitRuns, Thread, ThreadsTyped, ThreadType, ThreadPC,
           Dispatching
  <2> QED BY <1>18, <2>1, <2>2, <1>f DEF SubmitRuns, bounds, cancels, cluster,
         events, history, jobs, spec, tasks
<1>19. ASSUME NEW j \in Job, CancelJob(j) PROVE TypeInv'
  <2>1. ClusterTypes'
    BY <1>19 DEF CancelJob, CancelTasks, ClusterTypes, Agent, cluster
  <2>2. EventTypes'
    <3>1. TasksOf(j) \subseteq Task
      BY DEF TasksOf
    <3>2. PICK ts \in SUBSET Task : CancelTasks(ts)
      BY <1>19, <3>1 DEF CancelJob
    <3> QED BY <1>19, <3>2, EventsTyped DEF CancelJob, CancelTasks, EventTypes
  <2>3. TaskTypes'
    BY <1>19 DEF CancelJob, CancelTasks, TaskTypes, TaskState, tasks
  <2>4. BookTypes'
    BY <1>19 DEF CancelJob, BookTypes, cancels, history, bounds
  <2> QED BY <1>19, <2>1, <2>2, <2>3, <2>4, <1>f DEF CancelJob, bounds,
         cancels, cluster, events, history, jobs, spec, tasks
<1>20. ASSUME NEW j \in Job, CancelJobEnds(j) PROVE TypeInv'
  <2>1. JobTypes'
    BY <1>20 DEF CancelJobEnds, JobTypes, JobState, Terminal, jobs
  <2>2. BookTypes'
    BY <1>20 DEF CancelJobEnds, BookTypes, cancels, history, bounds
  <2> QED BY <1>20, <2>1, <2>2, <1>f DEF CancelJobEnds, bounds, cancels,
         cluster, events, history, jobs, spec, tasks
<1>21. ASSUME NEW t \in Task, NEW n \in Node, Rebalance(t, n) PROVE TypeInv'
  <2>1. BookTypes'
    BY <1>21 DEF Rebalance, BookTypes, cancels, history, bounds
  <2>2. EventTypes'
    BY <1>21 DEF Rebalance, Events, EventTypes, events
  <2>3. TaskTypes'
    BY <1>21 DEF Rebalance, TaskTypes, TaskState, tasks
  <2>4. ThreadsTyped'
    BY <1>21 DEF Rebalance, Raise, IdleThread, Thread, ThreadsTyped,
           ThreadType, ThreadPC, Dispatching
  <2> QED BY <1>21, <2>1, <2>2, <2>3, <2>4, <1>f DEF Rebalance, bounds,
         cancels, cluster, events, history, jobs, spec, tasks
<1>22. ASSUME NEW t \in Task, NEW d \in Spare, Speculate(t, d) PROVE TypeInv'
  <2>1. TaskTypes'
    BY <1>22 DEF Speculate, Live, TaskTypes, TaskState, tasks
  <2>2. EntryTypes'
    BY <1>22 DEF Speculate, EntryTypes, spec
  <2>3. ThreadsTyped'
    BY <1>22 DEF Speculate, Thread, ThreadsTyped, ThreadType, ThreadPC,
           Dispatching
  <2> QED BY <1>22, <2>1, <2>2, <2>3, <1>f DEF Speculate, bounds, cancels,
         cluster, events, history, jobs, spec, tasks
<1>23. ASSUME NEW c \in Copy, LocalBegins(c) PROVE TypeInv'
  <2>1. CopiesTyped'
    BY <1>23 DEF LocalBegins, CopiesTyped, CopyType, CopyPC
  <2>2. EventTypes'
    BY <1>23 DEF LocalBegins, EventTypes, events
  <2> QED BY <1>23, <2>1, <2>2, <1>f DEF LocalBegins, bounds, cancels, cluster,
         events, history, jobs, spec, tasks
<1>24. ASSUME NEW c \in Copy, LocalEnds(c) PROVE TypeInv'
  <2>1. CopiesTyped'
    BY <1>24 DEF LocalEnds, Runs, CopiesTyped, CopyType, CopyPC
  <2>2. TaskTypes'
    BY <1>24 DEF LocalEnds, TaskTypes, TaskState, tasks
  <2>3. BookTypes'
    BY <1>24 DEF LocalEnds, Runs, CopiesTyped, BookTypes, cancels, history,
           bounds
  <2>4. EventTypes'
    BY <1>24 DEF LocalEnds, Deregister, EventTypes, events
  <2> QED BY <1>24, <2>1, <2>2, <2>3, <2>4, <1>f DEF LocalEnds, bounds,
         cancels, cluster, events, history, jobs, spec, tasks
<1>25. ASSUME NEW c \in Copy, LocalReturned(c) PROVE TypeInv'
  <2>1. CopiesTyped'
    BY <1>25 DEF LocalReturned, AfterReturn, CopiesTyped, CopyType, CopyPC
  <2> QED BY <1>25, <2>1, <1>f DEF LocalReturned, bounds, cancels, cluster,
         events, history, jobs, spec, tasks
<1>26. ASSUME NEW c \in Copy, AgentEnds(c) PROVE TypeInv'
  <2>1. CopiesTyped'
    <3>1. PICK o \in {"value", "error"} :
            copy' = [copy EXCEPT ![c].pc = "report", ![c].outcome = o]
      BY <1>26 DEF AgentEnds
    <3> QED BY <1>26, <3>1 DEF AgentEnds, Runs, CopiesTyped, CopyType, CopyPC
  <2>2. BookTypes'
    BY <1>26 DEF AgentEnds, Runs, CopiesTyped, BookTypes, cancels, history,
           bounds
  <2> QED BY <1>26, <2>1, <2>2, <1>f DEF AgentEnds, bounds, cancels, cluster,
         events, history, jobs, spec, tasks
<1>27. ASSUME NEW c \in Copy, TaskComplete(c) PROVE TypeInv'
  <2>1. CopiesTyped'
    BY <1>27 DEF TaskComplete, CopiesTyped, CopyType, CopyPC
  <2>2. TaskTypes'
    BY <1>27 DEF TaskComplete, TaskTypes, TaskState, tasks
  <2> QED BY <1>27, <2>1, <2>2, <1>f DEF TaskComplete, bounds, cancels,
         cluster, events, history, jobs, spec, tasks
<1>28. ASSUME NEW c \in Copy, CompletePops(c) PROVE TypeInv'
  <2>1. EntryTypes'
    BY <1>28 DEF CompletePops, PopEntry, EntryTypes, spec
  <2>2. CopiesTyped'
    BY <1>28 DEF CompletePops, CopiesTyped, CopyType, CopyPC
  <2> QED BY <1>28, <2>1, <2>2, <1>f DEF CompletePops, bounds, cancels,
         cluster, events, history, jobs, spec, tasks
<1>29. ASSUME NEW c \in Copy, CompleteJob(c) PROVE TypeInv'
  <2>1. JobTypes'
    BY <1>29 DEF CompleteJob, CopiesTyped, JobTypes, JobState, Terminal, jobs
  <2>2. CopiesTyped'
    <3>1. OtherActive(copy[c].task) \in SUBSET Task
      BY DEF OtherActive, TasksOf
    <3>2. \E ts \in SUBSET Task :
            copy' = [copy EXCEPT ![c].pc = "cancelling", ![c].losers = ts]
      BY <1>29, <3>1 DEF CompleteJob
    <3>3. "cancelling" \in CopyPC /\ copy[c].pc # "idle"
      BY <1>29 DEF CompleteJob, CopyPC
    <3> QED BY <3>2, <3>3, CopySet
  <2> QED BY <1>29, <2>1, <2>2, <1>f DEF CompleteJob, bounds, cancels, cluster,
         events, history, jobs, spec, tasks
<1>30. ASSUME NEW c \in Copy, CancelLosers(c) PROVE TypeInv'
  <2>1. ClusterTypes'
    BY <1>30 DEF CancelLosers, CancelTasks, ClusterTypes, Agent, cluster
  <2>2. EventTypes'
    <3>1. copy[c].losers \subseteq Task
      BY DEF CopiesTyped, CopyType
    <3>2. PICK ts \in SUBSET Task : CancelTasks(ts)
      BY <1>30, <3>1 DEF CancelLosers
    <3> QED BY <1>30, <3>2, EventsTyped DEF CancelLosers, CancelTasks, EventTypes
  <2>3. TaskTypes'
    BY <1>30 DEF CancelLosers, CancelTasks, TaskTypes, TaskState, tasks
  <2>4. CopiesTyped'
    <3>1. PICK p \in {"storing", "failing", "finally"} :
            copy' = [copy EXCEPT ![c].pc = p, ![c].losers = {}]
      BY <1>30 DEF CancelLosers
    <3>2. p \in CopyPC /\ copy[c].pc # "idle" /\ {} \in SUBSET Task
      BY <1>30, <3>1 DEF CancelLosers, CopyPC
    <3> QED BY <3>1, <3>2, CopySet
  <2> QED BY <1>30, <2>1, <2>2, <2>3, <2>4, <1>f DEF CancelLosers, bounds,
         cancels, cluster, events, history, jobs, spec, tasks
<1>31. ASSUME NEW c \in Copy, StoreResult(c) PROVE TypeInv'
  <2>1. JobTypes'
    BY <1>31 DEF StoreResult, CopiesTyped, JobTypes, JobState, Terminal, jobs
  <2>2. CopiesTyped'
    BY <1>31 DEF StoreResult, CopiesTyped, CopyType, CopyPC
  <2> QED BY <1>31, <2>1, <2>2, <1>f DEF StoreResult, bounds, cancels, cluster,
         events, history, jobs, spec, tasks
<1>32. ASSUME NEW c \in Copy, FailPops(c) PROVE TypeInv'
  <2>1. TaskTypes'
    BY <1>32 DEF FailPops, FailTask, TaskTypes, TaskState, tasks
  <2>2. EntryTypes'
    BY <1>32 DEF FailPops, FailTask, PopEntry, EntryTypes, spec
  <2>3. CopiesTyped'
    BY <1>32 DEF FailPops, CopiesTyped, CopyType, CopyPC
  <2> QED BY <1>32, <2>1, <2>2, <2>3, <1>f DEF FailPops, bounds, cancels,
         cluster, events, history, jobs, spec, tasks
<1>33. ASSUME NEW c \in Copy, FailJob(c) PROVE TypeInv'
  <2>1. JobTypes'
    BY <1>33 DEF FailJob, FailJobOf, JobTypes, JobState, Terminal, jobs
  <2>2. CopiesTyped'
    BY <1>33 DEF FailJob, CopiesTyped, CopyType, CopyPC
  <2> QED BY <1>33, <2>1, <2>2, <1>f DEF FailJob, bounds, cancels, cluster,
         events, history, jobs, spec, tasks
<1>34. ASSUME NEW c \in Copy, Finally(c) PROVE TypeInv'
  <2>1. EntryTypes'
    BY <1>34 DEF Finally, Leave, EntryTypes, spec
  <2>2. ClusterTypes'
    BY <1>34 DEF Finally, Leave, ClusterTypes, Agent, cluster
  <2>3. CopiesTyped'
    BY <1>34 DEF Finally, IdleCopy, CopiesTyped, CopyType, CopyPC
  <2> QED BY <1>34, <2>1, <2>2, <2>3, <1>f DEF Finally, bounds, cancels,
         cluster, events, history, jobs, spec, tasks
<1>35. CASE UNCHANGED vars
  BY <1>35, <1>f DEF vars, jobs, tasks, spec, cluster, events, cancels, history, bounds
<1> QED BY <1>1, <1>2, <1>3, <1>4, <1>5, <1>6, <1>7, <1>8, <1>9, <1>10, <1>11,
       <1>12, <1>13, <1>14, <1>15, <1>16, <1>17, <1>18, <1>19, <1>20, <1>21,
       <1>22, <1>23, <1>24, <1>25, <1>26, <1>27, <1>28, <1>29, <1>30, <1>31,
       <1>32, <1>33, <1>34, <1>35 DEF Next, Environment, Api, PlatformLoop,
       ThreadStep, CopyStep

(* Every variable of JobManager stays in its type. *)
THEOREM TypeCorrect == Spec => []TypeOK
<1>1. TypeInv => TypeOK
  BY DEF TypeInv, TypeOK, ThreadsTyped, CopiesTyped
<1> QED BY <1>1, InitType, NextType, PTL DEF Spec

-----------------------------------------------------------------------------
(* No false completion.  A completion passes through the state of the task and
   through the execution that reports it; both must vouch for a function that
   has returned. *)

Completing == {"completing", "popped", "cancelling", "storing"}

TasksVouched == \A t \in Task : taskState[t] = "COMPLETED" => t \in finished
CopiesVouched ==
    \A c \in Copy :
        copy[c].outcome = "value" \/ copy[c].pc \in Completing
        => copy[c].task \in finished

CompletionInv == TypeInv /\ NoFalseCompletion /\ TasksVouched /\ CopiesVouched

LEMMA NextCompletion == CompletionInv /\ [Next]_vars => CompletionInv'
<1> DEFINE Goal == NoFalseCompletion /\ TasksVouched /\ CopiesVouched
<1> SUFFICES ASSUME CompletionInv, [Next]_vars PROVE Goal'
  BY NextType DEF CompletionInv
<1> USE DEF CompletionInv, TypeInv
<1>f. /\ UNCHANGED <<jobState, winner, result, finished>> => NoFalseCompletion'
      /\ UNCHANGED <<taskState, finished>> => TasksVouched'
      /\ UNCHANGED <<copy, finished>> => CopiesVouched'
  BY DEF NoFalseCompletion, TasksVouched, CopiesVouched
<1>start. ASSUME NEW t \in Task, NEW place, NEW pc \in {"begin", "run"},
                 StartCopy(t, place, pc), finished' = finished
          PROVE  CopiesVouched'
  BY <1>start DEF StartCopy, CopiesVouched, CopiesTyped, Completing
<1>job. ASSUME NEW j \in Job, NEW s \in {"PENDING", "RUNNING", "FAILED", "CANCELLED"},
               jobState' = [jobState EXCEPT ![j] = s],
               UNCHANGED <<winner, result, finished>>
        PROVE  NoFalseCompletion'
  BY <1>job DEF NoFalseCompletion, JobTypes
<1>1. ASSUME NEW n \in Node, AgentCrash(n) PROVE Goal'
  <2>1. CopiesVouched'
    BY <1>1 DEF AgentCrash, CopiesVouched, CopiesTyped, Completing, IdleCopy,
       history
  <2> QED BY <1>1, <1>f, <2>1 DEF AgentCrash, jobs, tasks, history
<1>2. ASSUME NEW n \in Node,
             \/ AgentRegisters(n) \/ LateHeartbeat(n) \/ PolledDead(n)
             \/ DeclareDead(n) \/ \E a \in Preemptor : PreemptionWarning(a, n)
      PROVE  Goal'
  BY <1>2, <1>f DEF AgentRegisters, LateHeartbeat, PolledDead, DeclareDead,
     PreemptionWarning, jobs, tasks, history
<1>3. ASSUME NEW a \in Thread,
             \/ PauseTasks(a) \/ AllPaused(a) \/ PauseTimeout(a)
             \/ NextDispatch(a) \/ EnterRemote(a)
      PROVE  Goal'
  BY <1>3, <1>f DEF PauseTasks, AllPaused, PauseTimeout, FindOrphans,
     NextDispatch, EnterRemote, jobs, tasks, history
<1>4. ASSUME NEW a \in Thread, Steal(a) PROVE Goal'
  <2>1. TasksVouched'
    BY <1>4 DEF Steal, TasksVouched, TaskTypes, history
  <2> QED BY <1>4, <1>f, <2>1 DEF Steal, jobs, history
<1>5. ASSUME NEW a \in Thread, EnterLocal(a) PROVE Goal'
  <2>1. thread[a].task \in Task
    BY <1>5 DEF EnterLocal, ThreadsTyped, Dispatching
  <2> QED BY <1>5, <1>f, <1>start, <2>1 DEF EnterLocal, jobs, tasks, history
<1>6. ASSUME NEW a \in Thread, AssignRpc(a) PROVE Goal'
  <2>1. thread[a].task \in Task
    BY <1>6 DEF AssignRpc, ThreadsTyped, Dispatching
  <2>2. CopiesVouched'
    BY <1>6, <1>f, <1>start, <2>1 DEF AssignRpc
  <2> QED BY <1>6, <1>f, <2>2 DEF AssignRpc, jobs, tasks
<1>7. ASSUME NEW a \in Thread, AssignFailed(a) PROVE Goal'
  <2>1. TasksVouched'
    BY <1>7 DEF AssignFailed, FailTask, TasksVouched, TaskTypes, history
  <2> QED BY <1>7, <1>f, <2>1 DEF AssignFailed, jobs, history
<1>8. ASSUME NEW a \in Thread, AssignFailedJob(a) PROVE Goal'
  <2>1. JobOf[thread[a].task] \in Job
    BY <1>8, JobOfAssumption DEF AssignFailedJob, ThreadsTyped, Dispatching
  <2>2. NoFalseCompletion'
    BY <1>8, <1>f, <1>job, <2>1 DEF AssignFailedJob, FailJobOf, history
  <2> QED BY <1>8, <1>f, <2>2 DEF AssignFailedJob, tasks, history
<1>9. ASSUME NEW j \in Job, Submit(j) PROVE Goal'
  <2>1. TasksVouched'
    BY <1>9 DEF Submit, TasksVouched, TaskTypes, history
  <2> QED BY <1>9, <1>f, <1>job, <2>1 DEF Submit, history
<1>10. ASSUME NEW j \in Job, SubmitRuns(j) \/ CancelJobEnds(j) PROVE Goal'
  BY <1>10, <1>f, <1>job DEF SubmitRuns, CancelJobEnds, tasks, history
<1>11. ASSUME NEW j \in Job, CancelJob(j) PROVE Goal'
  <2>1. TasksVouched'
    BY <1>11 DEF CancelJob, CancelTasks, TasksVouched, TaskTypes, history
  <2> QED BY <1>11, <1>f, <2>1 DEF CancelJob, jobs, history
<1>12. ASSUME NEW t \in Task, NEW n \in Node, Rebalance(t, n) PROVE Goal'
  <2>1. TasksVouched'
    BY <1>12 DEF Rebalance, TasksVouched, TaskTypes, history
  <2> QED BY <1>12, <1>f, <2>1 DEF Rebalance, jobs, history
<1>13. ASSUME NEW t \in Task, NEW d \in Spare, Speculate(t, d) PROVE Goal'
  <2>1. TasksVouched'
    BY <1>13 DEF Speculate, TasksVouched, TaskTypes, history
  <2> QED BY <1>13, <1>f, <2>1 DEF Speculate, jobs, history
<1>14. ASSUME NEW c \in Copy, LocalBegins(c) \/ CompletePops(c) PROVE Goal'
  <2>1. CopiesVouched'
    BY <1>14 DEF LocalBegins, CompletePops, CopiesVouched, CopiesTyped, CopyType,
       Completing, history
  <2> QED BY <1>14, <1>f, <2>1 DEF LocalBegins, CompletePops, jobs, tasks, history
<1>15. ASSUME NEW c \in Copy, LocalEnds(c) PROVE Goal'
  <2>1. finished \subseteq finished' /\ copy[c].task \in Task
    BY <1>15 DEF LocalEnds, Runs, CopiesTyped, history
  <2>2. NoFalseCompletion'
    BY <1>15, <2>1 DEF LocalEnds, NoFalseCompletion, jobs
  <2>3. TasksVouched'
    BY <1>15, <2>1 DEF LocalEnds, TasksVouched, TaskTypes
  <2>4. CopiesVouched'
    BY <1>15, <2>1 DEF LocalEnds, CopiesVouched, CopiesTyped, CopyType, Completing
  <2> QED BY <2>2, <2>3, <2>4
<1>16. ASSUME NEW c \in Copy, LocalReturned(c) PROVE Goal'
  <2>1. copy[c].task \in Task
    BY <1>16 DEF LocalReturned, CopiesTyped
  <2>2. CopiesVouched'
    BY <1>16, <2>1 DEF LocalReturned, AfterReturn, TasksVouched, CopiesVouched,
       CopiesTyped, CopyType, Completing, history
  <2> QED BY <1>16, <1>f, <2>2 DEF LocalReturned, jobs, tasks, history
<1>17. ASSUME NEW c \in Copy, AgentEnds(c) PROVE Goal'
  <2>1. finished \subseteq finished'
    BY <1>17 DEF AgentEnds
  <2>2. NoFalseCompletion' /\ TasksVouched'
    BY <1>17, <2>1 DEF AgentEnds, NoFalseCompletion, TasksVouched, jobs, tasks
  <2>3. CopiesVouched'
    BY <1>17, <2>1 DEF AgentEnds, CopiesVouched, CopiesTyped, CopyType, Completing
  <2> QED BY <2>2, <2>3
<1>18. ASSUME NEW c \in Copy, TaskComplete(c) PROVE Goal'
  <2>1. TasksVouched'
    BY <1>18 DEF TaskComplete, TasksVouched, CopiesVouched, TaskTypes, history
  <2>2. CopiesVouched'
    BY <1>18 DEF TaskComplete, CopiesVouched, CopiesTyped, CopyType, Completing,
       history
  <2> QED BY <1>18, <1>f, <2>1, <2>2 DEF TaskComplete, jobs, history
<1>19. ASSUME NEW c \in Copy, CompleteJob(c) PROVE Goal'
  <2>1. copy[c].task \in Task /\ copy[c].task \in finished
    BY <1>19 DEF CompleteJob, CopiesVouched, CopiesTyped, Completing
  <2>2. JobOf[copy[c].task] \in Job
    BY <2>1, JobOfAssumption
  <2>3. NoFalseCompletion'
    BY <1>19, <2>1, <2>2 DEF CompleteJob, NoFalseCompletion, JobTypes, history
  <2>4. CopiesVouched'
    BY <1>19, <2>1 DEF CompleteJob, CopiesVouched, CopiesTyped, CopyType, history
  <2> QED BY <1>19, <1>f, <2>3, <2>4 DEF CompleteJob, tasks, history
<1>20. ASSUME NEW c \in Copy, CancelLosers(c) PROVE Goal'
  <2>1. TasksVouched'
    BY <1>20 DEF CancelLosers, CancelTasks, TasksVouched, TaskTypes, history
  <2>2. CopiesVouched'
    <3>1. PICK p \in {"storing", "failing", "finally"} :
            copy' = [copy EXCEPT ![c].pc = p, ![c].losers = {}]
      BY <1>20 DEF CancelLosers
    <3>2. copy[c].task \in finished /\ finished' = finished
      BY <1>20 DEF CancelLosers, CopiesVouched, Completing, history
    <3> QED BY <3>1, <3>2 DEF CopiesVouched, CopiesTyped, CopyType
  <2> QED BY <1>20, <1>f, <2>1, <2>2 DEF CancelLosers, jobs, history
<1>21. ASSUME NEW c \in Copy, StoreResult(c) PROVE Goal'
  <2>1. copy[c].task \in Task /\ copy[c].task \in finished
    BY <1>21 DEF StoreResult, CopiesVouched, CopiesTyped, Completing
  <2>2. NoFalseCompletion'
    BY <1>21, <2>1, JobOfAssumption
       DEF StoreResult, NoFalseCompletion, JobTypes, history
  <2>3. CopiesVouched'
    BY <1>21, <2>1 DEF StoreResult, CopiesVouched, CopiesTyped, CopyType, history
  <2> QED BY <1>21, <1>f, <2>2, <2>3 DEF StoreResult, tasks, history
<1>22. ASSUME NEW c \in Copy, FailPops(c) PROVE Goal'
  <2>1. TasksVouched'
    BY <1>22 DEF FailPops, FailTask, TasksVouched, TaskTypes, history
  <2>2. CopiesVouched'
    BY <1>22 DEF FailPops, CopiesVouched, CopiesTyped, CopyType, Completing, history
  <2> QED BY <1>22, <1>f, <2>1, <2>2 DEF FailPops, jobs, history
<1>23. ASSUME NEW c \in Copy, FailJob(c) PROVE Goal'
  <2>1. JobOf[copy[c].task] \in Job
    BY <1>23, JobOfAssumption DEF FailJob, CopiesTyped
  <2>2. NoFalseCompletion'
    BY <1>23, <1>f, <1>job, <2>1 DEF FailJob, FailJobOf, history
  <2>3. CopiesVouched'
    BY <1>23 DEF FailJob, CopiesVouched, CopiesTyped, CopyType, Completing, history
  <2> QED BY <1>23, <1>f, <2>2, <2>3 DEF FailJob, tasks, history
<1>24. ASSUME NEW c \in Copy, Finally(c) PROVE Goal'
  <2>1. CopiesVouched'
    BY <1>24 DEF Finally, IdleCopy, CopiesVouched, CopiesTyped, Completing, history
  <2> QED BY <1>24, <1>f, <2>1 DEF Finally, jobs, tasks, history
<1>25. CASE UNCHANGED vars
  BY <1>25, <1>f DEF vars
<1> QED
  BY <1>1, <1>2, <1>3, <1>4, <1>5, <1>6, <1>7, <1>8, <1>9, <1>10, <1>11, <1>12,
     <1>13, <1>14, <1>15, <1>16, <1>17, <1>18, <1>19, <1>20, <1>21, <1>22,
     <1>23, <1>24, <1>25
     DEF Next, Environment, Api, PlatformLoop, ThreadStep, CopyStep

(* A job that is COMPLETED, has a winner or has a result owes it to a task of
   its own whose function has returned, whatever the failures, for any number
   of nodes, jobs, tasks and threads. *)
THEOREM CompletionsAreReal == Spec => []NoFalseCompletion
<1>1. Init => CompletionInv
  <2> SUFFICES ASSUME Init PROVE CompletionInv
    OBVIOUS
  <2>1. NoFalseCompletion /\ TasksVouched /\ CopiesVouched
    BY DEF Init, NoFalseCompletion, TasksVouched, CopiesVouched, IdleCopy,
           Completing
  <2> QED BY <2>1, InitType DEF CompletionInv
<1>2. CompletionInv => NoFalseCompletion
  BY DEF CompletionInv
<1> QED BY <1>1, <1>2, NextCompletion, PTL DEF Spec
-----------------------------------------------------------------------------
(* No failure without a cause.  Whoever is on the way to _on_task_failed works
   for a task that ended or whose assignment failed. *)

FinishedDecided == finished \subseteq decided
CopiesDecided ==
    \A c \in Copy : copy[c].pc \in {"report", "failing", "failed"}
                    => copy[c].task \in decided
ThreadsDecided ==
    \A a \in Thread : thread[a].pc \in {"failing", "failed"}
                      => thread[a].task \in decided

FailureInv ==
    CompletionInv /\ FailureHasCause /\ FinishedDecided /\ CopiesDecided
                  /\ ThreadsDecided

LEMMA NextFailure == FailureInv /\ [Next]_vars => FailureInv'
<1> DEFINE Goal == FailureHasCause /\ FinishedDecided /\ CopiesDecided
                   /\ ThreadsDecided
<1> SUFFICES ASSUME FailureInv, [Next]_vars PROVE Goal'
  BY NextCompletion DEF FailureInv
<1> USE DEF FailureInv, CompletionInv, TypeInv
<1>f. /\ UNCHANGED <<jobState, decided>> => FailureHasCause'
      /\ UNCHANGED <<finished, decided>> => FinishedDecided'
      /\ UNCHANGED <<copy, decided>> => CopiesDecided'
      /\ UNCHANGED <<thread, decided>> => ThreadsDecided'
  BY DEF FailureHasCause, FinishedDecided, CopiesDecided, ThreadsDecided
<1>start. ASSUME NEW t \in Task, NEW place, NEW pc \in {"begin", "run"},
                 StartCopy(t, place, pc), decided \subseteq decided'
          PROVE  CopiesDecided'
  BY <1>start DEF StartCopy, CopiesDecided, CopiesTyped
<1>job. ASSUME NEW j \in Job, NEW s \in {"PENDING", "RUNNING", "COMPLETED", "CANCELLED"},
               jobState' = [jobState EXCEPT ![j] = s], UNCHANGED decided
        PROVE  FailureHasCause'
  BY <1>job DEF FailureHasCause, JobTypes
<1>fail. ASSUME NEW t \in Task, t \in decided, FailJobOf(t), UNCHANGED decided
         PROVE  FailureHasCause'
  BY <1>fail, JobOfAssumption DEF FailJobOf, FailureHasCause, JobTypes
<1>1. ASSUME NEW n \in Node, AgentCrash(n) PROVE Goal'
  <2>1. CopiesDecided'
    BY <1>1 DEF AgentCrash, CopiesDecided, CopiesTyped, IdleCopy, history
  <2> QED BY <1>1, <1>f, <2>1 DEF AgentCrash, jobs, history
<1>2. ASSUME NEW n \in Node,
             AgentRegisters(n) \/ LateHeartbeat(n) \/ PolledDead(n)
      PROVE  Goal'
  BY <1>2, <1>f DEF AgentRegisters, LateHeartbeat, PolledDead, jobs, history
<1>3. ASSUME NEW n \in Node, DeclareDead(n) PROVE Goal'
  <2>1. ThreadsDecided'
    BY <1>3 DEF DeclareDead, ThreadsDecided, ThreadsTyped, ThreadType, history
  <2> QED BY <1>3, <1>f, <2>1 DEF DeclareDead, jobs, history
<1>4. ASSUME NEW a \in Preemptor, NEW n \in Node, PreemptionWarning(a, n)
      PROVE  Goal'
  <2>1. ThreadsDecided'
    BY <1>4 DEF PreemptionWarning, ThreadsDecided, ThreadsTyped, ThreadType,
       history
  <2> QED BY <1>4, <1>f, <2>1 DEF PreemptionWarning, jobs, history
<1>5. ASSUME NEW a \in Thread, PauseTasks(a) PROVE Goal'
  <2>1. ThreadsDecided'
    BY <1>5 DEF PauseTasks, Raise, IdleThread, ThreadsDecided, ThreadsTyped,
       ThreadType, history
  <2> QED BY <1>5, <1>f, <2>1 DEF PauseTasks, jobs, history
<1>6. ASSUME NEW a \in Thread, AllPaused(a) \/ PauseTimeout(a) PROVE Goal'
  <2>1. ThreadsDecided'
    <3>1. \E ts : \/ thread' = [thread EXCEPT ![a] = IdleThread]
                  \/ thread' = [thread EXCEPT ![a] =
                                  [@ EXCEPT !.pc = "stealing", !.todo = ts]]
      BY <1>6 DEF AllPaused, PauseTimeout, FindOrphans
    <3>2. UNCHANGED decided
      BY <1>6 DEF AllPaused, PauseTimeout, FindOrphans, history
    <3>3. CASE thread' = [thread EXCEPT ![a] = IdleThread]
      BY <3>2, <3>3 DEF IdleThread, ThreadsDecided, ThreadsTyped
    <3>4. ASSUME NEW ts,
                 thread' = [thread EXCEPT ![a] =
                              [@ EXCEPT !.pc = "stealing", !.todo = ts]]
          PROVE  ThreadsDecided'
      BY <3>2, <3>4 DEF ThreadsDecided, ThreadsTyped, ThreadType
    <3> QED BY <3>1, <3>3, <3>4
  <2> QED
    BY <1>6, <1>f, <2>1 DEF AllPaused, PauseTimeout, FindOrphans, jobs, history
<1>7. ASSUME NEW a \in Thread, Steal(a) PROVE Goal'
  <2>1. \E ts \in SUBSET thread[a].todo :
          thread' = [thread EXCEPT ![a] =
                       [@ EXCEPT !.pc = "dispatching", !.node = None, !.todo = ts]]
    BY <1>7 DEF Steal
  <2>2. ThreadsDecided'
    BY <1>7, <2>1 DEF Steal, ThreadsDecided, ThreadsTyped, ThreadType, history
  <2> QED BY <1>7, <1>f, <2>2 DEF Steal, jobs, history
<1>8. ASSUME NEW a \in Thread, NextDispatch(a) PROVE Goal'
  <2>1. ThreadsDecided'
    <3>1. UNCHANGED decided
      BY <1>8 DEF NextDispatch, history
    <3>2. CASE thread' = [thread EXCEPT ![a] = IdleThread]
      BY <3>1, <3>2 DEF IdleThread, ThreadsDecided, ThreadsTyped
    <3>3. ASSUME NEW t \in thread[a].todo,
                 thread' = [thread EXCEPT ![a].todo = @ \ {t}]
          PROVE  ThreadsDecided'
      BY <3>1, <3>3 DEF ThreadsDecided, ThreadsTyped, ThreadType
    <3>4. ASSUME NEW t \in thread[a].todo,
                 thread' = [thread EXCEPT ![a].pc = "checked", ![a].task = t,
                                          ![a].todo = @ \ {t}]
          PROVE  ThreadsDecided'
      BY <3>1, <3>4 DEF ThreadsDecided, ThreadsTyped, ThreadType
    <3> QED BY <1>8, <3>2, <3>3, <3>4 DEF NextDispatch
  <2> QED BY <1>8, <1>f, <2>1 DEF NextDispatch, jobs, history
<1>9. ASSUME NEW a \in Thread, EnterRemote(a) PROVE Goal'
  <2>1. ThreadsDecided'
    BY <1>9 DEF EnterRemote, Dispatched, ThreadsDecided, ThreadsTyped,
       ThreadType, history
  <2> QED BY <1>9, <1>f, <2>1 DEF EnterRemote, jobs, history
<1>10. ASSUME NEW a \in Thread, EnterLocal(a) PROVE Goal'
  <2>1. thread[a].task \in Task
    BY <1>10 DEF EnterLocal, ThreadsTyped, Dispatching
  <2>2. ThreadsDecided'
    BY <1>10 DEF EnterLocal, Dispatched, ThreadsDecided, ThreadsTyped,
       ThreadType, history
  <2>3. CopiesDecided'
    BY <1>10, <1>f, <1>start, <2>1 DEF EnterLocal, history
  <2> QED BY <1>10, <1>f, <2>2, <2>3 DEF EnterLocal, jobs, history
<1>11. ASSUME NEW a \in Thread, AssignRpc(a) PROVE Goal'
  <2>1. thread[a].task \in Task
    BY <1>11 DEF AssignRpc, ThreadsTyped, Dispatching
  <2>2. decided \subseteq decided'
    BY <1>11 DEF AssignRpc
  <2>3. ThreadsDecided'
    BY <1>11, <2>2 DEF AssignRpc, Dispatched, ThreadsDecided, ThreadsTyped,
       ThreadType
  <2>4. CopiesDecided'
    BY <1>11, <1>start, <2>1, <2>2 DEF AssignRpc, CopiesDecided
  <2>5. FailureHasCause' /\ FinishedDecided'
    BY <1>11, <2>2 DEF AssignRpc, FailureHasCause, FinishedDecided, jobs
  <2> QED BY <2>3, <2>4, <2>5
<1>12. ASSUME NEW a \in Thread, AssignFailed(a) PROVE Goal'
  <2>1. ThreadsDecided'
    BY <1>12 DEF AssignFailed, ThreadsDecided, ThreadsTyped, ThreadType, history
  <2> QED BY <1>12, <1>f, <2>1 DEF AssignFailed, jobs, history
<1>13. ASSUME NEW a \in Thread, AssignFailedJob(a) PROVE Goal'
  <2>1. thread[a].task \in Task /\ thread[a].task \in decided
    BY <1>13 DEF AssignFailedJob, ThreadsDecided, ThreadsTyped, Dispatching
  <2>2. FailureHasCause'
    BY <1>13, <1>fail, <2>1 DEF AssignFailedJob, history
  <2>3. ThreadsDecided'
    BY <1>13 DEF AssignFailedJob, Dispatched, ThreadsDecided, ThreadsTyped,
       ThreadType, history
  <2> QED BY <1>13, <1>f, <2>2, <2>3 DEF AssignFailedJob, history
<1>14. ASSUME NEW j \in Job, Submit(j) PROVE Goal'
  <2>1. \E ts :
          thread' = [thread EXCEPT ![j].pc = "placed", ![j].todo = ts]
    BY <1>14 DEF Submit
  <2>2. ThreadsDecided'
    BY <1>14, <2>1 DEF Submit, ThreadsDecided, ThreadsTyped, ThreadType, history
  <2> QED BY <1>14, <1>f, <1>job, <2>2 DEF Submit, history
<1>15. ASSUME NEW j \in Job, SubmitRuns(j) PROVE Goal'
  <2>1. ThreadsDecided'
    BY <1>15 DEF SubmitRuns, ThreadsDecided, ThreadsTyped, ThreadType, history
  <2> QED BY <1>15, <1>f, <1>job, <2>1 DEF SubmitRuns, history
<1>16. ASSUME NEW j \in Job, CancelJob(j) \/ CancelJobEnds(j) PROVE Goal'
  BY <1>16, <1>f, <1>job DEF CancelJob, CancelJobEnds, jobs, history
<1>17. ASSUME NEW t \in Task, NEW n \in Node, Rebalance(t, n) PROVE Goal'
  <2>1. ThreadsDecided'
    BY <1>17 DEF Rebalance, Raise, IdleThread, ThreadsDecided, ThreadsTyped,
       ThreadType, history
  <2> QED BY <1>17, <1>f, <2>1 DEF Rebalance, jobs, history
<1>18. ASSUME NEW t \in Task, NEW d \in Spare, Speculate(t, d) PROVE Goal'
  <2>1. ThreadsDecided'
    BY <1>18 DEF Speculate, ThreadsDecided, ThreadsTyped, ThreadType, history
  <2> QED BY <1>18, <1>f, <2>1 DEF Speculate, jobs, history
<1>19. ASSUME NEW c \in Copy,
              LocalBegins(c) \/ CompletePops(c) \/ StoreResult(c) \/ Finally(c)
       PROVE  Goal'
  <2>1. CopiesDecided'
    BY <1>19 DEF LocalBegins, CompletePops, StoreResult, Finally, IdleCopy,
       CopiesDecided, CopiesTyped, CopyType, history
  <2> QED
    BY <1>19, <1>f, <2>1
       DEF LocalBegins, CompletePops, StoreResult, Finally, jobs, history
<1>20. ASSUME NEW c \in Copy, LocalEnds(c) PROVE Goal'
  <2>1. decided \subseteq decided'
    BY <1>20 DEF LocalEnds, history
  <2>2. CopiesDecided'
    BY <1>20, <2>1 DEF LocalEnds, CopiesDecided, CopiesTyped, CopyType
  <2>3. FailureHasCause' /\ FinishedDecided' /\ ThreadsDecided'
    BY <1>20, <2>1 DEF LocalEnds, FailureHasCause, FinishedDecided,
       ThreadsDecided, jobs, history
  <2> QED BY <2>2, <2>3
<1>21. ASSUME NEW c \in Copy, LocalReturned(c) PROVE Goal'
  <2>1. copy[c].task \in Task
    BY <1>21 DEF LocalReturned, CopiesTyped
  <2>2. CopiesDecided'
    BY <1>21, <2>1 DEF LocalReturned, AfterReturn, CopiesDecided, CopiesTyped,
       CopyType, history
  <2> QED BY <1>21, <1>f, <2>2 DEF LocalReturned, jobs, history
<1>22. ASSUME NEW c \in Copy, AgentEnds(c) PROVE Goal'
  <2>1. decided \subseteq decided'
    BY <1>22 DEF AgentEnds
  <2>2. CopiesDecided'
    BY <1>22, <2>1 DEF AgentEnds, CopiesDecided, CopiesTyped, CopyType
  <2>3. FailureHasCause' /\ FinishedDecided' /\ ThreadsDecided'
    BY <1>22, <2>1 DEF AgentEnds, FailureHasCause, FinishedDecided,
       ThreadsDecided, jobs
  <2> QED BY <2>2, <2>3
<1>23. ASSUME NEW c \in Copy, TaskComplete(c) PROVE Goal'
  <2>1. CopiesDecided'
    BY <1>23 DEF TaskComplete, CopiesDecided, CopiesTyped, CopyType, history
  <2> QED BY <1>23, <1>f, <2>1 DEF TaskComplete, jobs, history
<1>24. ASSUME NEW c \in Copy, CompleteJob(c) PROVE Goal'
  <2>1. JobOf[copy[c].task] \in Job
    BY <1>24, JobOfAssumption DEF CompleteJob, CopiesTyped
  <2>2. \E ts : copy' = [copy EXCEPT ![c].pc = "cancelling", ![c].losers = ts]
    BY <1>24 DEF CompleteJob
  <2>3. CopiesDecided'
    BY <1>24, <2>2 DEF CompleteJob, CopiesDecided, CopiesTyped, CopyType, history
  <2> QED BY <1>24, <1>f, <1>job, <2>1, <2>3 DEF CompleteJob, history
<1>25. ASSUME NEW c \in Copy, CancelLosers(c) PROVE Goal'
  <2>1. copy[c].task \in decided
    BY <1>25 DEF CancelLosers, CopiesVouched, Completing, FinishedDecided
  <2>2. PICK p \in {"storing", "failing", "finally"} :
          copy' = [copy EXCEPT ![c].pc = p, ![c].losers = {}]
    BY <1>25 DEF CancelLosers
  <2>3. CopiesDecided'
    BY <1>25, <2>1, <2>2
       DEF CancelLosers, CopiesDecided, CopiesTyped, CopyType, history
  <2> QED BY <1>25, <1>f, <2>3 DEF CancelLosers, jobs, history
<1>26. ASSUME NEW c \in Copy, FailPops(c) PROVE Goal'
  <2>1. CopiesDecided'
    BY <1>26 DEF FailPops, CopiesDecided, CopiesTyped, CopyType, history
  <2> QED BY <1>26, <1>f, <2>1 DEF FailPops, jobs, history
<1>27. ASSUME NEW c \in Copy, FailJob(c) PROVE Goal'
  <2>1. copy[c].task \in Task /\ copy[c].task \in decided
    BY <1>27 DEF FailJob, CopiesTyped, CopiesDecided
  <2>2. FailureHasCause'
    BY <1>27, <1>fail, <2>1 DEF FailJob, history
  <2>3. CopiesDecided'
    BY <1>27 DEF FailJob, CopiesDecided, CopiesTyped, CopyType, history
  <2> QED BY <1>27, <1>f, <2>2, <2>3 DEF FailJob, history
<1>28. CASE UNCHANGED vars
  BY <1>28, <1>f DEF vars
<1> QED
  BY <1>1, <1>2, <1>3, <1>4, <1>5, <1>6, <1>7, <1>8, <1>9, <1>10, <1>11, <1>12,
     <1>13, <1>14, <1>15, <1>16, <1>17, <1>18, <1>19, <1>20, <1>21, <1>22,
     <1>23, <1>24, <1>25, <1>26, <1>27, <1>28
     DEF Next, Environment, Api, PlatformLoop, ThreadStep, CopyStep

(* A FAILED job has a task of its own that ended or that no agent accepted:
   deaths, preemptions, interruptions, migrations and the cancellation of
   other replicas never fail a job. *)
THEOREM FailuresHaveCauses == Spec => []FailureHasCause
<1>1. Init => FailureInv
  <2> SUFFICES ASSUME Init PROVE FailureInv
    OBVIOUS
  <2>1. NoFalseCompletion /\ TasksVouched /\ CopiesVouched
    BY DEF Init, NoFalseCompletion, TasksVouched, CopiesVouched, IdleCopy,
           Completing
  <2>2. FailureHasCause /\ FinishedDecided /\ CopiesDecided /\ ThreadsDecided
    BY DEF Init, FailureHasCause, FinishedDecided, CopiesDecided, ThreadsDecided,
           IdleCopy, IdleThread
  <2> QED BY <2>1, <2>2, InitType DEF FailureInv, CompletionInv
<1>2. FailureInv => FailureHasCause
  BY DEF FailureInv
<1> QED BY <1>1, <1>2, NextFailure, PTL DEF Spec
-----------------------------------------------------------------------------
(* Executions and the entries that vouch for them.  Most steps move one
   execution on, which keeps its task and its place. *)

Progress(c) ==
    \/ LocalBegins(c) \/ LocalEnds(c) \/ LocalReturned(c) \/ AgentEnds(c)
    \/ TaskComplete(c) \/ CompletePops(c) \/ CompleteJob(c) \/ CancelLosers(c)
    \/ StoreResult(c) \/ FailPops(c) \/ FailJob(c)

LEMMA ProgressKeeps ==
    ASSUME TypeInv, NEW c \in Copy, Progress(c)
    PROVE  /\ copy[c].pc # "idle" /\ copy'[c].pc # "idle"
           /\ copy'[c].task = copy[c].task /\ copy'[c].place = copy[c].place
           /\ \A d \in Copy \ {c} : copy'[d] = copy[d]
<1> DEFINE Goal == /\ copy[c].pc # "idle" /\ copy'[c].pc # "idle"
                   /\ copy'[c].task = copy[c].task /\ copy'[c].place = copy[c].place
                   /\ \A d \in Copy \ {c} : copy'[d] = copy[d]
<1> USE DEF TypeInv, CopiesTyped, CopyType
<1>1. CASE LocalBegins(c)
  BY <1>1 DEF LocalBegins
<1>2. CASE LocalEnds(c)
  BY <1>2 DEF LocalEnds, Runs
<1>3. CASE LocalReturned(c)
  <2>1. AfterReturn(copy[c].task) # "idle"
    BY DEF AfterReturn
  <2> QED
    BY <1>3, <2>1 DEF LocalReturned
<1>4. CASE AgentEnds(c)
  BY <1>4 DEF AgentEnds, Runs
<1>5. CASE TaskComplete(c)
  BY <1>5 DEF TaskComplete
<1>6. CASE CompletePops(c) \/ StoreResult(c)
  BY <1>6 DEF CompletePops, StoreResult
<1>7. CASE CompleteJob(c)
  <2>1. PICK ts : copy' = [copy EXCEPT ![c].pc = "cancelling", ![c].losers = ts]
    BY <1>7 DEF CompleteJob
  <2> QED
    BY <1>7, <2>1 DEF CompleteJob
<1>8. CASE CancelLosers(c)
  <2>1. PICK p \in {"storing", "failing", "finally"} :
          copy' = [copy EXCEPT ![c].pc = p, ![c].losers = {}]
    BY <1>8 DEF CancelLosers
  <2> QED
    BY <1>8, <2>1 DEF CancelLosers
<1>9. CASE FailPops(c) \/ FailJob(c)
  BY <1>9 DEF FailPops, FailJob
<1> QED
  BY <1>1, <1>2, <1>3, <1>4, <1>5, <1>6, <1>7, <1>8, <1>9 DEF Progress

(* A crash ends an execution, or leaves its report with the driver. *)
LEMMA CrashKeeps ==
    ASSUME TypeInv, NEW n \in Node, AgentCrash(n), NEW c \in Copy
    PROVE  /\ copy[c].place # n => copy'[c] = copy[c]
           /\ copy[c].place = n =>
                \/ copy'[c] = IdleCopy
                \/ /\ copy[c].pc \notin {"run", "report", "finally"} /\ copy'[c].place = Gone
                   /\ copy'[c].pc = copy[c].pc /\ copy'[c].task = copy[c].task
BY DEF AgentCrash, TypeInv, CopiesTyped, CopyType

(* An execution begins where none was. *)
LEMMA StartKeeps ==
    ASSUME TypeInv, NEW t \in Task, NEW place \in Agent \cup {Driver},
           NEW pc \in {"begin", "run"}, StartCopy(t, place, pc)
    PROVE  \E c \in Copy :
              /\ copy[c] = IdleCopy /\ copy'[c].pc = pc /\ copy'[c].task = t
              /\ copy'[c].place = place
              /\ \A d \in Copy \ {c} : copy'[d] = copy[d]
BY DEF StartCopy, TypeInv, CopiesTyped

LEMMA FinallyKeeps ==
    ASSUME TypeInv, NEW c \in Copy, Finally(c)
    PROVE  /\ copy[c].pc = "finally" /\ copy[c].task \in Task
           /\ copy'[c] = IdleCopy /\ \A d \in Copy \ {c} : copy'[d] = copy[d]
           /\ copy[c].place = Driver => running' = [running EXCEPT ![copy[c].task] = "no"]
           /\ copy[c].place # Driver => running' = running
           /\ agentRunning' = agentRunning \ {<<copy[c].place, copy[c].task>>}
BY DEF Finally, Leave, TypeInv, CopiesTyped

(* Nobody else touches an execution. *)
Unrelated ==
    \/ \E n \in Node : \/ AgentRegisters(n) \/ LateHeartbeat(n) \/ PolledDead(n) \/ DeclareDead(n)
                       \/ \E a \in Preemptor : PreemptionWarning(a, n)
    \/ Api \/ PlatformLoop
    \/ \E a \in Thread :
         \/ PauseTasks(a) \/ AllPaused(a) \/ PauseTimeout(a) \/ Steal(a) \/ NextDispatch(a)
         \/ EnterRemote(a) \/ AssignFailed(a) \/ AssignFailedJob(a)
         \/ a \in Job /\ SubmitRuns(a)

LEMMA UnrelatedKeeps == Unrelated \/ UNCHANGED vars => UNCHANGED copy
BY DEF Unrelated, Api, PlatformLoop, AgentRegisters, LateHeartbeat, PolledDead, DeclareDead,
       PreemptionWarning, PauseTasks, AllPaused, PauseTimeout, FindOrphans, Steal, NextDispatch,
       EnterRemote, AssignFailed, AssignFailedJob, SubmitRuns, Submit, CancelJob, CancelJobEnds,
       Rebalance, Speculate, vars

LEMMA StepKinds ==
    ASSUME [Next]_vars
    PROVE  \/ Unrelated \/ UNCHANGED vars
           \/ \E n \in Node : AgentCrash(n)
           \/ \E a \in Thread : EnterLocal(a) \/ AssignRpc(a)
           \/ \E c \in Copy : Progress(c) \/ Finally(c)
BY DEF Next, Environment, ThreadStep, CopyStep, Unrelated, Progress
-----------------------------------------------------------------------------
(* Entries have an execution behind them *)

BackedInv == TypeInv /\ EntriesBacked

(* Entries that only disappear, while executions keep task and place. *)
LEMMA BackedKept ==
    ASSUME EntriesBacked, \A t \in Task : running'[t] = "local" => running[t] = "local",
           agentRunning' \subseteq agentRunning,
           \A c \in Copy : copy'[c].task = copy[c].task /\ copy'[c].place = copy[c].place
    PROVE  EntriesBacked'
BY DEF EntriesBacked

LEMMA NextBacked == BackedInv /\ [Next]_vars => BackedInv'
<1> SUFFICES ASSUME BackedInv, [Next]_vars PROVE EntriesBacked'
  BY NextType DEF BackedInv
<1>t. TypeInv
  BY DEF BackedInv
<1>r. running \in [Task -> {"no", "local", "remote"}]
  BY <1>t DEF TypeInv, EntryTypes
<1>1. CASE Unrelated \/ UNCHANGED vars
  <2>1. UNCHANGED copy
    BY <1>1, UnrelatedKeeps
  <2>2. \A t \in Task : running'[t] = "local" => running[t] = "local"
    BY <1>1, <1>r DEF Unrelated, Api, PlatformLoop, AgentRegisters, LateHeartbeat, PolledDead,
         DeclareDead, PreemptionWarning, PauseTasks, AllPaused, PauseTimeout, FindOrphans, Steal,
         NextDispatch, EnterRemote, AssignFailed, FailTask, PopEntry, AssignFailedJob, SubmitRuns,
         Submit, CancelJob, CancelJobEnds, Rebalance, Speculate, vars
  <2>3. agentRunning' \subseteq agentRunning
    BY <1>1 DEF Unrelated, Api, PlatformLoop, AgentRegisters, LateHeartbeat, PolledDead,
         DeclareDead, PreemptionWarning, PauseTasks, AllPaused, PauseTimeout, FindOrphans, Steal,
         NextDispatch, EnterRemote, AssignFailed, AssignFailedJob, SubmitRuns,
         Submit, CancelJob, CancelTasks, CancelJobEnds, Rebalance, Speculate, vars
  <2> QED
    BY <2>1, <2>2, <2>3, BackedKept DEF BackedInv
<1>2. ASSUME NEW n \in Node, AgentCrash(n) PROVE EntriesBacked'
  <2>1. \A c \in Copy : copy[c].place # n => copy'[c] = copy[c]
    BY <1>2, <1>t, CrashKeeps
  <2>2. running' = running /\ agentRunning' = {r \in agentRunning : r[1] # n} /\ Driver # n
    BY <1>2, NodeAssumption DEF AgentCrash, Driver
  <2> QED
    BY <2>1, <2>2 DEF BackedInv, EntriesBacked
<1>3. ASSUME NEW a \in Thread, EnterLocal(a) PROVE EntriesBacked'
  <2>1. thread[a].task \in Task /\ agentRunning' = agentRunning
    BY <1>3, <1>t DEF EnterLocal, TypeInv, ThreadsTyped, Dispatching
  <2>2. CASE Entered(thread[a].task)
    BY <1>3, <2>2 DEF EnterLocal, BackedInv, EntriesBacked
  <2>3. CASE ~Entered(thread[a].task)
    <3>1. /\ running' = [running EXCEPT ![thread[a].task] = "local"]
          /\ StartCopy(thread[a].task, Driver, "begin")
      BY <1>3, <2>3 DEF EnterLocal
    <3>2. PICK c \in Copy : /\ copy[c] = IdleCopy /\ copy'[c].task = thread[a].task
                            /\ copy'[c].place = Driver
                            /\ \A d \in Copy \ {c} : copy'[d] = copy[d]
      BY <1>t, <2>1, <3>1, StartKeeps
    <3>3. \A t \in Task : t # copy[c].task
      BY <3>2, NoneAssumption DEF IdleCopy
    <3> QED
      BY <1>r, <1>t, <2>1, <3>1, <3>2, <3>3
         DEF BackedInv, EntriesBacked, TypeInv, ClusterTypes
  <2> QED
    BY <2>2, <2>3
<1>4. ASSUME NEW a \in Thread, AssignRpc(a) PROVE EntriesBacked'
  <2>1. thread[a].task \in Task /\ running' = running
    BY <1>4, <1>t DEF AssignRpc, TypeInv, ThreadsTyped, Dispatching
  <2>2. CASE UNCHANGED <<agentRunning, copy>>
    BY <2>1, <2>2 DEF BackedInv, EntriesBacked
  <2>3. CASE /\ thread[a].node \in up
             /\ agentRunning' = agentRunning \cup {<<thread[a].node, thread[a].task>>}
             /\ StartCopy(thread[a].task, thread[a].node, "run")
    <3>1. thread[a].node \in Agent
      BY <1>t, <2>3 DEF TypeInv, ClusterTypes
    <3>2. PICK c \in Copy : /\ copy[c] = IdleCopy /\ copy'[c].task = thread[a].task
                            /\ copy'[c].place = thread[a].node
                            /\ \A d \in Copy \ {c} : copy'[d] = copy[d]
      BY <1>t, <2>1, <2>3, <3>1, StartKeeps
    <3>3. \A t \in Task : t # copy[c].task
      BY <3>2, NoneAssumption DEF IdleCopy
    <3> QED
      BY <1>t, <2>1, <2>3, <3>2, <3>3 DEF BackedInv, EntriesBacked, TypeInv, ClusterTypes
  <2> QED
    BY <1>4, <2>2, <2>3 DEF AssignRpc
<1>5. ASSUME NEW c \in Copy, Progress(c) PROVE EntriesBacked'
  <2>1. \A d \in Copy : copy'[d].task = copy[d].task /\ copy'[d].place = copy[d].place
    BY <1>5, <1>t, ProgressKeeps
  <2>2. /\ \A t \in Task : running'[t] = "local" => running[t] = "local"
        /\ agentRunning' \subseteq agentRunning
    BY <1>5, <1>r DEF Progress, LocalBegins, LocalEnds, LocalReturned, AgentEnds, TaskComplete,
         CompletePops, PopEntry, CompleteJob, CancelLosers, CancelTasks, StoreResult, FailPops,
         FailTask, FailJob
  <2> QED
    BY <2>1, <2>2, BackedKept DEF BackedInv
<1>6. ASSUME NEW c \in Copy, Finally(c) PROVE EntriesBacked'
  BY <1>6, <1>r, <1>t, FinallyKeeps DEF BackedInv, EntriesBacked, TypeInv, ClusterTypes
<1> QED
  BY <1>1, <1>2, <1>3, <1>4, <1>5, <1>6, StepKinds

(* A local entry of _running, or an entry of an agent, has an execution behind
   it that will remove it. *)
THEOREM EntriesHaveExecutions == Spec => []EntriesBacked
<1>1. Init => BackedInv
  BY InitType DEF Init, BackedInv, EntriesBacked
<1>2. BackedInv => EntriesBacked
  BY DEF BackedInv
<1> QED
  BY <1>1, <1>2, NextBacked, PTL DEF Spec
-----------------------------------------------------------------------------
(* Events: only executions in the driver register one, and they begin there *)

EventsLocal ==
    \A t \in Task : interruptOf[t] # None => copy[interruptOf[t]].place = Driver
BeginsHere == \A c \in Copy : copy[c].pc = "begin" => copy[c].place = Driver

EventInv == TypeInv /\ EventsBelong /\ EventsLocal /\ BeginsHere

(* Whoever sets events sets some that are registered, and nobody stops running. *)
LEMMA EventsKept ==
    ASSUME EventInv, interruptOf' = interruptOf,
           \A c \in interrupted' \ interrupted : \E t \in Task : c = interruptOf[t] /\ c # None,
           \A c \in Copy : copy[c].pc = "run" /\ copy[c].place = Driver => copy'[c] = copy[c],
           \A c \in Copy : copy'[c].pc = "begin" => copy'[c].place = Driver
    PROVE  EventsBelong' /\ EventsLocal' /\ BeginsHere'
<1>1. \A t \in Task : interruptOf[t] # None =>
         /\ interruptOf[t] \in Copy /\ copy[interruptOf[t]].pc = "run"
         /\ copy[interruptOf[t]].place = Driver
  BY DEF EventInv, EventsBelong, EventsLocal, Runs, TypeInv, EventTypes
<1>2. \A c \in interrupted : c \in Copy /\ copy[c].pc = "run" /\ copy[c].place = Driver
  BY DEF EventInv, EventsBelong, Runs, TypeInv, EventTypes
<1>3. \A c \in interrupted' : c \in Copy /\ copy[c].pc = "run" /\ copy[c].place = Driver
  BY <1>1, <1>2
<1> QED
  BY <1>1, <1>3 DEF EventInv, EventsBelong, EventsLocal, BeginsHere, Runs

LEMMA SetByCancel ==
    ASSUME TypeInv, NEW ts \in SUBSET Task, CancelTasks(ts)
    PROVE  \A c \in interrupted' \ interrupted : \E t \in Task : c = interruptOf[t] /\ c # None
BY DEF CancelTasks, Events

LEMMA SetByOthers ==
    ASSUME TypeInv, Unrelated \/ UNCHANGED vars
    PROVE  /\ interruptOf' = interruptOf
           /\ \A c \in interrupted' \ interrupted : \E t \in Task : c = interruptOf[t] /\ c # None
<1>1. interruptOf' = interruptOf
  BY DEF Unrelated, Api, PlatformLoop, AgentRegisters, LateHeartbeat, PolledDead,
         DeclareDead, PreemptionWarning, PauseTasks, AllPaused, PauseTimeout, FindOrphans, Steal,
         NextDispatch, EnterRemote, AssignFailed, AssignFailedJob, SubmitRuns,
         Submit, CancelJob, CancelJobEnds, Rebalance, Speculate, vars, events
<1>2. ASSUME NEW a \in Thread, PauseTasks(a)
      PROVE  \A c \in interrupted' \ interrupted : \E t \in Task : c = interruptOf[t] /\ c # None
  BY <1>2 DEF PauseTasks, Events
<1>3. ASSUME NEW j \in Job, CancelJob(j)
      PROVE  \A c \in interrupted' \ interrupted : \E t \in Task : c = interruptOf[t] /\ c # None
  <2>1. TasksOf(j) \subseteq Task
    BY DEF TasksOf
  <2>2. PICK ts \in SUBSET Task : CancelTasks(ts)
    BY <1>3, <2>1 DEF CancelJob
  <2> QED
    BY <2>2, SetByCancel
<1>4. ASSUME NEW t \in Task, NEW n \in Node, Rebalance(t, n)
      PROVE  \A c \in interrupted' \ interrupted : \E u \in Task : c = interruptOf[u] /\ c # None
  BY <1>4 DEF Rebalance, Events
<1>5. \/ interrupted' = interrupted
      \/ \E a \in Thread : PauseTasks(a)
      \/ \E j \in Job : CancelJob(j)
      \/ \E t \in Task, n \in Node : Rebalance(t, n)
  BY DEF Unrelated, Api, PlatformLoop, AgentRegisters, LateHeartbeat, PolledDead,
         DeclareDead, PreemptionWarning, AllPaused, PauseTimeout, FindOrphans, Steal,
         NextDispatch, EnterRemote, AssignFailed, AssignFailedJob, SubmitRuns,
         Submit, CancelJobEnds, Speculate, vars, events
<1> QED
  BY <1>1, <1>2, <1>3, <1>4, <1>5

LEMMA NextEvents == EventInv /\ [Next]_vars => EventInv'
<1> SUFFICES ASSUME EventInv, [Next]_vars PROVE EventsBelong' /\ EventsLocal' /\ BeginsHere'
  BY NextType DEF EventInv
<1>t. /\ TypeInv /\ interruptOf \in [Task -> Copy \cup {None}] /\ interrupted \subseteq Copy
      /\ \A c \in Copy : copy[c].pc = "begin" => copy[c].place = Driver
  BY DEF EventInv, TypeInv, EventTypes, BeginsHere
<1>1. CASE Unrelated \/ UNCHANGED vars
  <2>1. UNCHANGED copy
    BY <1>1, UnrelatedKeeps
  <2> QED
    BY <1>1, <1>t, <2>1, SetByOthers, EventsKept
<1>2. ASSUME NEW n \in Node, AgentCrash(n)
      PROVE  EventsBelong' /\ EventsLocal' /\ BeginsHere'
  <2>1. /\ \A c \in Copy : copy[c].place # n => copy'[c] = copy[c]
        /\ \A c \in Copy : copy[c].place = n => copy'[c] = IdleCopy \/ copy'[c].pc = copy[c].pc
    BY <1>2, <1>t, CrashKeeps
  <2>2. UNCHANGED <<interruptOf, interrupted>> /\ Driver # n
    BY <1>2, NodeAssumption DEF AgentCrash, events, Driver
  <2>3. \A c \in Copy : copy'[c].pc = "begin" => copy'[c].place = Driver
    BY <1>t, <2>1, <2>2 DEF IdleCopy
  <2> QED
    BY <2>1, <2>2, <2>3, EventsKept
<1>3. ASSUME NEW a \in Thread, EnterLocal(a) \/ AssignRpc(a)
      PROVE  EventsBelong' /\ EventsLocal' /\ BeginsHere'
  <2>1. thread[a].task \in Task /\ UNCHANGED <<interruptOf, interrupted>>
    BY <1>3, <1>t DEF EnterLocal, AssignRpc, TypeInv, ThreadsTyped, Dispatching, events
  <2>2. CASE UNCHANGED copy
    BY <1>t, <2>1, <2>2, EventsKept
  <2>3. ASSUME NEW place \in Agent \cup {Driver}, NEW pc \in {"begin", "run"},
               StartCopy(thread[a].task, place, pc), pc = "begin" => place = Driver
        PROVE  EventsBelong' /\ EventsLocal' /\ BeginsHere'
    <3>1. PICK c \in Copy : /\ copy[c] = IdleCopy /\ copy'[c].pc = pc
                            /\ copy'[c].place = place
                            /\ \A d \in Copy \ {c} : copy'[d] = copy[d]
      BY <1>t, <2>1, <2>3, StartKeeps
    <3>2. copy[c].pc = "idle"
      BY <3>1 DEF IdleCopy
    <3> QED
      BY <1>t, <2>1, <2>3, <3>1, <3>2, EventsKept
  <2>4. ASSUME NEW n \in up, StartCopy(thread[a].task, n, "run")
        PROVE  EventsBelong' /\ EventsLocal' /\ BeginsHere'
    <3>1. n \in Agent
      BY <1>t DEF TypeInv, ClusterTypes
    <3> QED
      BY <2>3, <2>4, <3>1
  <2> QED
    BY <1>3, <2>2, <2>3, <2>4 DEF EnterLocal, AssignRpc
<1>4. ASSUME NEW c \in Copy, LocalBegins(c)
      PROVE  EventsBelong' /\ EventsLocal' /\ BeginsHere'
  <2>1. /\ copy[c].task \in Task /\ copy'[c].task = copy[c].task
        /\ copy'[c].pc = "run" /\ copy'[c].place = Driver
        /\ \A d \in Copy \ {c} : copy'[d] = copy[d]
    BY <1>4, <1>t DEF LocalBegins, TypeInv, CopiesTyped, CopyType
  <2>2. copy[c].pc = "begin"
    BY <1>4 DEF LocalBegins
  <2>3. /\ interruptOf' = [interruptOf EXCEPT ![copy[c].task] = c]
        /\ interrupted' \subseteq interrupted
    BY <1>4 DEF LocalBegins
  <2> QED
    BY <1>t, <2>1, <2>2, <2>3, NoneAssumption
       DEF EventInv, EventsBelong, EventsLocal, BeginsHere, Runs
<1>5. ASSUME NEW c \in Copy, LocalEnds(c)
      PROVE  EventsBelong' /\ EventsLocal' /\ BeginsHere'
  <2>1. /\ copy[c].task \in Task /\ copy'[c].pc # "begin"
        /\ \A d \in Copy \ {c} : copy'[d] = copy[d]
    BY <1>5, <1>t DEF LocalEnds, Runs, TypeInv, CopiesTyped, CopyType
  <2>2. /\ interruptOf' = [interruptOf EXCEPT ![copy[c].task] = None]
        /\ interrupted' = interrupted \ {c}
    BY <1>5 DEF LocalEnds, Deregister
  <2> QED
    BY <1>t, <2>1, <2>2 DEF EventInv, EventsBelong, EventsLocal, BeginsHere, Runs
<1>6. ASSUME NEW c \in Copy, Progress(c), ~LocalBegins(c), ~LocalEnds(c)
      PROVE  EventsBelong' /\ EventsLocal' /\ BeginsHere'
  <2>1. /\ ~(copy[c].pc = "run" /\ copy[c].place = Driver) /\ copy'[c].pc # "begin"
    <3>1. copy \in [Copy -> CopyType]
      BY <1>t DEF TypeInv, CopiesTyped
    <3>2. CASE LocalReturned(c) \/ TaskComplete(c)
      BY <3>1, <3>2 DEF LocalReturned, AfterReturn, TaskComplete, CopyType
    <3>3. CASE AgentEnds(c)
      BY <3>1, <3>3, NodeAssumption DEF AgentEnds, CopyType, Driver
    <3>4. CASE CompletePops(c) \/ StoreResult(c) \/ FailPops(c) \/ FailJob(c)
      BY <3>1, <3>4 DEF CompletePops, StoreResult, FailPops, FailJob, CopyType
    <3>5. CASE CompleteJob(c)
      BY <3>1, <3>5 DEF CompleteJob, CopyType
    <3>6. CASE CancelLosers(c)
      BY <3>1, <3>6 DEF CancelLosers, CopyType
    <3> QED
      BY <1>6, <3>2, <3>3, <3>4, <3>5, <3>6 DEF Progress
  <2>2. \A d \in Copy \ {c} : copy'[d] = copy[d]
    BY <1>6, <1>t, ProgressKeeps
  <2>3. interruptOf' = interruptOf
    BY <1>6 DEF Progress, LocalReturned, AgentEnds, TaskComplete, CompletePops, CompleteJob,
                CancelLosers, StoreResult, FailPops, FailJob, events
  <2>4. CASE CancelLosers(c)
    <3>1. copy[c].losers \subseteq Task
      BY <1>t DEF TypeInv, CopiesTyped, CopyType
    <3>2. PICK ts \in SUBSET Task : CancelTasks(ts)
      BY <2>4, <3>1 DEF CancelLosers
    <3> QED
      BY <1>t, <2>1, <2>2, <2>3, <3>2, SetByCancel, EventsKept
  <2>5. CASE ~CancelLosers(c)
    <3>1. interrupted' = interrupted
      BY <1>6, <2>5 DEF Progress, LocalReturned, AgentEnds, TaskComplete, CompletePops,
                        CompleteJob, StoreResult, FailPops, FailJob, events
    <3> QED
      BY <1>t, <2>1, <2>2, <2>3, <3>1, EventsKept
  <2> QED
    BY <2>4, <2>5
<1>7. ASSUME NEW c \in Copy, Finally(c)
      PROVE  EventsBelong' /\ EventsLocal' /\ BeginsHere'
  <2>1. /\ copy[c].pc = "finally" /\ copy'[c].pc = "idle"
        /\ \A d \in Copy \ {c} : copy'[d] = copy[d]
    BY <1>7, <1>t, FinallyKeeps DEF IdleCopy
  <2>2. UNCHANGED <<interruptOf, interrupted>>
    BY <1>7 DEF Finally, events
  <2> QED
    BY <1>t, <2>1, <2>2, EventsKept
<1> QED
  BY <1>1, <1>2, <1>3, <1>4, <1>5, <1>6, <1>7, StepKinds

(* A registered event belongs to an execution of that task in the driver, and
   nothing else is ever told to stop. *)
THEOREM EventsReachTheirTask == Spec => []EventsBelong
<1>1. Init => EventInv
  BY InitType DEF Init, EventInv, EventsBelong, EventsLocal, BeginsHere, IdleCopy
<1>2. EventInv => EventsBelong
  BY DEF EventInv
<1> QED
  BY <1>1, <1>2, NextEvents, PTL DEF Spec
-----------------------------------------------------------------------------
(* One executor.  For a task that has not ended, executions from their start to
   their end and threads whose AssignTask is under way exclude each other, and
   keep the task in _running. *)

Holds(c, t) == copy[c].pc # "idle" /\ copy[c].task = t
Assigns(a, t) == thread[a].pc = "assigning" /\ thread[a].task = t

Serial ==
    \A t \in Task \ decided :
        /\ \A c, d \in Copy : Holds(c, t) /\ Holds(d, t) => c = d
        /\ \A a, b \in Thread : Assigns(a, t) /\ Assigns(b, t) => a = b
        /\ \A a \in Thread, c \in Copy : ~(Assigns(a, t) /\ Holds(c, t))
        /\ (\E c \in Copy : Holds(c, t)) \/ (\E a \in Thread : Assigns(a, t))
             => running[t] # "no"

SerialInv == FailureInv /\ Serial

(* Nobody begins, and an entry of an undecided task stays. *)
LEMMA SerialKept ==
    ASSUME Serial, decided \subseteq decided',
           \A c \in Copy, t \in Task : Holds(c, t)' => Holds(c, t),
           \A a \in Thread, t \in Task : Assigns(a, t)' => Assigns(a, t),
           \A t \in Task \ decided : running[t] # "no" => running'[t] # "no"
    PROVE  Serial'
BY DEF Serial

(* Only EnterRemote leads to the call of an agent. *)
AssigningKept == \A a \in Thread, t \in Task : Assigns(a, t)' => Assigns(a, t)

LEMMA AssigningOnlyEntered ==
    ASSUME TypeInv, [Next]_vars, \A a \in Thread : ~EnterRemote(a)
    PROVE  AssigningKept
<1> USE DEF AssigningKept, Assigns, TypeInv, ThreadsTyped, ThreadType
<1>1. CASE UNCHANGED thread
  BY <1>1
<1>2. ASSUME NEW n \in Node, DeclareDead(n) \/ \E a \in Preemptor : PreemptionWarning(a, n)
      PROVE  AssigningKept
  BY <1>2 DEF DeclareDead, PreemptionWarning
<1>3. ASSUME NEW a \in Thread, PauseTasks(a) PROVE AssigningKept
  BY <1>3 DEF PauseTasks, Raise, IdleThread
<1>4. ASSUME NEW a \in Thread, FindOrphans(a) PROVE AssigningKept
  <2>1. \E ts : \/ thread' = [thread EXCEPT ![a] = IdleThread]
                \/ thread' = [thread EXCEPT ![a] =
                                [@ EXCEPT !.pc = "stealing", !.todo = ts]]
    BY <1>4 DEF FindOrphans
  <2>2. CASE thread' = [thread EXCEPT ![a] = IdleThread]
    BY <2>2 DEF IdleThread
  <2>3. ASSUME NEW ts,
               thread' = [thread EXCEPT ![a] = [@ EXCEPT !.pc = "stealing", !.todo = ts]]
        PROVE  AssigningKept
    BY <2>3
  <2> QED
    BY <2>1, <2>2, <2>3
<1>5. ASSUME NEW a \in Thread, Steal(a) PROVE AssigningKept
  <2>1. \E ts : thread' = [thread EXCEPT ![a] =
                  [@ EXCEPT !.pc = "dispatching", !.node = None, !.todo = ts]]
    BY <1>5 DEF Steal
  <2> QED
    BY <2>1
<1>6. ASSUME NEW a \in Thread, NextDispatch(a) PROVE AssigningKept
  <2>1. CASE thread' = [thread EXCEPT ![a] = IdleThread]
    BY <2>1 DEF IdleThread
  <2>2. CASE \E t : thread' = [thread EXCEPT ![a].todo = @ \ {t}]
    BY <1>6, <2>2 DEF NextDispatch
  <2>3. CASE \E t : thread' = [thread EXCEPT ![a].pc = "checked", ![a].task = t,
                                             ![a].todo = @ \ {t}]
    BY <2>3
  <2> QED
    BY <1>6, <2>1, <2>2, <2>3 DEF NextDispatch
<1>7. ASSUME NEW a \in Thread, EnterLocal(a) \/ AssignFailed(a) \/ AssignFailedJob(a)
      PROVE  AssigningKept
  BY <1>7 DEF EnterLocal, AssignFailed, AssignFailedJob, Dispatched
<1>8. ASSUME NEW a \in Thread, AssignRpc(a) PROVE AssigningKept
  BY <1>8 DEF AssignRpc, Dispatched
<1>9. ASSUME NEW j \in Job, Submit(j) \/ SubmitRuns(j) PROVE AssigningKept
  <2>1. \/ \E ts : thread' = [thread EXCEPT ![j].pc = "placed", ![j].todo = ts]
        \/ thread' = [thread EXCEPT ![j].pc = "dispatching"]
    BY <1>9 DEF Submit, SubmitRuns
  <2> QED
    BY <2>1
<1>10. ASSUME NEW t \in Task, \E n \in Node : Rebalance(t, n) PROVE AssigningKept
  BY <1>10 DEF Rebalance, Raise, IdleThread
<1>11. ASSUME NEW t \in Task, \E d \in Spare : Speculate(t, d) PROVE AssigningKept
  BY <1>11 DEF Speculate
<1>12. \/ UNCHANGED thread
       \/ \E n \in Node : DeclareDead(n) \/ \E a \in Preemptor : PreemptionWarning(a, n)
       \/ \E a \in Thread :
            \/ PauseTasks(a) \/ FindOrphans(a) \/ Steal(a) \/ NextDispatch(a)
            \/ EnterLocal(a) \/ AssignFailed(a) \/ AssignFailedJob(a) \/ AssignRpc(a)
       \/ \E j \in Job : Submit(j) \/ SubmitRuns(j)
       \/ \E t \in Task : (\E n \in Node : Rebalance(t, n)) \/ (\E d \in Spare : Speculate(t, d))
  <2>1. CASE Unrelated \/ UNCHANGED vars
    BY <2>1 DEF Unrelated, Api, PlatformLoop, AgentRegisters, LateHeartbeat, PolledDead,
                AllPaused, PauseTimeout, CancelJob, CancelJobEnds, vars
  <2>2. ASSUME NEW n \in Node, AgentCrash(n) PROVE UNCHANGED thread
    BY <2>2 DEF AgentCrash
  <2>3. ASSUME NEW c \in Copy, Progress(c) \/ Finally(c) PROVE UNCHANGED thread
    BY <2>3 DEF Progress, LocalBegins, LocalEnds, LocalReturned, AgentEnds, TaskComplete,
                CompletePops, CompleteJob, CancelLosers, StoreResult, FailPops, FailJob, Finally
  <2> QED
    BY <2>1, <2>2, <2>3, StepKinds
<1> QED
  BY <1>1, <1>2, <1>3, <1>4, <1>5, <1>6, <1>7, <1>8, <1>9, <1>10, <1>11, <1>12

(* Whoever pops an entry works for a decided task, or ends the execution. *)
LEMMA PoppedDecided ==
    ASSUME FailureInv, Unrelated \/ UNCHANGED vars \/ \E c \in Copy : Progress(c)
    PROVE  /\ decided \subseteq decided'
           /\ \A t \in Task \ decided : running[t] # "no" => running'[t] # "no"
<1>t. TypeInv /\ running \in [Task -> {"no", "local", "remote"}]
  BY DEF FailureInv, CompletionInv, TypeInv, EntryTypes
<1>1. CASE Unrelated \/ UNCHANGED vars
  <2>1. decided' = decided
    BY <1>1 DEF Unrelated, Api, PlatformLoop, AgentRegisters, LateHeartbeat, PolledDead,
         DeclareDead, PreemptionWarning, PauseTasks, AllPaused, PauseTimeout, FindOrphans, Steal,
         NextDispatch, EnterRemote, AssignFailed, AssignFailedJob, SubmitRuns,
         Submit, CancelJob, CancelJobEnds, Rebalance, Speculate, vars, history
  <2>2. ASSUME NEW a \in Thread, AssignFailed(a) \/ AssignFailedJob(a)
        PROVE  \A t \in Task \ decided : running'[t] = running[t]
    <3>1. thread[a].task \in decided /\ thread[a].task \in Task
      BY <1>t, <2>2 DEF AssignFailed, AssignFailedJob, FailureInv, ThreadsDecided, TypeInv,
                        ThreadsTyped, Dispatching
    <3>2. running' = [running EXCEPT ![thread[a].task] = "no"]
      BY <2>2 DEF AssignFailed, FailTask, PopEntry, AssignFailedJob
    <3> QED
      BY <1>t, <3>1, <3>2
  <2>3. ASSUME NEW a \in Thread, EnterRemote(a)
        PROVE  \A t \in Task : running[t] # "no" => running'[t] # "no"
    BY <1>t, <2>3 DEF EnterRemote, Entered
  <2>4. \/ running' = running
        \/ \E a \in Thread : AssignFailed(a) \/ AssignFailedJob(a) \/ EnterRemote(a)
    BY <1>1 DEF Unrelated, Api, PlatformLoop, AgentRegisters, LateHeartbeat, PolledDead,
         DeclareDead, PreemptionWarning, PauseTasks, AllPaused, PauseTimeout, FindOrphans, Steal,
         NextDispatch, SubmitRuns, Submit, CancelJob, CancelJobEnds, Rebalance, Speculate, vars
  <2> QED
    BY <2>1, <2>2, <2>3, <2>4
<1>2. ASSUME NEW c \in Copy, Progress(c)
      PROVE  /\ decided \subseteq decided'
             /\ \A t \in Task \ decided : running'[t] = running[t]
  <2>1. decided \subseteq decided'
    BY <1>2 DEF Progress, LocalBegins, LocalEnds, LocalReturned, AgentEnds, TaskComplete,
         CompletePops, CompleteJob, CancelLosers, StoreResult, FailPops, FailJob, history
  <2>2. CASE CompletePops(c) \/ FailPops(c)
    <3>1. copy[c].task \in decided
      BY <2>2 DEF CompletePops, FailPops, FailureInv, CompletionInv, CopiesVouched, Completing,
                  FinishedDecided, CopiesDecided
    <3>2. running' = [running EXCEPT ![copy[c].task] = "no"]
      BY <2>2 DEF CompletePops, FailPops, FailTask, PopEntry
    <3> QED
      BY <1>t, <2>1, <3>1, <3>2
  <2>3. CASE ~(CompletePops(c) \/ FailPops(c))
    BY <1>2, <2>1, <2>3
       DEF Progress, LocalBegins, LocalEnds, LocalReturned, AgentEnds, TaskComplete,
           CompleteJob, CancelLosers, StoreResult, FailJob
  <2> QED
    BY <2>2, <2>3
<1> QED
  BY <1>1, <1>2

LEMMA NextSerial == SerialInv /\ [Next]_vars => SerialInv'
<1> SUFFICES ASSUME SerialInv, [Next]_vars PROVE Serial'
  BY NextFailure DEF SerialInv
<1>t. /\ TypeInv /\ FailureInv /\ Serial
      /\ running \in [Task -> {"no", "local", "remote"}]
  BY DEF SerialInv, FailureInv, CompletionInv, TypeInv, EntryTypes
<1>1. ASSUME NEW a \in Thread, EnterRemote(a) PROVE Serial'
  <2> DEFINE t == thread[a].task
  <2>1. t \in Task /\ decided' = decided
    BY <1>1, <1>t DEF EnterRemote, TypeInv, ThreadsTyped, Dispatching, history
  <2>2. \A c \in Copy, u \in Task : Holds(c, u)' <=> Holds(c, u)
    BY <1>1 DEF EnterRemote, Holds
  <2>3. CASE Entered(t)
    <3>1. running' = running
      BY <1>1, <2>3 DEF EnterRemote
    <3>2. AssigningKept
      BY <1>1, <1>t, <2>3
         DEF EnterRemote, Dispatched, AssigningKept, Assigns, TypeInv, ThreadsTyped, ThreadType
    <3> QED
      BY <1>t, <2>1, <2>2, <3>1, <3>2, SerialKept DEF AssigningKept
  <2>4. CASE ~Entered(t)
    <3>1. /\ running' = [running EXCEPT ![t] = "remote"] /\ running[t] = "no"
      BY <1>1, <2>4 DEF EnterRemote, Entered
    <3>2. \A b \in Thread, u \in Task : Assigns(b, u)' => Assigns(b, u) \/ (b = a /\ u = t)
      <4>1. thread' = [thread EXCEPT ![a].pc = "assigning", ![a].node = assigned[t]]
        BY <1>1, <2>4 DEF EnterRemote
      <4>2. thread'[a].task = t /\ \A b \in Thread \ {a} : thread'[b] = thread[b]
        BY <1>t, <4>1 DEF TypeInv, ThreadsTyped, ThreadType
      <4> QED
        BY <4>2 DEF Assigns
    <3>3. t \notin decided => /\ \A c \in Copy : ~Holds(c, t)
                              /\ \A b \in Thread : ~Assigns(b, t)
      BY <1>t, <2>1, <3>1 DEF Serial
    <3> HIDE DEF t
    <3> QED
      BY <1>t, <2>1, <2>2, <3>1, <3>2, <3>3 DEF Serial
  <2> QED
    BY <2>3, <2>4
<1>2. CASE (Unrelated \/ UNCHANGED vars) /\ \A a \in Thread : ~EnterRemote(a)
  <2>1. \A c \in Copy, t \in Task : Holds(c, t)' => Holds(c, t)
    BY <1>2, UnrelatedKeeps DEF Holds
  <2> QED
    BY <1>2, <1>t, <2>1, AssigningOnlyEntered, PoppedDecided, SerialKept DEF AssigningKept
<1>3. ASSUME NEW n \in Node, AgentCrash(n) PROVE Serial'
  <2>1. \A c \in Copy, t \in Task : Holds(c, t)' => Holds(c, t)
    BY <1>3, <1>t, CrashKeeps DEF Holds, IdleCopy
  <2>2. UNCHANGED <<thread, running, decided>>
    BY <1>3 DEF AgentCrash, history
  <2> QED
    BY <1>t, <2>1, <2>2, SerialKept DEF Assigns
<1>4. ASSUME NEW a \in Thread, EnterLocal(a) PROVE Serial'
  <2> DEFINE t == thread[a].task
  <2>1. t \in Task /\ decided' = decided /\ ~EnterRemote(a)
    BY <1>4, <1>t DEF EnterLocal, EnterRemote, TypeInv, ThreadsTyped, Dispatching, history
  <2>2. AssigningKept
    BY <1>4, <1>t DEF EnterLocal, Dispatched, AssigningKept, Assigns, TypeInv, ThreadsTyped,
                      ThreadType
  <2>3. CASE Entered(t)
    <3>1. UNCHANGED <<running, copy>>
      BY <1>4, <2>3 DEF EnterLocal
    <3> QED
      BY <1>t, <2>1, <2>2, <3>1, SerialKept DEF AssigningKept, Holds
  <2>4. CASE ~Entered(t)
    <3>1. /\ running' = [running EXCEPT ![t] = "local"] /\ running[t] = "no"
          /\ StartCopy(t, Driver, "begin")
      BY <1>4, <2>4 DEF EnterLocal, Entered
    <3>2. PICK c \in Copy : /\ copy'[c].task = t
                            /\ \A d \in Copy \ {c} : copy'[d] = copy[d]
      BY <1>t, <2>1, <3>1, StartKeeps
    <3>3. \A d \in Copy, u \in Task : Holds(d, u)' => Holds(d, u) \/ (d = c /\ u = t)
      BY <3>2 DEF Holds
    <3>4. t \notin decided => /\ \A d \in Copy : ~Holds(d, t)
                              /\ \A b \in Thread : ~Assigns(b, t)
      BY <1>t, <2>1, <3>1 DEF Serial
    <3> HIDE DEF t
    <3> QED
      BY <1>t, <2>1, <2>2, <3>1, <3>3, <3>4 DEF Serial, AssigningKept
  <2> QED
    BY <2>3, <2>4
<1>5. ASSUME NEW a \in Thread, AssignRpc(a) PROVE Serial'
  <2> DEFINE t == thread[a].task
  <2>1. /\ t \in Task /\ Assigns(a, t) /\ running' = running /\ decided \subseteq decided'
    BY <1>5, <1>t DEF AssignRpc, TypeInv, ThreadsTyped, Dispatching, Assigns
  <2>2. \A b \in Thread, u \in Task : Assigns(b, u)' => Assigns(b, u) /\ b # a
    BY <1>5, <1>t DEF AssignRpc, Dispatched, Assigns, TypeInv, ThreadsTyped, ThreadType
  <2>3. CASE UNCHANGED copy
    BY <1>t, <2>1, <2>2, <2>3, SerialKept DEF Holds
  <2>4. CASE thread[a].node \in up /\ StartCopy(t, thread[a].node, "run")
    <3>1. thread[a].node \in Agent
      BY <1>t, <2>4 DEF TypeInv, ClusterTypes
    <3>2. PICK c \in Copy : /\ copy'[c].task = t
                            /\ \A d \in Copy \ {c} : copy'[d] = copy[d]
      BY <1>t, <2>1, <2>4, <3>1, StartKeeps
    <3>3. \A d \in Copy, u \in Task : Holds(d, u)' => Holds(d, u) \/ (d = c /\ u = t)
      BY <3>2 DEF Holds
    <3>4. t \notin decided => /\ \A d \in Copy : ~Holds(d, t)
                              /\ \A b \in Thread : Assigns(b, t) => b = a
                              /\ running[t] # "no"
      BY <1>t, <2>1 DEF Serial
    <3> HIDE DEF t
    <3> QED
      BY <1>t, <2>1, <2>2, <3>3, <3>4 DEF Serial
  <2> QED
    BY <1>5, <2>3, <2>4 DEF AssignRpc
<1>6. ASSUME NEW c \in Copy, Progress(c) PROVE Serial'
  <2>1. \A d \in Copy, t \in Task : Holds(d, t)' => Holds(d, t)
    BY <1>6, <1>t, ProgressKeeps DEF Holds
  <2>2. \A a \in Thread, t \in Task : Assigns(a, t)' => Assigns(a, t)
    BY <1>6 DEF Progress, LocalBegins, LocalEnds, LocalReturned, AgentEnds, TaskComplete,
         CompletePops, CompleteJob, CancelLosers, StoreResult, FailPops, FailJob, Assigns
  <2> QED
    BY <1>6, <1>t, <2>1, <2>2, PoppedDecided, SerialKept
<1>7. ASSUME NEW c \in Copy, Finally(c) PROVE Serial'
  <2> DEFINE t == copy[c].task
  <2>1. /\ t \in Task /\ Holds(c, t) /\ decided' = decided /\ thread' = thread
        /\ \A d \in Copy, u \in Task : Holds(d, u)' => Holds(d, u) /\ d # c
    <3>1. /\ copy[c].pc = "finally" /\ t \in Task /\ copy'[c].pc = "idle"
          /\ \A d \in Copy \ {c} : copy'[d] = copy[d]
      BY <1>7, <1>t, FinallyKeeps DEF IdleCopy
    <3>2. decided' = decided /\ thread' = thread
      BY <1>7 DEF Finally, history
    <3> QED
      BY <3>1, <3>2 DEF Holds
  <2>2. \A u \in Task : u # t => running'[u] = running[u]
    BY <1>7, <1>t, FinallyKeeps
  <2>3. t \notin decided => /\ \A d \in Copy : Holds(d, t) => d = c
                            /\ \A a \in Thread : ~Assigns(a, t)
    BY <1>t, <2>1 DEF Serial
  <2>4. \A a \in Thread, u \in Task : Assigns(a, u)' => Assigns(a, u)
    BY <2>1 DEF Assigns
  <2> HIDE DEF t
  <2> QED
    BY <1>t, <2>1, <2>2, <2>3, <2>4 DEF Serial
<1> QED
  BY <1>1, <1>2, <1>3, <1>4, <1>5, <1>6, <1>7, StepKinds

(* The entry in _running is enough: two executions of a task that has neither
   ended nor failed to be assigned never overlap, however often it is moved. *)
THEOREM ExecutionsSerial == Spec => []OneExecutor
<1>1. Init => SerialInv
  <2> SUFFICES ASSUME Init PROVE SerialInv
    OBVIOUS
  <2>1. NoFalseCompletion /\ TasksVouched /\ CopiesVouched
    BY DEF Init, NoFalseCompletion, TasksVouched, CopiesVouched, IdleCopy, Completing
  <2>2. FailureHasCause /\ FinishedDecided /\ CopiesDecided /\ ThreadsDecided
    BY DEF Init, FailureHasCause, FinishedDecided, CopiesDecided, ThreadsDecided,
           IdleCopy, IdleThread
  <2>3. Serial
    BY DEF Init, Serial, Holds, Assigns, IdleCopy, IdleThread
  <2> QED
    BY <2>1, <2>2, <2>3, InitType DEF SerialInv, FailureInv, CompletionInv
<1>2. SerialInv => OneExecutor
  BY DEF SerialInv, Serial, OneExecutor, Holds, Executes
<1> QED
  BY <1>1, <1>2, NextSerial, PTL DEF Spec
=============================================================================
