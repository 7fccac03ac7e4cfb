------------------------------ MODULE Checkpoints ------------------------------
(***************************************************************************)
(* How far one task has come, and where its next execution resumes: the     *)
(* driver's TaskSpec and checkpoint, their rows in the store, the           *)
(* checkpoints that agents keep (mesh/recovery/checkpoint.py), and the      *)
(* progress reports between them.  When and where a task is sent again is   *)
(* part of JobManager: the rebalancer moves a task in any state to any      *)
(* node, as long as the driver has no entry for it in _running.             *)
(*                                                                         *)
(* The task function counts in its state what its progress says, so state   *)
(* s belongs to progress p iff s = p.  A checkpoint that a context saves    *)
(* holds the context's own dictionary, not a copy: its `of` names the       *)
(* execution whose later steps still change it (0: none).                   *)
(***************************************************************************)
EXTENDS Naturals, Sequences

CONSTANTS
    CpAgent,        \* agents the task may be sent to
    InDriver,       \* a node without an agent runs its tasks in the driver
    Work,           \* total_work
    CpExecutions,   \* bound: executions
    CpFaults        \* bound: lost and late calls, crashes, takeovers, raises

ASSUME WorkAssumption == Work \in Nat /\ CpFaults \in Nat
ASSUME InDriverAssumption == InDriver \notin CpAgent

CpPlace == CpAgent \cup {InDriver}
Start == [p |-> 0, s |-> 0]
NoCheckpoint == [p |-> 0, s |-> 0, of |-> 0, set |-> FALSE]
Saved(p, s, e) ==       \* `state_data or {}` replaces an empty dictionary
    [p |-> p, s |-> s, of |-> IF s = 0 THEN 0 ELSE e, set |-> TRUE]

VARIABLES
    spec,       \* progress and state_data of the driver's TaskSpec
    checkpoint, \* the checkpoint in the driver's and in each agent's memory
    row, rowCp, \* the rows of the task and of its checkpoint
    inRunning,  \* the driver's _running has an entry for the task
    cpEntry,    \* agents whose _running has one
    exec,       \* the executions so far
    reports,    \* TaskProgress calls under way
    floor,      \* history: the highest progress that an answered report or an
                \* interrupted execution left with this driver
    mixed,      \* history: an execution began beside another one, or beside a
                \* report of it that still lies about
    torn,       \* history: a dictionary went on after its checkpoint was saved
                \* and was left or stored so, or a spec half entered was stored
    cpFaults

cpHistory == <<floor, mixed, torn>>
cpVars == <<spec, checkpoint, row, rowCp, inRunning, cpEntry, exec, reports,
            cpHistory, cpFaults>>

CpFault == cpFaults > 0 /\ cpFaults' = cpFaults - 1
Alive(e) == exec[e].pc \in {"ready", "running"}
Index == 1..Len(exec)
Content(c) == IF c.of = 0 THEN c.s ELSE exec[c.of].s
IsTorn(c) == c.set /\ Content(c) # c.s

CpInit ==
    /\ spec = Start /\ row = Start
    /\ checkpoint = [n \in CpPlace |-> NoCheckpoint] /\ rowCp = NoCheckpoint
    /\ inRunning = FALSE /\ cpEntry = {} /\ exec = <<>> /\ reports = {}
    /\ floor = 0 /\ mixed = FALSE /\ torn = FALSE /\ cpFaults = CpFaults
-----------------------------------------------------------------------------
(* _persist_task: the spec, and the checkpoint if there is one. *)
Persisted(c) ==
    IF c.set THEN [p |-> c.p, s |-> Content(c), of |-> 0, set |-> TRUE] ELSE rowCp
PersistSpec(now, c) ==
    /\ row' = now /\ rowCp' = Persisted(c)
    /\ torn' = (torn \/ IsTorn(c) \/ \E r \in reports : r.pc # "sent")

(* The thread of execution e is made. *)
Began(n) ==
    /\ Len(exec) < CpExecutions
    /\ exec' = Append(exec, [on |-> n, pc |-> "ready", p |-> 0, s |-> 0])
    /\ mixed' = (mixed \/ reports # {} \/ \E e \in Index : Alive(e))

(* AgentTaskRunner.assign at agent a: a progress other than 0 becomes the
   agent's checkpoint. *)
Assigned(a, r) ==
    /\ a \notin cpEntry
    /\ cpEntry' = cpEntry \cup {a}
    /\ checkpoint' = IF r.p = 0 THEN checkpoint
                     ELSE [checkpoint EXCEPT ![a] = Saved(r.p, r.s, 0)]
    /\ Began(a)

(* _dispatch_remote sends the checkpoint, or else what the TaskSpec says. *)
ResumePoint(now) ==
    LET c == checkpoint[InDriver]
    IN  IF c.set THEN [p |-> c.p, s |-> Content(c)] ELSE now

(* steal restores the spec first; a moved task is persisted afterwards; a
   submitted one was persisted before.  If the answer of the agent is lost,
   the driver takes the task for failed, and its entry goes. *)
SendTo(a, stolen, answered) ==
    LET now == IF stolen THEN ResumePoint(spec) ELSE spec
    IN  /\ ~inRunning
        /\ Assigned(a, ResumePoint(now))
        /\ spec' = now /\ inRunning' = answered
        /\ IF stolen \/ exec = <<>> THEN UNCHANGED <<row, rowCp, torn>>
                                    ELSE PersistSpec(spec, checkpoint[InDriver])
        /\ IF answered THEN UNCHANGED cpFaults ELSE CpFault
        /\ UNCHANGED <<reports, floor>>

(* _start_local_execution; the thread restores by itself. *)
StartHere(stolen) ==
    /\ ~inRunning /\ inRunning' = TRUE
    /\ spec' = IF stolen THEN ResumePoint(spec) ELSE spec
    /\ Began(InDriver)
    /\ IF stolen \/ exec = <<>> THEN UNCHANGED <<row, rowCp, torn>>
                                ELSE PersistSpec(spec, checkpoint[InDriver])
    /\ UNCHANGED <<checkpoint, cpEntry, reports, floor, cpFaults>>

(* run_rebalance moves a task that runs: nothing is sent, the row is written. *)
MoveRunning ==
    /\ inRunning
    /\ PersistSpec(spec, checkpoint[InDriver])
    /\ UNCHANGED <<spec, checkpoint, inRunning, cpEntry, exec, reports, floor,
                   mixed, cpFaults>>
-----------------------------------------------------------------------------
(* Contexts *)

(* restore_from_checkpoint; the spec of a local execution is the driver's. *)
RestoredProgressOnly(c) == [p |-> c.p, s |-> 0]
Restored(c) == [p |-> c.p, s |-> Content(c)]
Restore(e) ==
    LET n == exec[e].on
        r == Restored(checkpoint[n])
    IN  /\ exec[e].pc = "ready"
        /\ exec' = [exec EXCEPT ![e] = [on |-> n, pc |-> "running", p |-> r.p, s |-> r.s]]
        /\ spec' = IF n = InDriver /\ checkpoint[n].set THEN r ELSE spec
        /\ UNCHANGED <<checkpoint, row, rowCp, inRunning, cpEntry, reports,
                       cpHistory, cpFaults>>

(* set_progress, with a checkpoint if the interval has passed; an agent then
   reports and waits for the answer. *)
Waits(e) == \E r \in reports : r.of = e /\ ~r.late
Step(e, saves) ==
    LET n == exec[e].on
        p == exec[e].p + 1
        s == IF exec[e].s < Work THEN exec[e].s + 1 ELSE Work
    IN  /\ exec[e].pc = "running" /\ p <= Work /\ ~Waits(e)
        /\ exec' = [exec EXCEPT ![e].p = p, ![e].s = s]
        /\ checkpoint' = IF saves THEN [checkpoint EXCEPT ![n] = Saved(p, s, e)]
                                  ELSE checkpoint
        /\ IF n = InDriver
           THEN spec' = [p |-> p, s |-> s] /\ UNCHANGED reports
           ELSE /\ reports' = reports \cup
                     {[of |-> e, pc |-> "sent", p |-> p, s |-> s, late |-> FALSE]}
                /\ UNCHANGED spec
        /\ UNCHANGED <<row, rowCp, inRunning, cpEntry, cpHistory, cpFaults>>

(* _check_interrupt in the driver; an agent's contexts have no interrupt. *)
KeepOldCheckpoint(e) == checkpoint[InDriver]
CheckpointOnInterrupt(e) == Saved(exec[e].p, exec[e].s, e)
StopHere(e) ==
    /\ exec[e].pc = "running" /\ exec[e].on = InDriver /\ exec[e].p < Work
    /\ exec' = [exec EXCEPT ![e].pc = "done"]
    /\ checkpoint' = [checkpoint EXCEPT ![InDriver] = CheckpointOnInterrupt(e)]
    /\ spec' = [spec EXCEPT !.p = exec[e].p]
    /\ inRunning' = FALSE
    /\ floor' = IF exec[e].p > floor THEN exec[e].p ELSE floor
    /\ UNCHANGED <<row, rowCp, cpEntry, reports, mixed, torn, cpFaults>>

(* The function returns, or raises.  The end of an execution on an agent is
   reported, unless the call is lost, and then the agent's entry goes. *)
Ends(e, lost) ==
    LET n == exec[e].on
        now == IF n = InDriver /\ exec[e].p = Work THEN [spec EXCEPT !.p = Work] ELSE spec
    IN  /\ exec[e].pc = "running" /\ ~Waits(e)
        /\ IF lost \/ exec[e].p < Work THEN CpFault ELSE UNCHANGED cpFaults
        /\ exec' = [exec EXCEPT ![e].pc = "done"]
        /\ spec' = now
        /\ IF lost
           THEN /\ n # InDriver /\ UNCHANGED <<inRunning, row, rowCp>>
                /\ torn' = (torn \/ \E m \in CpPlace : IsTorn(checkpoint[m]))
           ELSE /\ inRunning' = FALSE
                /\ row' = now /\ rowCp' = Persisted(checkpoint[InDriver])
                /\ torn' = (torn \/ \E m \in CpPlace : IsTorn(checkpoint[m]))
        /\ cpEntry' = cpEntry \ {n}
        /\ UNCHANGED <<checkpoint, reports, floor, mixed>>

(* CancelTask takes the entry; the thread goes on. *)
CancelAt(a) ==
    /\ a \in cpEntry /\ CpFault
    /\ cpEntry' = cpEntry \ {a}
    /\ UNCHANGED <<spec, checkpoint, row, rowCp, inRunning, exec, reports, cpHistory>>
-----------------------------------------------------------------------------
(* TaskProgress in the driver, a read and three writes without a lock. *)
Advance(r, pc) == reports' = (reports \ {r}) \cup {[r EXCEPT !.pc = pc]}

ReportProgress(r) ==
    /\ r \in reports /\ r.pc = "sent"
    /\ spec' = [spec EXCEPT !.p = r.p]
    /\ Advance(r, "progress")
    /\ UNCHANGED <<checkpoint, row, rowCp, inRunning, cpEntry, exec, cpHistory, cpFaults>>

ReportState(r) ==
    /\ r \in reports /\ r.pc = "progress"
    /\ spec' = [spec EXCEPT !.s = r.s]
    /\ Advance(r, "state")
    /\ UNCHANGED <<checkpoint, row, rowCp, inRunning, cpEntry, exec, cpHistory, cpFaults>>

ReportSaves(r) ==
    /\ r \in reports /\ r.pc = "state"
    /\ checkpoint' = [checkpoint EXCEPT ![InDriver] = Saved(spec.p, spec.s, 0)]
    /\ reports' = reports \ {r}
    /\ floor' = IF r.p > floor THEN r.p ELSE floor
    /\ UNCHANGED <<spec, row, rowCp, inRunning, cpEntry, exec, mixed, torn, cpFaults>>

(* The call fails, or the agent waits no longer than five seconds for it. *)
ReportLost(r) ==
    /\ r \in reports /\ r.pc = "sent" /\ CpFault
    /\ reports' = reports \ {r}
    /\ UNCHANGED <<spec, checkpoint, row, rowCp, inRunning, cpEntry, exec, cpHistory>>

ReportLate(r) ==
    /\ r \in reports /\ ~r.late /\ CpFault
    /\ reports' = (reports \ {r}) \cup {[r EXCEPT !.late = TRUE]}
    /\ mixed' = TRUE
    /\ UNCHANGED <<spec, checkpoint, row, rowCp, inRunning, cpEntry, exec, floor, torn>>

(* Memory is lost with the process. *)
CpAgentCrash(a) ==
    /\ CpFault
    /\ \E e \in Index : exec[e].on = a
    /\ exec' = [e \in Index |-> IF exec[e].on = a THEN [exec[e] EXCEPT !.pc = "done"]
                                                  ELSE exec[e]]
    /\ checkpoint' = [checkpoint EXCEPT ![a] = NoCheckpoint]
    /\ cpEntry' = cpEntry \ {a}
    /\ UNCHANGED <<spec, row, rowCp, inRunning, reports, cpHistory>>

(* Another driver takes over, with agents of its own: its table has the row,
   and what it sends at once carries the stored checkpoint. *)
TakeOver(n) ==
    LET r == IF rowCp.set THEN [p |-> rowCp.p, s |-> rowCp.s] ELSE row
        sent == n # InDriver
    IN  /\ CpFault /\ (sent => Len(exec) < CpExecutions)
        /\ spec' = row /\ inRunning' = sent /\ cpEntry' = {n} \ {InDriver}
        /\ checkpoint' = [m \in CpPlace |-> IF sent /\ m = n /\ r.p > 0
                                            THEN Saved(r.p, r.s, 0) ELSE NoCheckpoint]
        /\ exec' = [e \in Index |-> [exec[e] EXCEPT !.pc = "done"]]
                   \o IF sent THEN <<[on |-> n, pc |-> "ready", p |-> 0, s |-> 0]>> ELSE <<>>
        /\ reports' = {} /\ floor' = 0
        /\ UNCHANGED <<row, rowCp, mixed, torn>>
-----------------------------------------------------------------------------
CpNext ==
    \/ \E a \in CpAgent, stolen, answered \in BOOLEAN : SendTo(a, stolen, answered)
    \/ \E stolen \in BOOLEAN : StartHere(stolen)
    \/ MoveRunning
    \/ \E e \in Index :
         \/ Restore(e) \/ StopHere(e)
         \/ \E saves \in BOOLEAN : Step(e, saves)
         \/ \E lost \in BOOLEAN : Ends(e, lost)
    \/ \E a \in CpAgent : CancelAt(a) \/ CpAgentCrash(a)
    \/ \E r \in reports : ReportProgress(r) \/ ReportState(r) \/ ReportSaves(r)
                           \/ ReportLost(r) \/ ReportLate(r)
    \/ \E n \in CpPlace : TakeOver(n)

CpSpec == CpInit /\ [][CpNext]_cpVars
-----------------------------------------------------------------------------
CpPoint == [p : 0..Work, s : 0..Work]
CpSaved == [p : 0..Work, s : 0..Work, of : Nat, set : BOOLEAN]

(* Every variable stays in its type. *)
CpTypeOK ==
    /\ spec \in CpPoint /\ row \in CpPoint
    /\ checkpoint \in [CpPlace -> CpSaved] /\ rowCp \in CpSaved
    /\ inRunning \in BOOLEAN /\ cpEntry \subseteq CpAgent
    /\ exec \in Seq([on : CpPlace, pc : {"ready", "running", "done"},
                     p : 0..Work, s : 0..Work])
    /\ reports \subseteq [of : Nat, pc : {"sent", "progress", "state"}, p : 0..Work,
                          s : 0..Work, late : BOOLEAN]
    /\ floor \in 0..Work /\ mixed \in BOOLEAN /\ torn \in BOOLEAN /\ cpFaults \in Nat

Resumes(e) == e \in Index /\ exec[e].pc = "ready" /\ exec'[e].pc = "running"

(* An execution starts no lower than what the driver has answered for, or what
   an interrupted execution had reached: a migration repeats no work, unless
   two executions or a late report were mixed up. *)
AckedWorkKept ==
    [][\A e \in DOMAIN exec' : Resumes(e) /\ ~mixed => exec'[e].p >= floor]_cpVars

(* The state an execution starts with belongs to the progress it starts with,
   with the same exception, and unless an execution was left, or stored, when
   its dictionary had moved past the checkpoint that shares it. *)
ResumesWhole ==
    [][\A e \in DOMAIN exec' :
         Resumes(e) /\ ~mixed /\ ~torn => exec'[e].p = exec'[e].s]_cpVars
=============================================================================
