------------------------------- MODULE AgentLoop -------------------------------
(***************************************************************************)
(* The main loop of an agent (AgentDaemon._loop in mesh/agent/daemon.py) with *)
(* its calls of the driver (mesh/agent/client.py), the monitor it samples     *)
(* (mesh/agent/monitor.py) and the preemption detector                       *)
(* (mesh/agent/preemption.py).  Heartbeats, resource reports and warnings     *)
(* share one thread: a slow call delays the next heartbeat.  Time is counted  *)
(* in ticks of 0.25 s, the sleep of the loop.                                 *)
(***************************************************************************)
EXTENDS Naturals

CONSTANTS
    BeatInterval,   \* config.heartbeat_interval
    ReportInterval, \* config.resource_interval
    SampleInterval, \* min_sample_interval of the monitor
    Triggers,       \* consecutive_triggers of the detector
    CallTime,       \* a call of the driver takes at most so long, or it raises
    LocalTime,      \* so does the sampling, and so does the display
    Preemptible     \* config.preemptible

ASSUME LoopAssumption ==
    /\ {BeatInterval, ReportInterval, SampleInterval, Triggers} \subseteq Nat \ {0}
    /\ CallTime \in Nat /\ LocalTime \in Nat /\ Preemptible \in BOOLEAN

(* The longest silence between two heartbeats of a loop that runs: it looks just
   before the interval is over, reports, displays and warns, and looks again. *)
MaxGap == BeatInterval + 4 * CallTime + 3 * LocalTime

VARIABLES
    loop,       \* pc, ticks spent there, ticks since `now`, and the ages of
                \* last_heartbeat and last_resource
    reading,    \* the cached snapshot, its age, and the detector's streak
    silence     \* ticks since the driver recorded a sign of life

alVars == <<loop, reading, silence>>

Calls == {"report", "beat", "beaten", "warn"}
Local == {"look", "check"}
UpTo(n, bound) == IF n > bound THEN bound ELSE n

(* start: the driver has accepted the registration, with a forced snapshot; both
   times are 0.0, so that all is due. *)
AlInit ==
    /\ loop = [pc |-> "look", spent |-> 0, since |-> 0,
               beatAge |-> BeatInterval, reportAge |-> ReportInterval]
    /\ reading \in [user : BOOLEAN, high : BOOLEAN, age : {0}, streak : {0}]
    /\ silence = 0
-----------------------------------------------------------------------------
Limit(pc) == IF pc \in Calls THEN CallTime ELSE IF pc \in Local THEN LocalTime ELSE 1

Tick ==
    /\ loop.pc # "ended" /\ loop.spent < Limit(loop.pc)
    /\ loop' = [loop EXCEPT !.spent = @ + 1, !.since = @ + 1,
                            !.beatAge = UpTo(@ + 1, MaxGap),
                            !.reportAge = UpTo(@ + 1, MaxGap + ReportInterval)]
    /\ reading' = [reading EXCEPT !.age = UpTo(@ + 1, SampleInterval + LocalTime)]
    /\ silence' = UpTo(silence + 1, MaxGap + 1)

GoTo(pc) == loop' = [loop EXCEPT !.pc = pc, !.spent = IF pc = "beaten" THEN @ ELSE 0]

(* Both conditions use the `now` of the top of the loop. *)
BeatDue == loop.beatAge - loop.since >= BeatInterval
ReportDue == loop.reportAge - loop.since >= ReportInterval
AfterReportElse == "check"
AfterReport == IF BeatDue THEN "beat" ELSE "check"

(* snapshot: a fresh sample only when the cached one is old enough; user_active
   and a utilization over the threshold are found independently. *)
Look(user, high) ==
    /\ loop.pc = "look"
    /\ reading' = IF reading.age - loop.since < SampleInterval THEN reading
                  ELSE [reading EXCEPT !.user = user, !.high = high, !.age = loop.since]
    /\ GoTo(IF ReportDue THEN "report" ELSE AfterReport)
    /\ UNCHANGED silence

ReportAnswered ==
    /\ loop.pc = "report"
    /\ loop' = [loop EXCEPT !.pc = AfterReport, !.spent = 0, !.reportAge = loop.since]
    /\ UNCHANGED <<reading, silence>>

(* The driver records the heartbeat at some time of the call. *)
BeatArrives ==
    /\ loop.pc = "beat" /\ GoTo("beaten") /\ silence' = 0
    /\ UNCHANGED reading

BeatAnswered ==
    /\ loop.pc = "beaten"
    /\ loop' = [loop EXCEPT !.pc = "check", !.spent = 0, !.beatAge = loop.since]
    /\ UNCHANGED <<reading, silence>>

(* PreemptionDetector.check, after the display; it may see one sample more than
   once.  The handler of the warning answers when the tasks are moved. *)
Check ==
    LET streak == IF reading.high THEN UpTo(reading.streak + 1, Triggers) ELSE 0
        triggered == reading.user \/ streak >= Triggers
    IN  /\ loop.pc = "check"
        /\ reading' = [reading EXCEPT !.streak = streak]
        /\ GoTo(IF triggered /\ Preemptible THEN "warn" ELSE "sleep")
        /\ UNCHANGED silence

WarningAnswered ==
    /\ loop.pc = "warn" /\ GoTo("sleep")
    /\ reading' = [reading EXCEPT !.streak = 0]
    /\ UNCHANGED silence

(* A call raises, by its deadline or because the driver is away: the loop breaks
   and nothing starts it again.  A signal ends it anywhere. *)
LoopEnds ==
    /\ loop.pc # "ended" /\ GoTo("ended")
    /\ UNCHANGED <<reading, silence>>

Awakes ==
    /\ loop.pc = "sleep" /\ loop.spent = Limit("sleep")
    /\ loop' = [loop EXCEPT !.pc = "look", !.spent = 0, !.since = 0]
    /\ UNCHANGED <<reading, silence>>

AlNext ==
    \/ Tick \/ ReportAnswered \/ BeatArrives \/ BeatAnswered \/ Check
    \/ WarningAnswered \/ LoopEnds \/ Awakes
    \/ \E user, high \in BOOLEAN : Look(user, high)

AlSpec == AlInit /\ [][AlNext]_alVars
-----------------------------------------------------------------------------
(* Every variable stays in its type. *)
AlTypeOK ==
    /\ loop \in [pc : Calls \cup Local \cup {"sleep", "ended"}, spent : Nat, since : Nat,
                 beatAge : 0..MaxGap, reportAge : 0..(MaxGap + ReportInterval)]
    /\ reading \in [user : BOOLEAN, high : BOOLEAN, age : 0..(SampleInterval + LocalTime),
                    streak : 0..Triggers]
    /\ silence \in 0..(MaxGap + 1)

(* While its loop runs, an agent is never silent for longer than a heartbeat
   interval, four calls and three local phases, however slow calls, samples and
   warnings fall together: with the defaults, calls of 1.5 s and local phases
   of 0.5 s keep it below the 10 s after which the driver declares it dead. *)
HeartbeatGap == loop.pc # "ended" => silence <= MaxGap
=============================================================================
