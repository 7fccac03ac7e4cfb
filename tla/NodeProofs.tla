----------------------------- MODULE NodeProofs -----------------------------
(***************************************************************************)
(* What the agents' nodes are known for and used for: the longest silence of a *)
(* living agent's loop, the packages an entry lists, where tasks are placed, the *)
(* simulated cluster's tasks, and the memory that is reserved, for any numbers *)
(* of nodes, tasks, calls and packages and any sizes and durations.          *)
(***************************************************************************)
EXTENDS AgentLoop, Libraries, Placement, SimCluster, MemoryFabric, Lemmas

-----------------------------------------------------------------------------
(* AgentLoop: how long an agent whose loop runs may be silent. *)

LoopState == [pc : Calls \cup Local \cup {"sleep", "ended"}, spent : Nat, since : Nat,
              beatAge : 0..MaxGap, reportAge : 0..(MaxGap + ReportInterval)]

(* How long the loop has been in its present phase, and since its `now`. *)
Progresses ==
    /\ loop.pc # "ended" => loop.spent <= Limit(loop.pc) /\ loop.spent <= loop.since
    /\ loop.pc = "look" => loop.since <= loop.spent
    /\ loop.pc = "report" => loop.since <= LocalTime + loop.spent
    /\ loop.pc \in {"beat", "beaten"} => loop.since <= LocalTime + CallTime + loop.spent

(* last_heartbeat is not younger than what the driver has seen. *)
AgeCounts == loop.pc = "ended" \/ loop.beatAge = MaxGap \/ silence <= loop.beatAge

(* Before the heartbeat of an iteration: what the iteration before may leave. *)
BeforeBeat ==
    loop.pc \in {"look", "report", "beat"} =>
        silence <= loop.since + BeatInterval + 2 * LocalTime + 2 * CallTime

(* After it, or after it was not due: the silence since the top of the loop, or
   since the heartbeat arrived. *)
AfterBeat ==
    /\ loop.pc = "beaten" => silence <= loop.spent
    /\ loop.pc = "check" =>
         \/ /\ silence < loop.since + BeatInterval
            /\ loop.since <= LocalTime + CallTime + loop.spent
         \/ silence <= CallTime + loop.spent
    /\ loop.pc = "warn" =>
         \/ /\ silence < loop.since + BeatInterval
            /\ loop.since <= 2 * LocalTime + CallTime + loop.spent
         \/ silence <= CallTime + LocalTime + loop.spent
    /\ loop.pc = "sleep" =>
         \/ /\ silence < loop.since + BeatInterval
            /\ loop.since <= 2 * LocalTime + 2 * CallTime + loop.spent
         \/ silence <= 2 * CallTime + LocalTime + loop.spent

LoopInv == AlTypeOK /\ Progresses /\ AgeCounts /\ BeforeBeat /\ AfterBeat

(* Saturation keeps a number in its range and does not exceed it. *)
LEMMA UpToBounds ==
    ASSUME NEW n \in Nat, NEW bound \in Nat
    PROVE  /\ UpTo(n, bound) \in 0..bound /\ UpTo(n, bound) <= n
           /\ UpTo(n, bound) = bound \/ UpTo(n, bound) = n
BY DEF UpTo

(* The bounds are numbers. *)
LEMMA GapType == MaxGap \in Nat /\ MaxGap >= BeatInterval /\ BeatInterval \in Nat \ {0}
                 /\ LocalTime \in Nat /\ CallTime \in Nat /\ MaxGap + 1 \in Nat
                 /\ SampleInterval \in Nat \ {0} /\ Triggers \in Nat \ {0}
                 /\ SampleInterval + LocalTime \in Nat /\ MaxGap + ReportInterval \in Nat
                 /\ ReportInterval \in Nat \ {0} /\ ReportInterval <= MaxGap + ReportInterval
BY LoopAssumption DEF MaxGap

(* The loop starts without silence. *)
LEMMA InitLoop == AlInit => LoopInv
<1> SUFFICES ASSUME AlInit PROVE LoopInv
  OBVIOUS
<1>1. /\ loop.pc = "look" /\ loop.spent = 0 /\ loop.since = 0 /\ silence = 0
      /\ loop.beatAge = BeatInterval
  BY DEF AlInit
<1>2. AlTypeOK
  <2>1. loop \in LoopState
    BY GapType DEF AlInit, LoopState, Calls, Local, UpTo
  <2>2. reading \in [user : BOOLEAN, high : BOOLEAN, age : 0..(SampleInterval + LocalTime),
                     streak : 0..Triggers]
    BY GapType DEF AlInit
  <2> QED
    BY <1>1, <2>1, <2>2, GapType DEF AlTypeOK, LoopState
<1>3. Progresses /\ AgeCounts /\ BeforeBeat /\ AfterBeat
  BY <1>1, GapType DEF Progresses, AgeCounts, BeforeBeat, AfterBeat, Limit, Calls, Local
<1> QED
  BY <1>2, <1>3 DEF LoopInv

(* Time passes in a phase. *)
LEMMA TickKeeps == LoopInv /\ Tick => LoopInv'
<1> SUFFICES ASSUME LoopInv, Tick PROVE LoopInv'
  OBVIOUS
<1>1. loop \in LoopState /\ silence \in 0..(MaxGap + 1)
  BY DEF LoopInv, AlTypeOK, LoopState
<1>2. /\ loop'.pc = loop.pc /\ loop'.spent = loop.spent + 1 /\ loop'.since = loop.since + 1
      /\ loop'.beatAge = UpTo(loop.beatAge + 1, MaxGap)
      /\ loop'.reportAge = UpTo(loop.reportAge + 1, MaxGap + ReportInterval)
      /\ loop.pc # "ended" /\ loop.spent < Limit(loop.pc)
      /\ silence' = UpTo(silence + 1, MaxGap + 1)
      /\ loop' \in [pc : {loop.pc}, spent : {loop.spent + 1}, since : {loop.since + 1},
                    beatAge : {UpTo(loop.beatAge + 1, MaxGap)},
                    reportAge : {UpTo(loop.reportAge + 1, MaxGap + ReportInterval)}]
  BY <1>1 DEF Tick, LoopState
<1>3. /\ loop'.beatAge \in 0..MaxGap /\ loop'.reportAge \in 0..(MaxGap + ReportInterval)
      /\ loop'.beatAge = MaxGap \/ loop'.beatAge = loop.beatAge + 1
      /\ silence' <= silence + 1 /\ silence' \in 0..(MaxGap + 1)
  BY <1>1, <1>2, GapType, UpToBounds DEF LoopState
<1>4. Limit(loop.pc) \in Nat /\ Limit(loop'.pc) = Limit(loop.pc)
  BY <1>2, GapType DEF Limit
<1>5. AlTypeOK'
  <2>1. loop' \in LoopState
    BY <1>1, <1>2, <1>3 DEF LoopState
  <2>2. reading' \in [user : BOOLEAN, high : BOOLEAN, age : 0..(SampleInterval + LocalTime),
                      streak : 0..Triggers]
    <3>1. reading \in [user : BOOLEAN, high : BOOLEAN, age : 0..(SampleInterval + LocalTime),
                      streak : 0..Triggers]
      BY DEF LoopInv, AlTypeOK
    <3>2. reading' = [reading EXCEPT !.age = UpTo(reading.age + 1, SampleInterval + LocalTime)]
      BY DEF Tick
    <3>3. UpTo(reading.age + 1, SampleInterval + LocalTime) \in 0..(SampleInterval + LocalTime)
      <4>1. reading.age + 1 \in Nat
        BY <3>1, GapType
      <4> QED
        BY <4>1, GapType, UpToBounds
    <3> QED
      BY <3>1, <3>2, <3>3
  <2> QED
    BY <1>3, <2>1, <2>2 DEF AlTypeOK, LoopState
<1>6. Progresses'
  BY <1>1, <1>2, <1>4, GapType DEF LoopInv, Progresses, LoopState
<1>7. AgeCounts'
  BY <1>1, <1>2, <1>3, GapType DEF LoopInv, AgeCounts, LoopState
<1>8. BeforeBeat' /\ AfterBeat'
  BY <1>1, <1>2, <1>3, GapType DEF LoopInv, BeforeBeat, AfterBeat, LoopState
<1> QED
  BY <1>5, <1>6, <1>7, <1>8 DEF LoopInv

(* What a heartbeat that is not due means for the silence of the agent. *)
LEMMA NotDue ==
    ASSUME LoopInv, loop.pc \in {"look", "report"}, ~BeatDue
    PROVE  silence < loop.since + BeatInterval /\ loop.since <= LocalTime + CallTime
<1>1. loop \in LoopState /\ silence \in 0..(MaxGap + 1)
  BY DEF LoopInv, AlTypeOK, LoopState
<1>2. loop.since <= LocalTime + CallTime
  BY <1>1, GapType DEF LoopInv, Progresses, Limit, Calls, Local, LoopState
<1>3. loop.beatAge < loop.since + BeatInterval
  BY <1>1, GapType DEF BeatDue, LoopState
<1>4. loop.beatAge # MaxGap
  BY <1>1, <1>2, <1>3, GapType DEF MaxGap, LoopState
<1> QED
  BY <1>1, <1>2, <1>3, <1>4, GapType DEF LoopInv, AgeCounts, LoopState

ReadingState == [user : BOOLEAN, high : BOOLEAN, age : 0..(SampleInterval + LocalTime),
                 streak : 0..Triggers]

(* The types, as memberships. *)
LEMMA Types == LoopInv => /\ loop \in LoopState /\ reading \in ReadingState
                          /\ silence \in 0..(MaxGap + 1)
BY DEF LoopInv, AlTypeOK, LoopState, ReadingState

(* The sample is taken, and the loop turns to what is due. *)
LEMMA LookKeeps ==
    ASSUME LoopInv, NEW user \in BOOLEAN, NEW high \in BOOLEAN, Look(user, high)
    PROVE  LoopInv'
<1>1. loop \in LoopState /\ reading \in ReadingState /\ silence \in 0..(MaxGap + 1)
  BY Types
<1>2. /\ loop.pc = "look" /\ silence' = silence
      /\ loop'.pc = IF ReportDue THEN "report" ELSE AfterReport
      /\ loop'.spent = 0 /\ loop'.since = loop.since /\ loop'.beatAge = loop.beatAge
      /\ loop'.reportAge = loop.reportAge /\ loop' \in LoopState
  BY <1>1 DEF Look, GoTo, LoopState, AfterReport, Calls, Local
<1>3. loop.since <= LocalTime
  BY <1>1, <1>2, GapType DEF LoopInv, Progresses, Limit, Calls, Local, LoopState
<1>4. reading' \in ReadingState
  <2>1. loop.since \in 0..(SampleInterval + LocalTime)
    BY <1>1, <1>3, GapType DEF LoopState
  <2> QED
    BY <1>1, <2>1 DEF Look, ReadingState
<1>5. AlTypeOK'
  BY <1>1, <1>2, <1>4 DEF AlTypeOK, LoopState, ReadingState
<1>6. Limit(loop'.pc) \in Nat
  BY GapType DEF Limit
<1>7. Progresses'
  BY <1>1, <1>2, <1>3, <1>6, GapType DEF Progresses, AfterReport, LoopState
<1>8. AgeCounts'
  BY <1>1, <1>2 DEF LoopInv, AgeCounts, LoopState
<1>9. BeforeBeat'
  BY <1>1, <1>2 DEF LoopInv, BeforeBeat, LoopState
<1>10. AfterBeat'
  <2>1. CASE loop'.pc = "check"
    <3>1. ~BeatDue
      BY <1>2, <2>1 DEF AfterReport
    <3>2. silence < loop.since + BeatInterval
      BY <1>2, <3>1, NotDue
    <3> QED
      BY <1>1, <1>2, <1>3, <2>1, <3>2, GapType DEF AfterBeat, LoopState
  <2> QED
    BY <1>2, <2>1 DEF AfterBeat, AfterReport
<1> QED
  BY <1>5, <1>7, <1>8, <1>9, <1>10 DEF LoopInv

(* A report is answered after at most the time of a call. *)
LEMMA ReportKeeps == LoopInv /\ ReportAnswered => LoopInv'
<1> SUFFICES ASSUME LoopInv, ReportAnswered PROVE LoopInv'
  OBVIOUS
<1>1. loop \in LoopState /\ reading \in ReadingState /\ silence \in 0..(MaxGap + 1)
  BY Types
<1>2. loop.since <= LocalTime + CallTime /\ loop.since <= MaxGap + ReportInterval
  BY <1>1, GapType DEF ReportAnswered, LoopInv, Progresses, Limit, Calls, Local, LoopState,
                       MaxGap
<1>3. /\ loop.pc = "report" /\ silence' = silence /\ reading' = reading
      /\ loop'.pc = AfterReport
      /\ loop'.spent = 0 /\ loop'.since = loop.since /\ loop'.beatAge = loop.beatAge
      /\ loop' \in LoopState
  <2>1. AfterReport \in Calls \cup Local /\ 0 \in Nat
    BY DEF AfterReport, Calls, Local
  <2>2. loop.since \in 0..(MaxGap + ReportInterval)
    BY <1>1, <1>2, GapType DEF LoopState
  <2>3. loop' = [loop EXCEPT !.pc = AfterReport, !.spent = 0, !.reportAge = loop.since]
    BY DEF ReportAnswered
  <2>4. loop' \in LoopState
    BY <1>1, <2>1, <2>2, <2>3 DEF LoopState
  <2> QED
    BY <1>1, <2>3, <2>4 DEF ReportAnswered, LoopState
<1>4. AlTypeOK'
  BY <1>1, <1>3 DEF AlTypeOK, LoopState, ReadingState
<1>5. Limit(loop'.pc) \in Nat
  BY GapType DEF Limit
<1>6. Progresses'
  BY <1>1, <1>2, <1>3, <1>5, GapType DEF Progresses, AfterReport, LoopState
<1>7. AgeCounts' /\ BeforeBeat'
  BY <1>1, <1>3 DEF LoopInv, AgeCounts, BeforeBeat, AfterReport, LoopState
<1>8. AfterBeat'
  <2>1. CASE loop'.pc = "check"
    <3>1. ~BeatDue
      BY <1>3, <2>1 DEF AfterReport
    <3>2. silence < loop.since + BeatInterval
      BY <1>3, <3>1, NotDue
    <3> QED
      BY <1>1, <1>2, <1>3, <2>1, <3>2, GapType DEF AfterBeat, LoopState
  <2> QED
    BY <1>3, <2>1 DEF AfterBeat, AfterReport
<1> QED
  BY <1>4, <1>6, <1>7, <1>8 DEF LoopInv

(* A heartbeat that arrives ends the silence. *)
LEMMA ArrivalKeeps == LoopInv /\ BeatArrives => LoopInv'
<1> SUFFICES ASSUME LoopInv, BeatArrives PROVE LoopInv'
  OBVIOUS
<1>1. loop \in LoopState /\ reading \in ReadingState
  BY Types
<1>2. /\ loop.pc = "beat" /\ silence' = 0 /\ reading' = reading
      /\ loop'.pc = "beaten" /\ loop'.spent = loop.spent /\ loop'.since = loop.since
      /\ loop'.beatAge = loop.beatAge /\ loop' \in LoopState
  BY <1>1 DEF BeatArrives, GoTo, LoopState, Calls
<1>3. AlTypeOK'
  BY <1>1, <1>2, GapType DEF AlTypeOK, LoopState, ReadingState
<1>4. Limit("beat") = Limit("beaten")
  BY DEF Limit, Calls
<1> QED
  BY <1>1, <1>2, <1>3, <1>4
     DEF LoopInv, Progresses, AgeCounts, BeforeBeat, AfterBeat, LoopState

(* The heartbeat that arrived is answered. *)
LEMMA AnswerKeeps == LoopInv /\ BeatAnswered => LoopInv'
<1> SUFFICES ASSUME LoopInv, BeatAnswered PROVE LoopInv'
  OBVIOUS
<1>1. loop \in LoopState /\ reading \in ReadingState /\ silence \in 0..(MaxGap + 1)
  BY Types
<1>2. loop.pc = "beaten" /\ silence' = silence /\ reading' = reading
  BY DEF BeatAnswered
<1>3. /\ loop.spent <= CallTime /\ loop.spent <= loop.since
      /\ loop.since <= LocalTime + CallTime + loop.spent /\ silence <= loop.spent
  BY <1>1, <1>2 DEF LoopInv, Progresses, AfterBeat, Limit, Calls
<1>4. loop.since \in 0..MaxGap
  BY <1>1, <1>3, GapType DEF MaxGap, LoopState
<1>5. /\ loop'.pc = "check" /\ loop'.spent = 0 /\ loop'.since = loop.since
      /\ loop'.beatAge = loop.since /\ loop' \in LoopState
  BY <1>1, <1>4 DEF BeatAnswered, LoopState, Local
<1>6. AlTypeOK'
  BY <1>1, <1>2, <1>5 DEF AlTypeOK, LoopState, ReadingState
<1>7. Limit(loop'.pc) \in Nat
  BY GapType DEF Limit
<1>8. Progresses' /\ AgeCounts' /\ BeforeBeat' /\ AfterBeat'
  BY <1>1, <1>2, <1>3, <1>5, <1>7, GapType
     DEF Progresses, AgeCounts, BeforeBeat, AfterBeat, LoopState
<1> QED
  BY <1>6, <1>8 DEF LoopInv

(* The check of what is due starts a call, or the local phases. *)
LEMMA CheckKeeps == LoopInv /\ Check => LoopInv'
<1> SUFFICES ASSUME LoopInv, Check PROVE LoopInv'
  OBVIOUS
<1>1. loop \in LoopState /\ reading \in ReadingState /\ silence \in 0..(MaxGap + 1)
  BY Types
<1>2. /\ loop.pc = "check" /\ silence' = silence
      /\ loop'.pc \in {"warn", "sleep"}
      /\ loop'.spent = 0 /\ loop'.since = loop.since /\ loop'.beatAge = loop.beatAge
      /\ loop' \in LoopState
  BY <1>1 DEF Check, GoTo, LoopState, Calls
<1>3. loop.spent <= LocalTime
  BY <1>1, <1>2 DEF LoopInv, Progresses, Limit, Calls, Local
<1>4. reading' \in ReadingState
  <2>1. UpTo(reading.streak + 1, Triggers) \in 0..Triggers /\ 0 \in 0..Triggers
    <3>1. reading.streak + 1 \in Nat /\ Triggers \in Nat
      BY <1>1, GapType DEF ReadingState
    <3>2. UpTo(reading.streak + 1, Triggers) \in 0..Triggers
      BY <3>1, UpToBounds
    <3> QED
      BY <3>1, <3>2
  <2>2. \E k \in 0..Triggers : reading' = [reading EXCEPT !.streak = k]
    BY <2>1 DEF Check
  <2> QED
    BY <1>1, <2>2 DEF ReadingState
<1>5. AlTypeOK'
  BY <1>1, <1>2, <1>4 DEF AlTypeOK, LoopState, ReadingState
<1>6. Limit(loop'.pc) \in Nat
  BY GapType DEF Limit
<1>7. Progresses' /\ AgeCounts' /\ BeforeBeat'
  BY <1>1, <1>2, <1>6 DEF LoopInv, Progresses, AgeCounts, BeforeBeat, LoopState
<1>8. \/ silence < loop.since + BeatInterval /\ loop.since <= 2 * LocalTime + CallTime
      \/ silence <= CallTime + LocalTime
  BY <1>1, <1>2, <1>3, GapType DEF LoopInv, AfterBeat, LoopState
<1>9. AfterBeat'
  BY <1>1, <1>2, <1>8, GapType DEF AfterBeat, LoopState
<1> QED
  BY <1>5, <1>7, <1>9 DEF LoopInv

(* A preemption warning is answered. *)
LEMMA WarningKeeps == LoopInv /\ WarningAnswered => LoopInv'
<1> SUFFICES ASSUME LoopInv, WarningAnswered PROVE LoopInv'
  OBVIOUS
<1>1. loop \in LoopState /\ reading \in ReadingState /\ silence \in 0..(MaxGap + 1)
  BY Types
<1>2. /\ loop.pc = "warn" /\ silence' = silence /\ loop'.pc = "sleep"
      /\ loop'.spent = 0 /\ loop'.since = loop.since /\ loop'.beatAge = loop.beatAge
      /\ loop' \in LoopState
  BY <1>1 DEF WarningAnswered, GoTo, LoopState
<1>3. loop.spent <= CallTime
  BY <1>1, <1>2 DEF LoopInv, Progresses, Limit, Calls
<1>4. reading' \in ReadingState
  BY <1>1, GapType DEF WarningAnswered, ReadingState
<1>5. AlTypeOK'
  BY <1>1, <1>2, <1>4 DEF AlTypeOK, LoopState, ReadingState
<1>6. Limit(loop'.pc) \in Nat
  BY GapType DEF Limit
<1>7. Progresses' /\ AgeCounts' /\ BeforeBeat'
  BY <1>1, <1>2, <1>6 DEF LoopInv, Progresses, AgeCounts, BeforeBeat, LoopState
<1>8. AfterBeat'
  BY <1>1, <1>2, <1>3, GapType DEF LoopInv, AfterBeat, LoopState
<1> QED
  BY <1>5, <1>7, <1>8 DEF LoopInv

(* The loop goes round. *)
LEMMA AwakesKeeps == LoopInv /\ Awakes => LoopInv'
<1> SUFFICES ASSUME LoopInv, Awakes PROVE LoopInv'
  OBVIOUS
<1>1. loop \in LoopState /\ reading \in ReadingState /\ silence \in 0..(MaxGap + 1)
  BY Types
<1>2. /\ loop.pc = "sleep" /\ loop.spent = 1 /\ silence' = silence /\ reading' = reading
      /\ loop'.pc = "look" /\ loop'.spent = 0 /\ loop'.since = 0
      /\ loop'.beatAge = loop.beatAge /\ loop' \in LoopState
  BY <1>1 DEF Awakes, LoopState, Limit, Calls, Local
<1>3. AlTypeOK'
  BY <1>1, <1>2 DEF AlTypeOK, LoopState, ReadingState
<1>4. Limit(loop'.pc) \in Nat
  BY GapType DEF Limit
<1>5. Progresses' /\ AgeCounts' /\ AfterBeat'
  BY <1>1, <1>2, <1>4 DEF LoopInv, Progresses, AgeCounts, AfterBeat, LoopState
<1>6. silence <= BeatInterval + 2 * LocalTime + 2 * CallTime
  BY <1>1, <1>2, GapType DEF LoopInv, AfterBeat, LoopState
<1>7. BeforeBeat'
  BY <1>1, <1>2, <1>6, GapType DEF BeforeBeat, LoopState
<1> QED
  BY <1>3, <1>5, <1>7 DEF LoopInv

(* A loop that ended is silent for ever. *)
LEMMA EndKeeps == LoopInv /\ LoopEnds => LoopInv'
<1> SUFFICES ASSUME LoopInv, LoopEnds PROVE LoopInv'
  OBVIOUS
<1>1. loop \in LoopState /\ reading \in ReadingState /\ silence \in 0..(MaxGap + 1)
  BY Types
<1>2. /\ loop'.pc = "ended" /\ loop' \in LoopState
      /\ silence' = silence /\ reading' = reading
  BY <1>1 DEF LoopEnds, GoTo, LoopState
<1> QED
  BY <1>1, <1>2 DEF LoopInv, AlTypeOK, Progresses, AgeCounts, BeforeBeat, AfterBeat,
                    LoopState, ReadingState

(* One step of each kind. *)
LEMMA LoopStepKeeps == LoopInv /\ [AlNext]_alVars => LoopInv'
<1> SUFFICES ASSUME LoopInv, [AlNext]_alVars PROVE LoopInv'
  OBVIOUS
<1>1. CASE Tick
  BY <1>1, TickKeeps
<1>2. CASE \E user, high \in BOOLEAN : Look(user, high)
  BY <1>2, LookKeeps
<1>3. CASE ReportAnswered
  BY <1>3, ReportKeeps
<1>4. CASE BeatArrives
  BY <1>4, ArrivalKeeps
<1>5. CASE BeatAnswered
  BY <1>5, AnswerKeeps
<1>6. CASE Check
  BY <1>6, CheckKeeps
<1>7. CASE WarningAnswered
  BY <1>7, WarningKeeps
<1>8. CASE LoopEnds
  BY <1>8, EndKeeps
<1>9. CASE Awakes
  BY <1>9, AwakesKeeps
<1>10. CASE UNCHANGED alVars
  BY <1>10 DEF alVars, LoopInv, AlTypeOK, Progresses, AgeCounts, BeforeBeat, AfterBeat, Limit
<1> QED
  BY <1>1, <1>2, <1>3, <1>4, <1>5, <1>6, <1>7, <1>8, <1>9, <1>10 DEF AlNext

(* The variables of the loop keep their types, for any intervals. *)
THEOREM LoopTypeCorrect == AlSpec => []AlTypeOK
<1>1. LoopInv => AlTypeOK
  BY DEF LoopInv
<1> QED
  BY InitLoop, LoopStepKeeps, <1>1, PTL DEF AlSpec

(* A running agent is never silent for longer than an interval, four calls and
   three local phases. *)
THEOREM SilenceIsBounded == AlSpec => []HeartbeatGap
<1>1. LoopInv => HeartbeatGap
  <2> SUFFICES ASSUME LoopInv, loop.pc # "ended" PROVE silence <= MaxGap
    BY DEF HeartbeatGap
  <2>1. loop \in LoopState /\ silence \in 0..(MaxGap + 1)
    BY Types
  <2>2. CASE loop.pc \in {"look", "report", "beat"}
    <3>1. loop.since <= LocalTime + 2 * CallTime
      BY <2>1, <2>2, GapType DEF LoopInv, Progresses, Limit, Calls, Local, LoopState
    <3> QED
      BY <2>1, <2>2, <3>1, GapType DEF LoopInv, BeforeBeat, MaxGap, LoopState
  <2>3. CASE loop.pc \in {"beaten", "check", "warn", "sleep"}
    <3>1. /\ loop.pc \in {"beaten", "warn"} => loop.spent <= CallTime
          /\ loop.pc = "check" => loop.spent <= LocalTime
          /\ loop.pc = "sleep" => loop.spent <= 1
      BY <2>1, <2>3, GapType DEF LoopInv, Progresses, Limit, Calls, Local, LoopState
    <3> QED
      BY <2>1, <2>3, <3>1, GapType DEF LoopInv, AfterBeat, MaxGap, LoopState
  <2> QED
    BY <2>1, <2>2, <2>3 DEF LoopState, Calls, Local
<1> QED
  BY InitLoop, LoopStepKeeps, <1>1, PTL DEF AlSpec
-----------------------------------------------------------------------------
(* Libraries: what an entry of the node table says of a node. *)

InstallState == [pc : {"none", "running", "done"}, ok : SUBSET Target,
                 package : Package \cup {"none"}, targets : SUBSET Target,
                 failed : SUBSET Target, all : BOOLEAN]

(* Whatever lists a package was made when pip had it, and pip keeps it. *)
Listed ==
    /\ \A n \in LibNode : table[n].libs \subseteq pip[n] /\ reportCopy[n].libs \subseteq pip[n]
    /\ \A i \in Install, n \in LibNode :
         /\ mergeCopy[i][n].libs \subseteq pip[n]
         /\ mergeCopy[i][n] # NoCopy => install[i].pc # "none"
                                        /\ install[i].package \in mergeCopy[i][n].libs
    /\ \A i \in Install :
         /\ install[i].pc # "none" => install[i].package \in Package
         /\ install[i].all => install[i].targets \subseteq install[i].ok
         /\ \A t \in install[i].ok : install[i].package \in pip[t]

(* Who replaces an entry of which no replacement crossed has read all that
   was in it: the newest resources, and the packages of the calls that ended. *)
Fresh ==
    \A n \in LibNode \ raced :
        /\ IF reportCopy[n] = NoCopy
           THEN /\ table[n].res = latest[n]
                /\ \A i \in Install : mergeCopy[i][n] # NoCopy => mergeCopy[i][n].res = latest[n]
           ELSE reportCopy[n].res = latest[n]
        /\ \A i \in Install : n \in install[i].ok =>
             /\ install[i].package \in table[n].libs
             /\ reportCopy[n] # NoCopy => install[i].package \in reportCopy[n].libs
             /\ \A k \in Install : mergeCopy[k][n] # NoCopy =>
                                     install[i].package \in mergeCopy[k][n].libs

LibInv == LibTypeOK /\ Listed /\ Fresh

(* The types, as memberships. *)
LEMMA LibTypes == LibTypeOK <=>
    /\ table \in [LibNode -> LibEntry] /\ pip \in [Target -> SUBSET Package]
    /\ latest \in [LibNode -> Snapshot] /\ reportCopy \in [LibNode -> LibEntry]
    /\ mergeCopy \in [Install -> [LibNode -> LibEntry]]
    /\ install \in [Install -> InstallState]
    /\ raced \subseteq LibNode /\ restarts \in 0..Restarts
BY DEF LibTypeOK, InstallState

(* A node is a target, and the driver is none of the nodes. *)
LEMMA Targets == LibNode \subseteq Target /\ DriverItself \in Target \ LibNode
                 /\ \A t \in Target : t # DriverItself => t \in LibNode
BY LibAssumption DEF Target

(* No copy tells nothing, and no entry that tells something is one. *)
LEMMA NoCopyType == NoCopy \in LibEntry /\ NoCopy.libs = {}
                    /\ \A e \in LibEntry : e.res \in Snapshot \/ e.libs # {} => e # NoCopy
BY LibAssumption DEF NoCopy, LibEntry

(* Before any installation. *)
LEMMA InitLibraries == LibInit => LibInv
<1> SUFFICES ASSUME LibInit PROVE LibInv
  OBVIOUS
<1>1. /\ \A n \in LibNode : reportCopy[n] = NoCopy
      /\ \A i \in Install, n \in LibNode : mergeCopy[i][n] = NoCopy
      /\ \A i \in Install : install[i] = NotCalled
  BY DEF LibInit
<1>2. LibTypeOK
  <2>1. NotCalled \in InstallState
    BY DEF NotCalled, InstallState
  <2>2. table \in [LibNode -> LibEntry]
    BY DEF LibInit, LibEntry
  <2>3. raced \subseteq LibNode /\ restarts \in 0..Restarts
    BY LibAssumption DEF LibInit
  <2> QED
    BY <2>1, <2>2, <2>3, NoCopyType, LibTypes DEF LibInit
<1>3. /\ \A n \in LibNode : table[n].res = latest[n] /\ table[n].libs = {}
      /\ \A i \in Install : install[i].pc = "none" /\ install[i].ok = {} /\ ~install[i].all
  <2>1. NotCalled.pc = "none" /\ NotCalled.ok = {} /\ ~NotCalled.all
    BY DEF NotCalled
  <2>2. \A n \in LibNode : table[n].res = latest[n] /\ table[n].libs = {}
    BY DEF LibInit
  <2> QED
    BY <1>1, <2>1, <2>2
<1>4. Listed
  BY <1>1, <1>3, NoCopyType DEF Listed
<1>5. Fresh
  BY <1>1, <1>3 DEF Fresh
<1> QED
  BY <1>2, <1>4, <1>5 DEF LibInv

(* Reading an entry keeps what it lists. *)
LEMMA ReadKeeps ==
    ASSUME LibInv, NEW n \in LibNode, NEW r \in Snapshot, ReportRead(n, r) PROVE LibInv'
<1>1. /\ latest' = [latest EXCEPT ![n] = r] /\ reportCopy[n] = NoCopy
      /\ reportCopy' = [reportCopy EXCEPT ![n] = [table[n] EXCEPT !.res = r]]
      /\ UNCHANGED <<table, pip, install, mergeCopy, raced, restarts>>
  BY DEF ReportRead
<1>2. /\ [table[n] EXCEPT !.res = r] \in LibEntry
      /\ [table[n] EXCEPT !.res = r].res = r /\ [table[n] EXCEPT !.res = r].libs = table[n].libs
  BY LibTypes DEF LibInv, LibEntry
<1>3. /\ reportCopy' \in [LibNode -> LibEntry] /\ reportCopy'[n].res = r
      /\ reportCopy'[n].libs = table[n].libs /\ reportCopy'[n] # NoCopy
      /\ \A m \in LibNode : m # n => reportCopy'[m] = reportCopy[m]
  BY <1>1, <1>2, LibTypes, NoCopyType DEF LibInv
<1>4. /\ latest' \in [LibNode -> Snapshot] /\ latest'[n] = r
      /\ \A m \in LibNode : m # n => latest'[m] = latest[m]
  BY <1>1, LibTypes DEF LibInv
<1>5. LibTypeOK'
  BY <1>1, <1>3, <1>4 DEF LibInv, LibTypeOK
<1>6. Listed'
  BY <1>1, <1>3 DEF LibInv, Listed
<1>7. Fresh'
  BY <1>1, <1>3, <1>4 DEF LibInv, Fresh
<1> QED
  BY <1>5, <1>6, <1>7 DEF LibInv

(* Writing a report back lists what was read. *)
LEMMA WriteKeeps == ASSUME LibInv, NEW n \in LibNode, ReportWrite(n) PROVE LibInv'
<1>1. /\ table' = [table EXCEPT ![n] = reportCopy[n]] /\ reportCopy[n] # NoCopy
      /\ reportCopy' = [reportCopy EXCEPT ![n] = NoCopy]
      /\ raced' = IF \E i \in Install : mergeCopy[i][n] # NoCopy THEN raced \cup {n} ELSE raced
      /\ UNCHANGED <<pip, latest, install, mergeCopy, restarts>>
  BY DEF ReportWrite
<1>2. /\ table' \in [LibNode -> LibEntry] /\ table'[n] = reportCopy[n]
      /\ \A m \in LibNode : m # n => table'[m] = table[m]
      /\ reportCopy' \in [LibNode -> LibEntry] /\ reportCopy'[n] = NoCopy
      /\ \A m \in LibNode : m # n => reportCopy'[m] = reportCopy[m]
  BY <1>1, LibTypes, NoCopyType DEF LibInv
<1>3. /\ raced \subseteq raced' /\ raced' \subseteq LibNode
      /\ n \notin raced' => \A i \in Install : mergeCopy[i][n] = NoCopy
  BY <1>1, LibTypes DEF LibInv
<1>4. LibTypeOK'
  BY <1>1, <1>2, <1>3 DEF LibInv, LibTypeOK
<1>5. Listed'
  BY <1>1, <1>2, NoCopyType DEF LibInv, Listed
<1>6. Fresh'
  BY <1>1, <1>2, <1>3 DEF LibInv, Fresh
<1> QED
  BY <1>4, <1>5, <1>6 DEF LibInv

(* An agent that registers again makes an entry of its own. *)
LEMMA RegisterKeeps ==
    ASSUME LibInv, NEW n \in LibNode, NEW r \in Snapshot, LibRegister(n, r) PROVE LibInv'
<1>1. /\ latest' = [latest EXCEPT ![n] = r]
      /\ table' = [table EXCEPT ![n] = [res |-> r, libs |-> pip[n]]]
      /\ raced' = IF Copied(n) THEN raced \cup {n} ELSE raced
      /\ restarts < Restarts /\ restarts' = restarts + 1
      /\ UNCHANGED <<pip, reportCopy, install, mergeCopy>>
  BY DEF LibRegister, Registered
<1>2. pip[n] \subseteq Package
  BY LibTypes, Targets DEF LibInv
<1>3. /\ table' \in [LibNode -> LibEntry] /\ table'[n] = [res |-> r, libs |-> pip[n]]
      /\ \A m \in LibNode : m # n => table'[m] = table[m]
  <2>1. [res |-> r, libs |-> pip[n]] \in LibEntry
    BY <1>2 DEF LibEntry
  <2> QED
    BY <1>1, <2>1, LibTypes DEF LibInv
<1>4. /\ latest' \in [LibNode -> Snapshot] /\ latest'[n] = r
      /\ \A m \in LibNode : m # n => latest'[m] = latest[m]
  BY <1>1, LibTypes DEF LibInv
<1>5. /\ raced \subseteq raced' /\ raced' \subseteq LibNode
      /\ n \notin raced' => reportCopy[n] = NoCopy /\ \A i \in Install : mergeCopy[i][n] = NoCopy
  BY <1>1, LibTypes DEF LibInv, Copied
<1>6. restarts' \in 0..Restarts
  BY <1>1, LibTypes, LibAssumption DEF LibInv
<1>7. LibTypeOK'
  BY <1>1, <1>3, <1>4, <1>5, <1>6 DEF LibInv, LibTypeOK
<1>8. Listed'
  BY <1>1, <1>3 DEF LibInv, Listed
<1>9. Fresh'
  <2> SUFFICES ASSUME NEW m \in LibNode \ raced'
               PROVE  /\ IF reportCopy[m] = NoCopy
                         THEN /\ table'[m].res = latest'[m]
                              /\ \A i \in Install : mergeCopy[i][m] # NoCopy =>
                                                      mergeCopy[i][m].res = latest'[m]
                         ELSE reportCopy[m].res = latest'[m]
                      /\ \A i \in Install : m \in install[i].ok =>
                           /\ install[i].package \in table'[m].libs
                           /\ reportCopy[m] # NoCopy => install[i].package \in reportCopy[m].libs
                           /\ \A k \in Install : mergeCopy[k][m] # NoCopy =>
                                install[i].package \in mergeCopy[k][m].libs
    BY <1>1 DEF Fresh
  <2>1. CASE m = n
    BY <1>3, <1>4, <1>5, <2>1 DEF LibInv, Listed
  <2>2. CASE m # n
    BY <1>3, <1>4, <1>5, <2>2 DEF LibInv, Fresh
  <2> QED
    BY <2>1, <2>2
<1> QED
  BY <1>7, <1>8, <1>9 DEF LibInv

(* A step of an installation is about no other installation. *)
LEMMA OneCall ==
    ASSUME LibTypeOK, NEW i \in Install, NEW d \in InstallState,
           install' = [install EXCEPT ![i] = d]
    PROVE  /\ install' \in [Install -> InstallState] /\ install'[i] = d
           /\ \A j \in Install : j # i => install'[j] = install[j]
BY LibTypes

(* An installation starts with its targets. *)
LEMMA AskKeeps ==
    ASSUME LibInv, NEW i \in Install, NEW p \in Package, NEW nodes \in SUBSET LibNode,
           NEW withDriver \in BOOLEAN, AskInstall(i, p, nodes, withDriver)
    PROVE  LibInv'
<1>1. /\ install[i] = NotCalled
      /\ UNCHANGED <<table, pip, latest, reportCopy, mergeCopy, raced, restarts>>
  BY DEF AskInstall
<1>2. PICK targets \in SUBSET Target, pc \in {"running", "done"} :
        install' = [install EXCEPT ![i] = [NotCalled EXCEPT !.package = p, !.targets = targets,
                                                            !.pc = pc]]
  BY Targets DEF AskInstall
<1>3. /\ install' \in [Install -> InstallState]
      /\ install'[i].ok = {} /\ ~install'[i].all /\ install'[i].package = p
      /\ \A j \in Install : j # i => install'[j] = install[j]
  <2> DEFINE call == [NotCalled EXCEPT !.package = p, !.targets = targets, !.pc = pc]
  <2>1. /\ call \in InstallState /\ call.ok = {} /\ ~call.all /\ call.package = p
    BY DEF InstallState, NotCalled
  <2> HIDE DEF call
  <2>2. install' = [install EXCEPT ![i] = call]
    BY <1>2 DEF call
  <2> QED
    BY <2>1, <2>2, OneCall DEF LibInv
<1>4. \A n \in LibNode : mergeCopy[i][n] = NoCopy
  BY <1>1 DEF LibInv, Listed, NotCalled
<1>5. LibTypeOK'
  BY <1>1, <1>3, LibTypes DEF LibInv, LibTypeOK, InstallState
<1>6. Listed'
  BY <1>1, <1>3, <1>4 DEF LibInv, Listed
<1>7. Fresh'
  BY <1>1, <1>3 DEF LibInv, Fresh
<1> QED
  BY <1>5, <1>6, <1>7 DEF LibInv

(* pip keeps what it has, and an answer of the driver is about no entry. *)
LEMMA PipKeeps ==
    ASSUME LibInv, NEW i \in Install, NEW t \in Target, Asked(i, t),
           pip' \in [Target -> SUBSET Package], \A u \in Target : pip[u] \subseteq pip'[u],
           NEW ok \in SUBSET {DriverItself}, NEW failed \in SUBSET Target,
           install' = [install EXCEPT ![i].ok = install[i].ok \cup ok, ![i].failed = failed],
           ok # {} => install[i].package \in pip'[DriverItself],
           UNCHANGED <<table, latest, reportCopy, mergeCopy, raced, restarts>>
    PROVE  LibInv'
<1>1. /\ install' \in [Install -> InstallState] /\ install'[i].ok = install[i].ok \cup ok
      /\ \A j \in Install : /\ install'[j].pc = install[j].pc
                            /\ install'[j].package = install[j].package
                            /\ install'[j].targets = install[j].targets
                            /\ install'[j].all = install[j].all
      /\ \A j \in Install : j # i => install'[j].ok = install[j].ok
  <2> DEFINE call == [install[i] EXCEPT !.ok = install[i].ok \cup ok, !.failed = failed]
  <2>1. install[i] \in InstallState /\ install[i].ok \cup ok \in SUBSET Target
    BY LibTypes, Targets DEF LibInv, InstallState
  <2>2. /\ call \in InstallState /\ call.ok = install[i].ok \cup ok
        /\ call.pc = install[i].pc /\ call.package = install[i].package
        /\ call.targets = install[i].targets /\ call.all = install[i].all
    BY <2>1 DEF InstallState
  <2>3. install' = [install EXCEPT ![i] = call]
    BY LibTypes DEF LibInv
  <2> HIDE DEF call
  <2> QED
    BY <2>2, <2>3, OneCall DEF LibInv
<1>2. LibTypeOK'
  BY <1>1, LibTypes DEF LibInv, LibTypeOK, InstallState
<1>3. \A j \in Install : install[j].ok \subseteq Target
  BY LibTypes DEF LibInv, InstallState
<1>4. Listed'
  <2>1. \A j \in Install : \A u \in install'[j].ok : install'[j].package \in pip'[u]
    BY <1>1, <1>3 DEF LibInv, Listed
  <2> QED
    BY <1>1, <2>1, Targets DEF LibInv, Listed
<1>5. Fresh'
  <2>1. \A j \in Install, n \in LibNode : n \in install'[j].ok <=> n \in install[j].ok
    BY <1>1, Targets
  <2> QED
    BY <1>1, <2>1 DEF LibInv, Fresh
<1> QED
  BY <1>2, <1>4, <1>5 DEF LibInv

(* pip fails, or the call does, and nothing is listed. *)
LEMMA FailKeeps ==
    ASSUME LibInv, NEW i \in Install, NEW t \in Target, NEW installed \in BOOLEAN,
           InstallFails(i, t, installed)
    PROVE  LibInv'
<1>1. install[i].package \in Package
  BY DEF InstallFails, Asked, LibInv, Listed
<1>2. pip' \in [Target -> SUBSET Package] /\ \A u \in Target : pip[u] \subseteq pip'[u]
  BY <1>1, LibTypes DEF InstallFails, LibInv
<1>3. install[i] \in InstallState
  BY LibTypes DEF LibInv
<1>4. install' = [install EXCEPT ![i].ok = install[i].ok \cup {},
                                 ![i].failed = install[i].failed \cup {t}]
  BY <1>3, LibTypes DEF InstallFails, LibInv, InstallState
<1>5. install[i].failed \cup {t} \in SUBSET Target
  BY <1>3 DEF InstallState
<1> QED
  BY <1>2, <1>4, <1>5, PipKeeps DEF InstallFails

(* The answer of an agent leads to a copy of its entry with the package. *)
LEMMA PipInstallsKeeps ==
    ASSUME LibInv, NEW i \in Install, NEW t \in Target, PipInstalls(i, t) PROVE LibInv'
<1>1. install[i].package \in Package /\ install[i].pc # "none"
  BY DEF PipInstalls, Asked, LibInv, Listed
<1>2. /\ pip' \in [Target -> SUBSET Package] /\ \A u \in Target : pip[u] \subseteq pip'[u]
      /\ install[i].package \in pip'[t]
  BY <1>1, LibTypes DEF PipInstalls, LibInv
<1>3. CASE t = DriverItself
  <2>1. install[i] \in InstallState
    BY LibTypes DEF LibInv
  <2>2. install' = [install EXCEPT ![i].ok = install[i].ok \cup {DriverItself},
                                   ![i].failed = install[i].failed]
    BY <1>3, <2>1, LibTypes DEF PipInstalls, LibInv, InstallState
  <2>3. install[i].failed \in SUBSET Target
    BY <2>1 DEF InstallState
  <2> QED
    BY <1>2, <1>3, <2>2, <2>3, PipKeeps DEF PipInstalls
<1>4. CASE t # DriverItself
  <2>1. t \in LibNode
    BY <1>4, Targets
  <2> DEFINE copy == [table[t] EXCEPT !.libs = table[t].libs \cup {install[i].package}]
  <2>2. /\ mergeCopy' = [mergeCopy EXCEPT ![i][t] = copy]
        /\ UNCHANGED <<table, latest, reportCopy, install, raced, restarts>>
    BY <1>4 DEF PipInstalls
  <2>3. /\ copy \in LibEntry /\ copy.res = table[t].res
        /\ copy.libs = table[t].libs \cup {install[i].package}
    BY <1>1, <2>1, LibTypes DEF LibInv, LibEntry
  <2>4. /\ mergeCopy' \in [Install -> [LibNode -> LibEntry]] /\ mergeCopy'[i][t] = copy
        /\ \A j \in Install, n \in LibNode : j # i \/ n # t => mergeCopy'[j][n] = mergeCopy[j][n]
    BY <2>1, <2>2, <2>3, LibTypes DEF LibInv
  <2>5. LibTypeOK'
    BY <1>2, <2>2, <2>4 DEF LibInv, LibTypeOK
  <2>6. Listed'
    <3>1. copy.libs \subseteq pip'[t]
      BY <1>2, <2>1, <2>3, Targets DEF LibInv, Listed
    <3>2. \A j \in Install : install[j].ok \subseteq Target
      BY LibTypes DEF LibInv, InstallState
    <3>3. \A j \in Install, n \in LibNode :
            /\ mergeCopy'[j][n].libs \subseteq pip'[n]
            /\ mergeCopy'[j][n] # NoCopy => install[j].pc # "none"
                                            /\ install[j].package \in mergeCopy'[j][n].libs
      <4> SUFFICES ASSUME NEW j \in Install, NEW n \in LibNode
                   PROVE  /\ mergeCopy'[j][n].libs \subseteq pip'[n]
                          /\ mergeCopy'[j][n] # NoCopy =>
                               /\ install[j].pc # "none"
                               /\ install[j].package \in mergeCopy'[j][n].libs
        OBVIOUS
      <4>1. CASE j = i /\ n = t
        BY <1>1, <2>3, <2>4, <3>1, <4>1
      <4>2. CASE j # i \/ n # t
        <5>1. mergeCopy'[j][n] = mergeCopy[j][n] /\ pip[n] \subseteq pip'[n]
          BY <1>2, <2>4, <4>2, Targets
        <5> QED
          BY <5>1 DEF LibInv, Listed
      <4> QED
        BY <4>1, <4>2
    <3> QED
      BY <1>2, <2>2, <3>2, <3>3, Targets DEF LibInv, Listed
  <2>7. Fresh'
    <3> SUFFICES ASSUME NEW n \in LibNode \ raced, NEW k \in Install, mergeCopy'[k][n] # NoCopy
                 PROVE  /\ reportCopy[n] = NoCopy => mergeCopy'[k][n].res = latest[n]
                        /\ \A j \in Install : n \in install[j].ok =>
                             install[j].package \in mergeCopy'[k][n].libs
      BY <2>2 DEF LibInv, Fresh
    <3>1. CASE k = i /\ n = t
      BY <2>3, <2>4, <3>1 DEF LibInv, Fresh
    <3>2. CASE k # i \/ n # t
      BY <2>4, <3>2 DEF LibInv, Fresh
    <3> QED
      BY <3>1, <3>2
  <2> QED
    BY <2>5, <2>6, <2>7 DEF LibInv
<1> QED
  BY <1>3, <1>4

(* Merging lists what pip has installed. *)
LEMMA MergeKeeps ==
    ASSUME LibInv, NEW i \in Install, NEW n \in LibNode, MergeWrite(i, n) PROVE LibInv'
<1>1. /\ mergeCopy[i][n] # NoCopy /\ table' = [table EXCEPT ![n] = mergeCopy[i][n]]
      /\ mergeCopy' = [mergeCopy EXCEPT ![i][n] = NoCopy]
      /\ raced' = IF OthersCopied(i, n) THEN raced \cup {n} ELSE raced
      /\ install' = [install EXCEPT ![i].ok = install[i].ok \cup {n}]
      /\ UNCHANGED <<pip, latest, reportCopy, restarts>>
  BY DEF MergeWrite
<1>2. /\ table' \in [LibNode -> LibEntry] /\ table'[n] = mergeCopy[i][n]
      /\ \A m \in LibNode : m # n => table'[m] = table[m]
  BY <1>1, LibTypes DEF LibInv
<1>3. /\ mergeCopy' \in [Install -> [LibNode -> LibEntry]] /\ mergeCopy'[i][n] = NoCopy
      /\ \A j \in Install, m \in LibNode : j # i \/ m # n => mergeCopy'[j][m] = mergeCopy[j][m]
  BY <1>1, LibTypes, NoCopyType DEF LibInv
<1>4. /\ install' \in [Install -> InstallState] /\ install'[i].ok = install[i].ok \cup {n}
      /\ \A j \in Install : /\ install'[j].pc = install[j].pc
                            /\ install'[j].package = install[j].package
                            /\ install'[j].targets = install[j].targets
                            /\ install'[j].all = install[j].all
      /\ \A j \in Install : j # i => install'[j].ok = install[j].ok
  <2> DEFINE call == [install[i] EXCEPT !.ok = install[i].ok \cup {n}]
  <2>1. install[i] \in InstallState /\ install[i].ok \cup {n} \in SUBSET Target
    BY LibTypes, Targets DEF LibInv, InstallState
  <2>2. /\ call \in InstallState /\ call.ok = install[i].ok \cup {n}
        /\ call.pc = install[i].pc /\ call.package = install[i].package
        /\ call.targets = install[i].targets /\ call.all = install[i].all
    BY <2>1 DEF InstallState
  <2>3. install' = [install EXCEPT ![i] = call]
    BY <1>1
  <2> HIDE DEF call
  <2> QED
    BY <2>2, <2>3, OneCall DEF LibInv
<1>5. /\ raced \subseteq raced' /\ raced' \subseteq LibNode
      /\ n \notin raced' => /\ reportCopy[n] = NoCopy
                            /\ \A k \in Install : k # i => mergeCopy[k][n] = NoCopy
  BY <1>1, LibTypes DEF LibInv, OthersCopied
<1>6. install[i].package \in mergeCopy[i][n].libs /\ mergeCopy[i][n].libs \subseteq pip[n]
  BY <1>1 DEF LibInv, Listed
<1>7. LibTypeOK'
  BY <1>1, <1>2, <1>3, <1>4, <1>5, LibTypes DEF LibInv, LibTypeOK, InstallState
<1>8. Listed'
  <2>1. \A m \in LibNode : table'[m].libs \subseteq pip[m]
    BY <1>2, <1>6 DEF LibInv, Listed
  <2>2. \A j \in Install, m \in LibNode :
          /\ mergeCopy'[j][m].libs \subseteq pip[m]
          /\ mergeCopy'[j][m] # NoCopy => install[j].pc # "none"
                                          /\ install[j].package \in mergeCopy'[j][m].libs
    BY <1>3, NoCopyType DEF LibInv, Listed
  <2>3. \A j \in Install : /\ \A t \in install'[j].ok : install[j].package \in pip[t]
                           /\ install[j].all => install[j].targets \subseteq install'[j].ok
    BY <1>4, <1>6 DEF LibInv, Listed
  <2> QED
    BY <1>1, <1>4, <2>1, <2>2, <2>3 DEF LibInv, Listed
<1>9. Fresh'
  <2>1. CASE n \in raced'
    <3>1. \A m \in LibNode \ raced' : m # n /\ m \notin raced
      BY <1>5, <2>1
    <3>2. \A j \in Install, m \in LibNode \ raced' : m \in install'[j].ok <=> m \in install[j].ok
      BY <1>4, <3>1
    <3> QED
      BY <1>1, <1>2, <1>3, <1>4, <3>1, <3>2 DEF LibInv, Fresh
  <2>2. CASE n \notin raced'
    <3>1. \A k \in Install : mergeCopy'[k][n] = NoCopy
      BY <1>3, <1>5, <2>2
    <3>2. table'[n].res = latest[n] /\ reportCopy[n] = NoCopy
      BY <1>1, <1>2, <1>5, <2>2 DEF LibInv, Fresh
    <3>3. \A j \in Install : n \in install'[j].ok => install[j].package \in table'[n].libs
      BY <1>1, <1>2, <1>4, <1>5, <1>6, <2>2 DEF LibInv, Fresh
    <3>4. \A j \in Install, m \in LibNode : m # n => (m \in install'[j].ok <=> m \in install[j].ok)
      BY <1>4
    <3> QED
      BY <1>1, <1>2, <1>3, <1>4, <1>5, <3>1, <3>2, <3>3, <3>4 DEF LibInv, Fresh
  <2> QED
    BY <2>1, <2>2
<1> QED
  BY <1>7, <1>8, <1>9 DEF LibInv

(* The summary is of what was answered. *)
LEMMA SummaryKeeps == ASSUME LibInv, NEW i \in Install, Summary(i) PROVE LibInv'
<1>1. /\ install[i].pc = "running"
      /\ install' = [install EXCEPT ![i].pc = "done", ![i].all = AllOk(i)]
      /\ UNCHANGED <<table, pip, latest, reportCopy, mergeCopy, raced, restarts>>
  BY DEF Summary
<1>2. /\ install' \in [Install -> InstallState] /\ install'[i].pc = "done"
      /\ install'[i].all = AllOk(i)
      /\ \A j \in Install : /\ install'[j].ok = install[j].ok
                            /\ install'[j].package = install[j].package
                            /\ install'[j].targets = install[j].targets
      /\ \A j \in Install : j # i => install'[j] = install[j]
  <2>1. AllOk(i) \in BOOLEAN
    BY DEF AllOk
  <2> DEFINE call == [install[i] EXCEPT !.pc = "done", !.all = AllOk(i)]
  <2>2. install[i] \in InstallState
    BY LibTypes DEF LibInv
  <2>3. /\ call \in InstallState /\ call.ok = install[i].ok /\ call.pc = "done"
        /\ call.package = install[i].package /\ call.targets = install[i].targets
        /\ call.all = AllOk(i)
    BY <2>1, <2>2 DEF InstallState
  <2>4. install' = [install EXCEPT ![i] = call]
    BY <1>1, LibTypes DEF LibInv
  <2> HIDE DEF call
  <2> QED
    BY <2>3, <2>4, OneCall DEF LibInv
<1>3. LibTypeOK'
  BY <1>1, <1>2, LibTypes DEF LibInv, LibTypeOK, InstallState
<1>4. Listed'
  <2>1. \A j \in Install : install'[j].all => install[j].targets \subseteq install[j].ok
    BY <1>2 DEF LibInv, Listed, AllOk
  <2>2. \A j \in Install : install[j].pc # "none" => install'[j].pc # "none"
    BY <1>2
  <2>3. \A j \in Install : install'[j].pc # "none" => install[j].package \in Package
    BY <1>1, <1>2 DEF LibInv, Listed
  <2> QED
    BY <1>1, <1>2, <2>1, <2>2, <2>3 DEF LibInv, Listed
<1>5. Fresh'
  BY <1>1, <1>2 DEF LibInv, Fresh
<1> QED
  BY <1>3, <1>4, <1>5 DEF LibInv

(* One step of each kind. *)
LEMMA LibStepKeeps == LibInv /\ [LibNext]_libVars => LibInv'
<1> SUFFICES ASSUME LibInv, [LibNext]_libVars PROVE LibInv'
  OBVIOUS
<1>1. ASSUME NEW n \in LibNode, NEW r \in Snapshot, ReportRead(n, r) \/ LibRegister(n, r)
      PROVE  LibInv'
  BY <1>1, ReadKeeps, RegisterKeeps
<1>2. ASSUME NEW n \in LibNode, ReportWrite(n) PROVE LibInv'
  BY <1>2, WriteKeeps
<1>3. ASSUME NEW i \in Install, NEW p \in Package, NEW nodes \in SUBSET LibNode,
             NEW withDriver \in BOOLEAN, AskInstall(i, p, nodes, withDriver)
      PROVE  LibInv'
  BY <1>3, AskKeeps
<1>4. ASSUME NEW i \in Install, NEW t \in Target, NEW installed \in BOOLEAN,
             PipInstalls(i, t) \/ InstallFails(i, t, installed)
      PROVE  LibInv'
  BY <1>4, PipInstallsKeeps, FailKeeps
<1>5. ASSUME NEW i \in Install, NEW n \in LibNode, MergeWrite(i, n) PROVE LibInv'
  BY <1>5, MergeKeeps
<1>6. ASSUME NEW i \in Install, Summary(i) PROVE LibInv'
  BY <1>6, SummaryKeeps
<1>7. CASE UNCHANGED libVars
  BY <1>7 DEF libVars, LibInv, LibTypeOK, Listed, Fresh
<1> QED
  BY <1>1, <1>2, <1>3, <1>4, <1>5, <1>6, <1>7 DEF LibNext

(* The variables of the node table and of the installations keep their types. *)
THEOREM LibrariesTypeCorrect == LibSpec => []LibTypeOK
<1>1. LibInv => LibTypeOK
  BY DEF LibInv
<1> QED
  BY InitLibraries, LibStepKeeps, <1>1, PTL DEF LibSpec

(* An entry that nobody is replacing is up to date, unless two replacements of
   it crossed. *)
THEOREM EntriesCurrent == LibSpec => []EntryCurrent
<1>1. LibInv => EntryCurrent
  BY DEF LibInv, Fresh, EntryCurrent, Copied
<1> QED
  BY InitLibraries, LibStepKeeps, <1>1, PTL DEF LibSpec

(* What an installation or an entry says is installed is installed. *)
THEOREM InstallsTruthful == LibSpec => []InstallTruthful
<1>1. LibInv => InstallTruthful
  BY DEF LibInv, Listed, InstallTruthful
<1> QED
  BY InitLibraries, LibStepKeeps, <1>1, PTL DEF LibSpec
-----------------------------------------------------------------------------
(* Placement: recursion over the replicas, and the best of finitely many. *)

PlNodeState == [preemptible : BOOLEAN, sample : PlReport, health : {Healthy, "SUSPECTED", "DEAD"}]
Known == DOMAIN known \subseteq PlNode /\ \A n \in DOMAIN known : known[n] \in PlNodeState

(* Scores are numbers up to 1000 units, which two nodes may share. *)
LEMMA ScoreBounded ==
    ASSUME Known, NEW n \in DOMAIN known, NEW job \in PlJob
    PROVE  Score(n, job) \in 0..(1000 * PlUnits)
<1> DEFINE r == known[n].sample
           g == IF ~job.gpu \/ r.gpu = "cuda" THEN 150 ELSE 0
           p == IF known[n].preemptible THEN 105 ELSE 135
<1>1. r.cores \in 0..PlUnits /\ r.ram \in 0..PlUnits /\ PlUnits \in Nat
  BY PlacementAssumption DEF Known, PlNodeState
<1>2. Score(n, job) = 350 * r.cores + 250 * r.ram + PlUnits * (g + p + 100)
  BY DEF Score
<1>3. g \in {0, 150} /\ p \in {105, 135}
  OBVIOUS
<1> HIDE DEF r, g, p
<1>4. PlUnits * (g + p + 100) \in 0..(400 * PlUnits)
  <2>1. CASE g = 0 /\ p = 105
    BY <1>1, <2>1
  <2>2. CASE g = 0 /\ p = 135
    BY <1>1, <2>2
  <2>3. CASE g = 150 /\ p = 105
    BY <1>1, <2>3
  <2>4. CASE g = 150 /\ p = 135
    BY <1>1, <2>4
  <2>. QED
    BY <1>3, <2>1, <2>2, <2>3, <2>4
<1>. QED
  BY <1>1, <1>2, <1>4

(* place chooses an eligible node that meets the requirements, if there is one:
   of finitely many scores one is the highest, of equal ones one name is first. *)
LEMMA PlaceChooses ==
    ASSUME Known, NEW job \in PlJob, NEW nodes
    PROVE  LET candidates == {n \in Eligible(job.pool) \cap nodes : Meets(n, job)}
           IN  IF candidates = {} THEN Place(job, nodes) = NoNode
               ELSE Place(job, nodes) \in candidates
<1> DEFINE C == {n \in Eligible(job.pool) \cap nodes : Meets(n, job)}
           S(n) == Score(n, job)
           top == 1000 * PlUnits
<1>1. C \subseteq DOMAIN known /\ DOMAIN known \subseteq Nat
      /\ \A n \in C : S(n) \in 0..top /\ S(n) \in Nat /\ top - S(n) \in Nat
  <2>1. C \subseteq DOMAIN known /\ DOMAIN known \subseteq Nat
    BY PlacementAssumption DEF Eligible, Known
  <2>2. top \in Nat
    BY PlacementAssumption
  <2>. QED
    BY <2>1, <2>2, ScoreBounded
<1>2. CASE C = {}
  BY <1>2 DEF Place
<1>3. CASE C # {}
  <2> DEFINE T == {top - S(n) : n \in C}
  <2> HIDE DEF S, top, C
  <2>1. PICK t \in T : \A y \in T : t <= y
    BY <1>1, <1>3, Least
  <2>2. PICK b \in C : t = top - S(b)
    BY <2>1
  <2>3. \A n \in C : S(n) <= S(b)
    <3>1. ASSUME NEW n \in C PROVE S(n) <= S(b)
      <4>1. top - S(n) \in T
        OBVIOUS
      <4>2. top - S(b) <= top - S(n)
        BY <2>1, <2>2, <4>1
      <4>3. top - S(n) \in Nat /\ top - S(b) \in Nat /\ S(n) \in 0..top /\ S(b) \in 0..top
            /\ top \in Nat
        BY <1>1, PlacementAssumption DEF top
      <4> HIDE DEF T
      <4>. QED
        BY <4>2, <4>3
    <3>. QED
      BY <3>1
  <2> DEFINE D == {n \in C : S(n) = S(b)}
  <2>4. D \subseteq Nat /\ D # {}
    BY <1>1, <2>2
  <2>5. PICK a \in D : \A y \in D : a <= y
    BY <2>4, Least
  <2>6. a \in C /\ \A m \in C \ {a} : Better(a, m, job)
    <3>1. ASSUME NEW m \in C \ {a} PROVE Better(a, m, job)
      <4>1. S(m) <= S(a) /\ S(m) \in Nat /\ S(a) \in Nat /\ m \in Nat /\ a \in Nat
        BY <1>1, <2>3, <2>5
      <4>2. CASE S(m) = S(a)
        BY <2>5, <4>1, <4>2 DEF Better, S
      <4>3. CASE S(m) < S(a)
        BY <4>1, <4>3 DEF Better, S
      <4>. QED
        BY <4>1, <4>2, <4>3
    <3>. QED
      BY <2>5, <3>1
  <2>7. Place(job, nodes) = CHOOSE n \in C : \A m \in C \ {n} : Better(n, m, job)
    BY <1>3 DEF Place, C
  <2>. QED
    BY <1>3, <2>6, <2>7 DEF C
<1>. QED
  BY <1>2, <1>3

(* What suits by what the driver knows suits by what the agent has measured. *)
LEMMA MeetsSuits ==
    ASSUME Known, hour \in 0..23, NEW job \in PlJob, NEW n \in Eligible(job.pool), Meets(n, job)
    PROVE  Suits(n, job)
<1>1. n \in DOMAIN known /\ known[n] \in PlNodeState
  BY DEF Eligible, Known
<1>2. known[n].sample.battery \in 0..100 \cup {NoBattery} /\ job.battery \in 0..100
      /\ job.pool \in {"any", "CPU", "MEMORY", "GPU", "NIGHT"}
  BY <1>1, PlacementAssumption DEF PlNodeState
<1>3. /\ known[n].sample.battery \notin {0, NoBattery} => Battery(n) = known[n].sample.battery
      /\ Battery(n) >= job.battery
  BY <1>2 DEF Battery, Received, Meets
<1>4. job.pool # "any" =>
        /\ Battery(n) >= 60
        /\ job.pool = "NIGHT" => IsNight /\ known[n].preemptible
        /\ job.pool = "GPU" => known[n].sample.gpu = "cuda"
        /\ job.pool = "CPU" => ~known[n].preemptible
  BY <1>2 DEF Eligible, PassesBatteryGate
<1>5. IsNight => hour \notin 8..17
  BY DEF IsNight
<1>. QED
  BY <1>2, <1>3, <1>4, <1>5 DEF Suits, Meets

(* NodesFor, replica by replica: what the function gives for k replicas. *)
Unused(nodes) ==
    LET unused == LiveNodes \ Used(nodes) IN IF unused = {} THEN LiveNodes ELSE unused
Chosen(job, nodes) == Append(nodes, Place(job, Unused(nodes)))
Replicas(f, job, k) ==
    f = [i \in 0..k |-> IF i = 0 THEN <<>> ELSE Chosen(job, f[i - 1])]

(* There is such a function, for any number of replicas. *)
LEMMA ReplicasExist == ASSUME NEW job, NEW k \in Nat PROVE \E f : Replicas(f, job, k)
<1> DEFINE P == {i \in Nat : \E f : Replicas(f, job, i)}
<1>1. 0 \in P
  <2>1. Replicas([i \in 0..0 |-> <<>>], job, 0)
    BY DEF Replicas
  <2>. QED
    BY <2>1
<1>2. ASSUME NEW n \in Nat, n \in P PROVE n + 1 \in P
  <2>1. PICK f : Replicas(f, job, n)
    BY <1>2
  <2> DEFINE g == [i \in 0..(n + 1) |-> IF i <= n THEN f[i] ELSE Chosen(job, f[n])]
  <2>2. \A i \in 0..(n + 1) : g[i] = IF i = 0 THEN <<>> ELSE Chosen(job, g[i - 1])
    <3>1. \A i \in 0..n : f[i] = IF i = 0 THEN <<>> ELSE Chosen(job, f[i - 1])
      BY <2>1 DEF Replicas
    <3>2. ASSUME NEW i \in 0..(n + 1)
          PROVE  g[i] = IF i = 0 THEN <<>> ELSE Chosen(job, g[i - 1])
      <4>1. CASE i = 0
        BY <3>1, <4>1
      <4>2. CASE i \in 1..n
        <5>1. g[i] = f[i] /\ g[i - 1] = f[i - 1] /\ i \in 0..n
          BY <4>2
        <5> HIDE DEF g
        <5>. QED
          BY <3>1, <4>2, <5>1
      <4>3. CASE i = n + 1
        <5>1. g[i] = Chosen(job, f[n]) /\ g[i - 1] = f[n] /\ i # 0
          BY <4>3
        <5> HIDE DEF g
        <5>. QED
          BY <5>1
      <4>. QED
        BY <4>1, <4>2, <4>3
    <3>. QED
      BY <3>2
  <2>3. Replicas(g, job, n + 1)
    <3>1. g = [i \in 0..(n + 1) |-> g[i]]
      OBVIOUS
    <3> HIDE DEF g
    <3>. QED
      BY <2>2, <3>1 DEF Replicas
  <2>. QED
    BY <2>3
<1> HIDE DEF P
<1>3. Nat \subseteq P
  BY <1>1, <1>2, Induction
<1>. QED
  BY <1>3 DEF P

(* So what the recursion defines is the last of such a function. *)
LEMMA NodesForReplicas ==
    ASSUME NEW job, job.replicas \in Nat
    PROVE  \E f : Replicas(f, job, job.replicas) /\ NodesFor(job) = f[job.replicas]
<1> DEFINE f == CHOOSE g : Replicas(g, job, job.replicas)
<1>1. Replicas(f, job, job.replicas)
  BY ReplicasExist
<1>2. NodesFor(job) = f[job.replicas]
  BY DEF NodesFor, Replicas, Chosen, Unused
<1>. QED
  BY <1>1, <1>2

(* Nodes that suit a job: exactly those that place takes, by MeetsSuits and its
   converse. *)
SuitsNow(job) == {n \in LiveNodes : Suits(n, job)}

(* place takes a suitable node if some is offered. *)
LEMMA PlaceSuits ==
    ASSUME Known, hour \in 0..23, NEW job \in PlJob, NEW nodes
    PROVE  IF SuitsNow(job) \cap nodes = {} THEN Place(job, nodes) = NoNode
           ELSE Place(job, nodes) \in SuitsNow(job) \cap nodes
<1> DEFINE C == {n \in Eligible(job.pool) \cap nodes : Meets(n, job)}
<1>1. ASSUME NEW n \in C PROVE n \in SuitsNow(job) \cap nodes
  <2>1. n \in DOMAIN known /\ known[n].health = Healthy
    BY DEF Eligible, Meets
  <2>2. Suits(n, job)
    BY MeetsSuits
  <2>. QED
    BY <2>1, <2>2 DEF SuitsNow, LiveNodes, Healthy
<1>2. ASSUME NEW n \in SuitsNow(job) \cap nodes PROVE n \in C
  <2>1. n \in DOMAIN known /\ known[n] \in PlNodeState /\ Suits(n, job)
    BY DEF SuitsNow, LiveNodes, Known
  <2>2. known[n].sample.battery \in 0..100 \cup {NoBattery} /\ job.battery \in 0..100
        /\ job.pool \in {"any", "CPU", "MEMORY", "GPU", "NIGHT"}
    BY <2>1, PlacementAssumption DEF PlNodeState
  <2>3. Battery(n) >= job.battery /\ (job.pool # "any" => Battery(n) >= 60)
    BY <2>1, <2>2 DEF Suits, Battery, Received, NoBattery
  <2>4. job.pool = "NIGHT" => IsNight
    BY <2>1 DEF Suits, IsNight
  <2>5. n \in Eligible(job.pool)
    BY <2>1, <2>2, <2>3, <2>4 DEF Eligible, Suits, PassesBatteryGate
  <2>. QED
    BY <2>1, <2>3, <2>5 DEF Suits, Meets
<1>3. C = SuitsNow(job) \cap nodes
  BY <1>1, <1>2
<1>. QED
  BY <1>3, PlaceChooses

(* As long as there are suitable nodes, every replica gets one of its own. *)
EachItsOwn(s, job) ==
    /\ s \in Seq(SuitsNow(job)) /\ Cardinality(Elements(s)) = Len(s)
    /\ \A i, k \in DOMAIN s : s[i] = s[k] => i = k

(* Finitely many nodes suit. *)
LEMMA SuitableNodes ==
    ASSUME Known, IsFiniteSet(DOMAIN known), NEW job \in PlJob
    PROVE  /\ SuitsNow(job) \subseteq LiveNodes /\ SuitsNow(job) \subseteq PlNode
           /\ NoNode \notin SuitsNow(job) /\ IsFiniteSet(SuitsNow(job))
           /\ Cardinality(SuitsNow(job)) \in Nat /\ job.replicas \in Nat \ {0}
<1>1. SuitsNow(job) \in SUBSET DOMAIN known /\ SuitsNow(job) \subseteq LiveNodes
  BY DEF SuitsNow, LiveNodes
<1>2. IsFiniteSet(SuitsNow(job)) /\ Cardinality(SuitsNow(job)) \in Nat
  BY <1>1, FS_Subset, FS_CardinalityType
<1>3. NoNode \notin PlNode /\ job.replicas \in Nat \ {0}
  BY PlacementAssumption
<1>. QED
  BY <1>1, <1>2, <1>3 DEF Known

(* While suitable nodes are unused, the next replica takes one of them. *)
LEMMA NextReplica ==
    ASSUME Known, IsFiniteSet(DOMAIN known), hour \in 0..23, NEW job \in PlJob, NEW s,
           EachItsOwn(s, job), Len(s) < Cardinality(SuitsNow(job))
    PROVE  EachItsOwn(Chosen(job, s), job) /\ Len(Chosen(job, s)) = Len(s) + 1
<1> DEFINE S == SuitsNow(job)
           e == Place(job, Unused(s))
<1>1. S \subseteq LiveNodes /\ NoNode \notin S /\ IsFiniteSet(S) /\ Cardinality(S) \in Nat
  BY SuitableNodes
<1>2. s \in Seq(S) /\ Len(s) \in Nat /\ DOMAIN s = 1..Len(s) /\ Elements(s) \subseteq S
  BY Indices DEF EachItsOwn
<1>3. Used(s) = Elements(s)
  BY <1>1, <1>2 DEF Used, Elements
<1>4. S \cap (LiveNodes \ Used(s)) # {}
  <2>1. Elements(s) # S
    BY <1>1, <1>2 DEF EachItsOwn
  <2>2. PICK x \in S : x \notin Elements(s)
    BY <1>2, <2>1
  <2>. QED
    BY <1>1, <1>3, <2>2
<1>5. Unused(s) = LiveNodes \ Used(s)
  BY <1>4 DEF Unused
<1>6. e \in S /\ e \notin Elements(s)
  BY <1>3, <1>4, <1>5, PlaceSuits
<1> HIDE DEF S, e
<1>7. /\ Append(s, e) \in Seq(S) /\ Len(Append(s, e)) = Len(s) + 1
      /\ Elements(Append(s, e)) = Elements(s) \cup {e}
      /\ DOMAIN Append(s, e) = 1..Len(s) + 1
      /\ \A i \in 1..Len(s) : Append(s, e)[i] = s[i]
      /\ Append(s, e)[Len(s) + 1] = e
  BY <1>2, <1>6, OneMore
<1>8. Cardinality(Elements(Append(s, e))) = Len(s) + 1
  <2>1. IsFiniteSet(Elements(s))
    BY <1>1, <1>2, FS_Subset
  <2>2. Cardinality(Elements(s) \cup {e}) = Cardinality(Elements(s)) + 1
    BY <1>6, <2>1, FS_AddElement
  <2>. QED
    BY <1>7, <2>2 DEF EachItsOwn
<1>9. ASSUME NEW i \in 1..Len(s) + 1, NEW k \in 1..Len(s) + 1,
             Append(s, e)[i] = Append(s, e)[k]
      PROVE  i = k
  <2>1. \A l \in 1..Len(s) : s[l] # e
    BY <1>2, <1>6 DEF Elements
  <2>2. CASE i \in 1..Len(s) /\ k \in 1..Len(s)
    BY <1>2, <1>7, <1>9, <2>2 DEF EachItsOwn
  <2>3. CASE i = Len(s) + 1 \/ k = Len(s) + 1
    BY <1>2, <1>7, <1>9, <2>1, <2>3
  <2>. QED
    BY <1>2, <2>2, <2>3
<1>. QED
  BY <1>7, <1>8, <1>9 DEF EachItsOwn, Chosen, S, e

(* So the first replicas are on nodes of their own. *)
LEMMA FirstReplicas ==
    ASSUME Known, IsFiniteSet(DOMAIN known), hour \in 0..23, NEW job \in PlJob,
           NEW f, Replicas(f, job, job.replicas),
           NEW k \in 0..job.replicas, k <= Cardinality(SuitsNow(job))
    PROVE  EachItsOwn(f[k], job) /\ Len(f[k]) = k
<1> DEFINE c == Cardinality(SuitsNow(job))
           N == job.replicas
           P == {i \in Nat : i <= N /\ i <= c => EachItsOwn(f[i], job) /\ Len(f[i]) = i}
<1>1. c \in Nat /\ N \in Nat
  BY SuitableNodes
<1>2. f[0] = <<>> /\ \A i \in 1..N : f[i] = Chosen(job, f[i - 1])
  BY <1>1 DEF Replicas
<1> HIDE DEF c, N
<1>3. 0 \in P
  <2>1. Elements(<<>>) = {} /\ Len(<<>>) = 0 /\ <<>> \in Seq(SuitsNow(job))
    BY DEF Elements
  <2>2. DOMAIN <<>> = {}
    OBVIOUS
  <2>3. EachItsOwn(<<>>, job)
    BY <2>1, <2>2, FS_EmptySet DEF EachItsOwn
  <2>. QED
    BY <1>2, <2>1, <2>3
<1>4. ASSUME NEW n \in Nat, n \in P PROVE n + 1 \in P
  <2>1. CASE n + 1 <= N /\ n + 1 <= c
    <3>1. EachItsOwn(f[n], job) /\ Len(f[n]) = n
      BY <1>1, <1>4, <2>1
    <3>2. f[n + 1] = Chosen(job, f[n])
      <4>1. n + 1 \in 1..N /\ (n + 1) - 1 = n
        BY <1>1, <2>1
      <4>. QED
        BY <1>2, <4>1
    <3>3. Len(f[n]) < Cardinality(SuitsNow(job))
      BY <1>1, <2>1, <3>1 DEF c
    <3>4. EachItsOwn(f[n + 1], job) /\ Len(f[n + 1]) = n + 1
      BY <3>1, <3>2, <3>3, NextReplica
    <3>. QED
      BY <3>4
  <2>2. CASE ~(n + 1 <= N /\ n + 1 <= c)
    BY <2>2
  <2>. QED
    BY <2>1, <2>2
<1> HIDE DEF P
<1>5. k \in P
  BY <1>1, <1>3, <1>4, Induction DEF N
<1>. QED
  BY <1>1, <1>5 DEF P, N, c

(* Where the replicas go for which no suitable node is left: to the node that is
   best of all, if all live ones suit, and else nowhere. *)
Surplus(job) ==
    Place(job, IF LiveNodes \subseteq SuitsNow(job) THEN LiveNodes
               ELSE LiveNodes \ SuitsNow(job))

(* That is a suitable node, or none. *)
LEMMA SurplusNode ==
    ASSUME Known, hour \in 0..23, NEW job \in PlJob
    PROVE  IF SuitsNow(job) = LiveNodes /\ SuitsNow(job) # {} THEN Surplus(job) \in SuitsNow(job)
           ELSE Surplus(job) = NoNode
<1>1. SuitsNow(job) \subseteq LiveNodes
  BY DEF SuitsNow
<1>2. CASE SuitsNow(job) = LiveNodes
  BY <1>2, PlaceSuits DEF Surplus
<1>3. CASE SuitsNow(job) # LiveNodes
  <2>1. Surplus(job) = Place(job, LiveNodes \ SuitsNow(job))
    BY <1>1, <1>3 DEF Surplus
  <2>2. SuitsNow(job) \cap (LiveNodes \ SuitsNow(job)) = {}
    OBVIOUS
  <2>. QED
    BY <1>3, <2>1, <2>2, PlaceSuits
<1>. QED
  BY <1>2, <1>3

(* All suitable nodes have one, and every further one is a surplus. *)
Filled(s, job) ==
    LET c == Cardinality(SuitsNow(job))
        z == Surplus(job)
    IN  /\ s \in Seq(PlNode \cup {NoNode}) /\ Len(s) >= c
        /\ \A i \in 1..c : s[i] \in SuitsNow(job)
        /\ \A i, k \in 1..c : s[i] = s[k] => i = k
        /\ \A n \in SuitsNow(job) : \E i \in 1..c : s[i] = n
        /\ \A i \in DOMAIN s : i > c => s[i] = z

(* It takes one more of the surplus. *)
LEMMA NextSurplus ==
    ASSUME Known, IsFiniteSet(DOMAIN known), hour \in 0..23, NEW job \in PlJob, NEW s,
           Filled(s, job)
    PROVE  Filled(Chosen(job, s), job) /\ Len(Chosen(job, s)) = Len(s) + 1
<1> DEFINE S == SuitsNow(job)
           c == Cardinality(S)
           z == Surplus(job)
           e == Place(job, Unused(s))
<1>1. /\ S \subseteq LiveNodes /\ S \subseteq PlNode /\ NoNode \notin S /\ c \in Nat
      /\ IF S = LiveNodes /\ S # {} THEN z \in S ELSE z = NoNode
  BY SuitableNodes, SurplusNode
<1> HIDE DEF S, z
<1>2. s \in Seq(PlNode \cup {NoNode}) /\ Len(s) \in Nat /\ DOMAIN s = 1..Len(s)
      /\ Len(s) >= c
  BY Indices DEF Filled, S
<1>a. \A i \in 1..c : s[i] \in S
  BY DEF Filled, S
<1>b. \A i, k \in 1..c : s[i] = s[k] => i = k
  BY DEF Filled, S
<1>c. \A n \in S : \E i \in 1..c : s[i] = n
  BY DEF Filled, S
<1>d. \A i \in DOMAIN s : i > c => s[i] = z
  BY DEF Filled, S, z
<1> HIDE DEF c
<1>3. Used(s) = S
  <2>1. ASSUME NEW i \in DOMAIN s PROVE s[i] \in S \cup {NoNode}
    <3>1. CASE i <= c
      BY <1>1, <1>2, <1>a, <3>1
    <3>2. CASE ~(i <= c)
      <4>1. i > c /\ z \in S \cup {NoNode}
        BY <1>1, <1>2, <3>2
      <4>2. s[i] = z
        BY <1>d, <4>1
      <4>. QED
        BY <4>1, <4>2
    <3>. QED
      BY <3>1, <3>2
  <2>2. ASSUME NEW n \in S PROVE \E i \in DOMAIN s : s[i] = n
    <3>1. PICK i \in 1..c : s[i] = n
      BY <1>c
    <3>2. i \in DOMAIN s
      BY <1>1, <1>2
    <3>. QED
      BY <3>1, <3>2
  <2>. QED
    BY <1>1, <2>1, <2>2 DEF Used
<1>4. e = z
  BY <1>3 DEF Unused, Surplus, S, z
<1>5. e \in PlNode \cup {NoNode}
  BY <1>1, <1>4
<1> HIDE DEF e
<1>6. /\ Append(s, e) \in Seq(PlNode \cup {NoNode}) /\ Len(Append(s, e)) = Len(s) + 1
      /\ DOMAIN Append(s, e) = 1..Len(s) + 1
      /\ \A i \in 1..Len(s) : Append(s, e)[i] = s[i]
      /\ Append(s, e)[Len(s) + 1] = e
  BY <1>2, <1>5, OneMore
<1>7. \A i \in 1..c : Append(s, e)[i] = s[i]
  BY <1>1, <1>2, <1>6
<1>8. \A i \in 1..Len(s) + 1 : i > c => Append(s, e)[i] = z
  <2>1. ASSUME NEW i \in 1..Len(s) + 1, i > c PROVE Append(s, e)[i] = z
    <3>1. CASE i = Len(s) + 1
      BY <1>4, <1>6, <3>1
    <3>2. CASE i # Len(s) + 1
      <4>1. i \in 1..Len(s)
        BY <1>2, <3>2
      <4>2. Append(s, e)[i] = s[i] /\ i \in DOMAIN s
        BY <1>2, <1>6, <4>1
      <4>. QED
        BY <1>d, <2>1, <4>2
    <3>. QED
      BY <3>1, <3>2
  <2>. QED
    BY <2>1
<1>9. Len(s) + 1 >= c
  BY <1>1, <1>2
<1>10. /\ \A i \in 1..c : Append(s, e)[i] \in S
       /\ \A i, k \in 1..c : Append(s, e)[i] = Append(s, e)[k] => i = k
       /\ \A n \in S : \E i \in 1..c : Append(s, e)[i] = n
  BY <1>a, <1>b, <1>c, <1>7
<1>. QED
  BY <1>6, <1>8, <1>9, <1>10 DEF Filled, Chosen, S, c, z, e

(* So all of the surplus is on that node. *)
LEMMA LaterReplicas ==
    ASSUME Known, IsFiniteSet(DOMAIN known), hour \in 0..23, NEW job \in PlJob,
           NEW f, Replicas(f, job, job.replicas),
           job.replicas >= Cardinality(SuitsNow(job))
    PROVE  Filled(f[job.replicas], job) /\ Len(f[job.replicas]) = job.replicas
<1> DEFINE S == SuitsNow(job)
           c == Cardinality(S)
           N == job.replicas
           P == {i \in Nat : c + i <= N => Filled(f[c + i], job) /\ Len(f[c + i]) = c + i}
<1>1. c \in Nat /\ N \in Nat /\ N >= c /\ IsFiniteSet(S) /\ S \subseteq PlNode
  BY SuitableNodes
<1>2. \A i \in 1..N : f[i] = Chosen(job, f[i - 1])
  BY <1>1 DEF Replicas
<1>3. EachItsOwn(f[c], job) /\ Len(f[c]) = c
  BY <1>1, FirstReplicas
<1>4. Filled(f[c], job)
  <2>1. f[c] \in Seq(S) /\ DOMAIN f[c] = 1..c /\ Elements(f[c]) \subseteq S
        /\ Cardinality(Elements(f[c])) = c
    BY <1>1, <1>3, Indices DEF EachItsOwn
  <2>2. Elements(f[c]) = S
    BY <1>1, <2>1, FS_Subset
  <2>3. f[c] \in Seq(PlNode \cup {NoNode})
    BY <1>1, <2>1
  <2> HIDE DEF c, S
  <2>4. /\ \A i \in 1..c : f[c][i] \in S /\ ~(i > c)
        /\ \A n \in S : \E i \in 1..c : f[c][i] = n
    BY <1>1, <2>1, <2>2 DEF Elements
  <2>5. \A i, k \in 1..c : f[c][i] = f[c][k] => i = k
    BY <1>3, <2>1 DEF EachItsOwn
  <2>6. Len(f[c]) >= c
    BY <1>1, <1>3
  <2>. QED
    BY <2>1, <2>3, <2>4, <2>5, <2>6 DEF Filled, c, S
<1> HIDE DEF c, N
<1>5. 0 \in P
  BY <1>1, <1>3, <1>4
<1>6. ASSUME NEW n \in Nat, n \in P PROVE n + 1 \in P
  <2>1. CASE c + (n + 1) <= N
    <3>1. Filled(f[c + n], job) /\ Len(f[c + n]) = c + n
      BY <1>1, <1>6, <2>1
    <3>2. f[c + (n + 1)] = Chosen(job, f[c + n])
      <4>1. c + (n + 1) \in 1..N /\ (c + (n + 1)) - 1 = c + n
        BY <1>1, <2>1
      <4>. QED
        BY <1>2, <4>1
    <3>3. Filled(f[c + (n + 1)], job) /\ Len(f[c + (n + 1)]) = (c + n) + 1
      BY <3>1, <3>2, NextSurplus
    <3>4. (c + n) + 1 = c + (n + 1)
      BY <1>1
    <3>. QED
      BY <3>3, <3>4
  <2>2. CASE ~(c + (n + 1) <= N)
    BY <2>2
  <2>. QED
    BY <2>1, <2>2
<1> HIDE DEF P
<1>7. N - c \in P
  <2>1. N - c \in Nat
    BY <1>1
  <2>. QED
    BY <1>5, <1>6, <2>1, Induction
<1>8. c + (N - c) = N
  BY <1>1
<1>. QED
  BY <1>1, <1>7, <1>8 DEF P, N

(* What ReplicasSpread and MeasuredFit say of one placement. *)
On(p, n) == Cardinality({k \in DOMAIN p.nodes : p.nodes[k] = n})
Spread(p) ==
    LET suits == SuitsNow(p.job)
        total == p.job.replicas
    IN  IF total <= Cardinality(suits)
        THEN \A n \in PlNode : On(p, n) <= 1 /\ On(p, NoNode) = 0
        ELSE /\ \A n \in suits : On(p, n) >= 1
             /\ IF suits = LiveNodes /\ suits # {}
                THEN \E n \in suits : On(p, n) = total - Cardinality(suits) + 1
                ELSE On(p, NoNode) = total - Cardinality(suits)
Fits(p) == \A k \in DOMAIN p.nodes : p.nodes[k] # NoNode => Suits(p.nodes[k], p.job)

(* Nodes of their own are spread. *)
LEMMA OwnSpread ==
    ASSUME Known, IsFiniteSet(DOMAIN known), NEW job \in PlJob, NEW s, EachItsOwn(s, job),
           NEW n, n \in PlNode \cup {NoNode}
    PROVE  LET on == {k \in DOMAIN s : s[k] = n}
           IN  Cardinality(on) <= 1 /\ (n = NoNode => Cardinality(on) = 0)
<1> DEFINE on == {k \in DOMAIN s : s[k] = n}
<1>1. NoNode \notin SuitsNow(job) /\ \A k \in DOMAIN s : s[k] \in SuitsNow(job)
  BY SuitableNodes DEF EachItsOwn
<1>2. Cardinality({}) = 0
  BY FS_EmptySet
<1>3. CASE on = {}
  BY <1>2, <1>3
<1>4. CASE on # {}
  <2>1. PICK k \in DOMAIN s : s[k] = n
    BY <1>4
  <2>2. on = {k}
    BY <2>1 DEF EachItsOwn
  <2>3. Cardinality(on) = 1 /\ n # NoNode
    BY <1>1, <2>1, <2>2, FS_Singleton
  <2>. QED
    BY <2>3
<1>. QED
  BY <1>3, <1>4

(* So are all nodes once and a surplus. *)
LEMMA FilledSpread ==
    ASSUME Known, IsFiniteSet(DOMAIN known), hour \in 0..23, NEW job \in PlJob, NEW s,
           Filled(s, job), Len(s) > Cardinality(SuitsNow(job)), Len(s) = job.replicas
    PROVE  /\ \A n \in SuitsNow(job) : On([job |-> job, nodes |-> s], n) >= 1
           /\ IF SuitsNow(job) = LiveNodes /\ SuitsNow(job) # {}
              THEN \E n \in SuitsNow(job) : On([job |-> job, nodes |-> s], n) =
                     job.replicas - Cardinality(SuitsNow(job)) + 1
              ELSE On([job |-> job, nodes |-> s], NoNode) =
                     job.replicas - Cardinality(SuitsNow(job))
<1> DEFINE S == SuitsNow(job)
           c == Cardinality(S)
           N == job.replicas
           z == Surplus(job)
           at(n) == {k \in DOMAIN s : s[k] = n}
<1>1. /\ NoNode \notin S /\ c \in Nat /\ N \in Nat /\ N > c
      /\ IF S = LiveNodes /\ S # {} THEN z \in S ELSE z = NoNode
  BY SuitableNodes, SurplusNode
<1>2. DOMAIN s = 1..N
  BY Indices DEF Filled
<1>3. \A n : On([job |-> job, nodes |-> s], n) = Cardinality(at(n))
  BY DEF On
<1>4. /\ \A i \in 1..c : s[i] \in S
      /\ \A i, k \in 1..c : s[i] = s[k] => i = k
  BY DEF Filled
<1>5. \A n \in S : \E i \in 1..c : s[i] = n
  BY DEF Filled
<1>6. \A i \in DOMAIN s : i > c => s[i] = z
  BY DEF Filled
<1> HIDE DEF S, c, N, z
<1>7. ASSUME NEW n \in S PROVE Cardinality(at(n)) >= 1
  <2>1. PICK i \in 1..c : s[i] = n
    BY <1>5
  <2>2. i \in at(n) /\ at(n) \subseteq 1..N
    BY <1>1, <1>2, <2>1
  <2>3. IsFiniteSet(at(n))
    <3>1. IsFiniteSet(1..N)
      BY <1>1, FS_Interval
    <3>. QED
      BY <2>2, <3>1, FS_Subset
  <2>4. Cardinality(at(n)) \in Nat /\ Cardinality(at(n)) # 0
    BY <2>2, <2>3, FS_CardinalityType, FS_EmptySet
  <2>. QED
    BY <2>4
<1>8. Cardinality((c + 1)..N) = N - c /\ IsFiniteSet((c + 1)..N)
  BY <1>1, FS_Interval
<1>9. CASE S = LiveNodes /\ S # {}
  <2>1. z \in S
    BY <1>1, <1>9
  <2>2. PICK i \in 1..c : s[i] = z
    BY <1>5, <2>1
  <2>3. at(z) = ((c + 1)..N) \cup {i}
    <3>1. ASSUME NEW k \in at(z) PROVE k \in (c + 1)..N \/ k = i
      <4>1. CASE k \in 1..c
        BY <1>4, <2>2, <4>1
      <4>2. CASE k \notin 1..c
        BY <1>1, <1>2, <4>2
      <4>. QED
        BY <4>1, <4>2
    <3>2. ASSUME NEW k \in (c + 1)..N PROVE k \in at(z)
      BY <1>1, <1>2, <1>6
    <3>3. i \in at(z)
      BY <1>1, <1>2, <2>2
    <3>. QED
      BY <3>1, <3>2, <3>3
  <2>4. i \notin (c + 1)..N
    BY <1>1
  <2>5. Cardinality(at(z)) = N - c + 1
    <3>1. Cardinality(((c + 1)..N) \cup {i}) = Cardinality((c + 1)..N) + 1
      BY <1>8, <2>4, FS_AddElement
    <3>. QED
      BY <1>8, <2>3, <3>1
  <2>. QED
    BY <1>3, <1>7, <1>9, <2>1, <2>5 DEF S, c, N
<1>10. CASE ~(S = LiveNodes /\ S # {})
  <2>1. z = NoNode
    BY <1>1, <1>10
  <2>2. at(NoNode) = (c + 1)..N
    <3>1. ASSUME NEW k \in at(NoNode) PROVE k \in (c + 1)..N
      <4>1. k \notin 1..c
        BY <1>1, <1>4
      <4>. QED
        BY <1>1, <1>2, <4>1
    <3>2. ASSUME NEW k \in (c + 1)..N PROVE k \in at(NoNode)
      BY <1>1, <1>2, <1>6, <2>1
    <3>. QED
      BY <3>1, <3>2
  <2>3. Cardinality(at(NoNode)) = N - c
    BY <1>8, <2>2
  <2>. QED
    BY <1>3, <1>7, <1>10, <2>3 DEF S, c, N
<1>. QED
  BY <1>9, <1>10

(* Whatever is placed fits and is spread. *)
LEMMA Placements ==
    ASSUME Known, IsFiniteSet(DOMAIN known), hour \in 0..23, NEW job \in PlJob
    PROVE  LET p == [job |-> job, nodes |-> NodesFor(job)]
           IN  Fits(p) /\ Spread(p) /\ p.nodes \in Seq(PlNode \cup {NoNode})
<1> DEFINE p == [job |-> job, nodes |-> NodesFor(job)]
           s == NodesFor(job)
           S == SuitsNow(job)
<1>1. /\ S \subseteq PlNode /\ NoNode \notin S /\ Cardinality(S) \in Nat
      /\ job.replicas \in Nat
  BY SuitableNodes
<1>2. PICK f : Replicas(f, job, job.replicas) /\ s = f[job.replicas]
  BY <1>1, NodesForReplicas
<1>3. p.job = job /\ p.nodes = s
  OBVIOUS
<1>4. \A n \in S : Suits(n, job)
  BY DEF SuitsNow
<1> HIDE DEF p, s, S
<1>5. CASE job.replicas <= Cardinality(S)
  <2>1. EachItsOwn(s, job) /\ Len(s) = job.replicas
    BY <1>1, <1>2, <1>5, FirstReplicas DEF S
  <2>2. s \in Seq(PlNode \cup {NoNode}) /\ \A k \in DOMAIN s : s[k] \in S
    BY <1>1, <2>1 DEF EachItsOwn, S
  <2>3. Fits(p)
    BY <1>3, <1>4, <2>2 DEF Fits
  <2>4. \A n \in PlNode : On(p, n) <= 1 /\ On(p, NoNode) = 0
    BY <1>3, <2>1, OwnSpread DEF On
  <2>. QED
    BY <1>3, <1>5, <2>2, <2>3, <2>4 DEF Spread, p, s, S
<1>6. CASE ~(job.replicas <= Cardinality(S))
  <2>1. Filled(s, job) /\ Len(s) = job.replicas
    BY <1>1, <1>2, <1>6, LaterReplicas DEF S
  <2>2. \A k \in DOMAIN s : s[k] \in S \cup {NoNode}
    <3>1. Surplus(job) \in S \cup {NoNode}
      BY SurplusNode DEF S
    <3>2. DOMAIN s = 1..Len(s) /\ Len(s) \in Nat
      BY <2>1, Indices DEF Filled
    <3>3. \A k \in 1..Cardinality(S) : s[k] \in S
      BY <2>1 DEF Filled, S
    <3>4. \A k \in DOMAIN s : k > Cardinality(S) => s[k] = Surplus(job)
      BY <2>1 DEF Filled, S
    <3>. QED
      BY <1>1, <3>1, <3>2, <3>3, <3>4
  <2>3. Fits(p)
    BY <1>3, <1>4, <2>2 DEF Fits
  <2>4. Len(s) > Cardinality(SuitsNow(job))
    BY <1>1, <1>6, <2>1 DEF S
  <2>5. Spread(p)
    BY <1>6, <2>1, <2>4, FilledSpread DEF Spread, p, s, S
  <2>. QED
    BY <1>3, <2>1, <2>3, <2>5 DEF Filled, p, s
<1>. QED
  BY <1>5, <1>6 DEF p

PlInv ==
    /\ PlTypeOK /\ IsFiniteSet(DOMAIN known)
    /\ \A p \in placed : Fits(p) /\ Spread(p)

(* The types, as memberships. *)
LEMMA PlTypes == PlTypeOK => Known /\ hour \in 0..23 /\ IsFiniteSet({})
BY PlacementAssumption, FS_EmptySet DEF PlTypeOK, Known, PlNodeState

(* A step that places nothing. *)
LEMMA NothingPlaced ==
    ASSUME placed' = {}, Known', hour' \in PlHour, IsFiniteSet(DOMAIN known)'
    PROVE  PlInv'
<1>1. Cardinality({}) = 0
  BY FS_EmptySet
<1>2. PlTypeOK'
  BY <1>1 DEF PlTypeOK, Known, PlNodeState
<1>. QED
  BY <1>2 DEF PlInv

(* What was placed stays right while nodes and hour stay. *)
LEMMA StillRight ==
    ASSUME NEW p, UNCHANGED <<known, hour>>, Fits(p), Spread(p)
    PROVE  Fits(p)' /\ Spread(p)'
<1>1. \A n, job : Suits(n, job)' <=> Suits(n, job)
  BY DEF Suits
<1>2. LiveNodes' = LiveNodes /\ \A job : SuitsNow(job)' = SuitsNow(job)
  BY <1>1 DEF LiveNodes, SuitsNow
<1>3. Fits(p)'
  BY <1>1 DEF Fits
<1>4. Spread(p)'
  BY <1>2 DEF Spread, On
<1>. QED
  BY <1>3, <1>4

(* Nothing is placed at first. *)
LEMMA PlInitInv == PlInit => PlInv
<1> SUFFICES ASSUME PlInit PROVE PlInv
  OBVIOUS
<1>1. DOMAIN known = {} /\ placed = {}
  BY DEF PlInit
<1>. QED
  BY <1>1, FS_EmptySet DEF PlInit, PlInv, PlTypeOK

(* One step of each kind. *)
LEMMA PlStepKeeps == PlInv /\ [PlNext]_plVars => PlInv'
<1> SUFFICES ASSUME PlInv, [PlNext]_plVars PROVE PlInv'
  OBVIOUS
<1>1. Known /\ hour \in PlHour /\ hour \in 0..23 /\ IsFiniteSet(DOMAIN known)
  BY PlTypes DEF PlInv, PlTypeOK
<1>2. ASSUME NEW n \in PlNode, NEW r \in PlReport, Reports(n, r) PROVE PlInv'
  <2>1. /\ n \in DOMAIN known /\ placed' = {} /\ UNCHANGED hour
        /\ known' = [known EXCEPT ![n] = [known[n] EXCEPT !.sample = r]]
    BY <1>2 DEF Reports
  <2>2. [known[n] EXCEPT !.sample = r] \in PlNodeState
    BY <1>1, <2>1 DEF Known, PlNodeState
  <2>3. Known' /\ DOMAIN known' = DOMAIN known
    BY <1>1, <2>1, <2>2 DEF Known
  <2>. QED
    BY <1>1, <2>1, <2>3, NothingPlaced
<1>3. ASSUME NEW n \in PlNode, NEW r \in PlReport, NEW preemptible \in BOOLEAN,
             Joins(n, preemptible, r)
      PROVE  PlInv'
  <2> DEFINE v == [preemptible |-> preemptible, sample |-> r, health |-> Healthy]
  <2>1. /\ placed' = {} /\ UNCHANGED hour
        /\ known' = [k \in DOMAIN known \cup {n} |-> IF k = n THEN v ELSE known[k]]
    BY <1>3 DEF Joins
  <2>2. v \in PlNodeState
    BY DEF PlNodeState
  <2> HIDE DEF v
  <2>3. Known' /\ DOMAIN known' = DOMAIN known \cup {n}
    BY <1>1, <2>1, <2>2 DEF Known
  <2>4. IsFiniteSet(DOMAIN known')
    BY <1>1, <2>3, FS_AddElement
  <2>. QED
    BY <1>1, <2>1, <2>3, <2>4, NothingPlaced
<1>4. ASSUME NEW n \in PlNode, NEW health \in {Healthy, "SUSPECTED", "DEAD"},
             Judged(n, health)
      PROVE  PlInv'
  <2>1. /\ n \in DOMAIN known /\ placed' = {} /\ UNCHANGED hour
        /\ known' = [known EXCEPT ![n] = [known[n] EXCEPT !.health = health]]
    BY <1>4 DEF Judged
  <2>2. [known[n] EXCEPT !.health = health] \in PlNodeState
    BY <1>1, <2>1 DEF Known, PlNodeState
  <2>3. Known' /\ DOMAIN known' = DOMAIN known
    BY <1>1, <2>1, <2>2 DEF Known
  <2>. QED
    BY <1>1, <2>1, <2>3, NothingPlaced
<1>5. ASSUME NEW job \in PlJob, PlSubmit(job) PROVE PlInv'
  <2> DEFINE p == [job |-> job, nodes |-> NodesFor(job)]
  <2>1. placed' = {p} /\ UNCHANGED <<known, hour>>
    BY <1>5 DEF PlSubmit
  <2>2. Fits(p) /\ Spread(p) /\ p.nodes \in Seq(PlNode \cup {NoNode}) /\ p.job = job
    BY <1>1, Placements
  <2> HIDE DEF p
  <2>3. Cardinality({p}) = 1
    BY FS_Singleton
  <2>4. PlTypeOK'
    BY <1>1, <2>1, <2>2, <2>3 DEF PlTypeOK, Known, PlNodeState
  <2>5. PICK q : q = p
    OBVIOUS
  <2>6. Fits(q)' /\ Spread(q)'
    BY <2>1, <2>2, <2>5, StillRight
  <2>. QED
    BY <1>1, <2>1, <2>4, <2>5, <2>6 DEF PlInv
<1>6. CASE HourPasses
  BY <1>1, <1>6, NothingPlaced DEF HourPasses, Known
<1>7. CASE Dispatches
  BY <1>1, <1>7, NothingPlaced DEF Dispatches, Known
<1>8. CASE UNCHANGED plVars
  <2>1. PlTypeOK'
    BY <1>8 DEF PlInv, PlTypeOK, plVars
  <2>2. \A p \in placed : Fits(p)' /\ Spread(p)'
    BY <1>8, StillRight DEF PlInv, plVars
  <2>. QED
    BY <1>1, <1>8, <2>1, <2>2 DEF PlInv, plVars
<1>. QED
  BY <1>2, <1>3, <1>4, <1>5, <1>6, <1>7, <1>8 DEF PlNext

(* The invariant holds throughout. *)
LEMMA PlacementInvariant == PlSpec => []PlInv
BY PlInitInv, PlStepKeeps, PTL DEF PlSpec

(* Every variable stays in its type. *)
THEOREM PlacementTypeCorrect == PlSpec => []PlTypeOK
<1>1. PlInv => PlTypeOK
  BY DEF PlInv
<1>. QED
  BY <1>1, PlacementInvariant, PTL

(* Whatever agents report and whatever a job asks for, its tasks are placed where
   the agent's own measurements meet it. *)
THEOREM PlacementsFit == PlSpec => []MeasuredFit
<1>1. PlInv => MeasuredFit
  BY DEF PlInv, Fits, MeasuredFit
<1>. QED
  BY <1>1, PlacementInvariant, PTL

(* For any number of replicas and of nodes, the loop of replication.py spreads
   replicas over all suitable nodes before one gets a second. *)
THEOREM ReplicasAreSpread == PlSpec => []ReplicasSpread
<1>1. PlInv => ReplicasSpread
  BY DEF PlInv, Spread, On, SuitsNow, ReplicasSpread
<1>. QED
  BY <1>1, PlacementInvariant, PTL
-----------------------------------------------------------------------------
(* SimCluster: tasks of the dead and agents without one, counted. *)

SimState == [state : {"PENDING", "RUNNING", "COMPLETED"}, node : SimNode \cup {Nowhere},
             progress : 0..SimWork]

(* Tasks are numbered; one that runs is on a living agent and has work left. *)
SimInv ==
    /\ alive \subseteq SimNode /\ spiked \subseteq SimNode
    /\ IsFiniteSet(SimTask) /\ SimTask = 1..Cardinality(SimTask)
    /\ \A t \in SimTask :
         /\ simTask[t] \in SimState
         /\ simTask[t].state = "RUNNING" => simTask[t].node \in alive /\ simTask[t].progress < SimWork

(* 1..k has k elements. *)
LEMMA Numbered ==
    ASSUME NEW k \in Nat
    PROVE  IsFiniteSet(1..k) /\ Cardinality(1..k) = k
<1>1. 1 \in Int /\ k \in Int
  OBVIOUS
<1>2. IsFiniteSet(1..k) /\ Cardinality(1..k) = IF 1 > k THEN 0 ELSE k - 1 + 1
  BY <1>1, FS_Interval
<1>. QED
  BY <1>2

(* The fields of a task. *)
LEMMA TaskFields ==
    ASSUME SimInv, NEW t \in SimTask
    PROVE  /\ simTask[t] \in SimState /\ simTask[t].node \in SimNode \cup {Nowhere}
           /\ simTask[t].state \in {"PENDING", "RUNNING", "COMPLETED"}
           /\ simTask[t].progress \in 0..SimWork
           /\ simTask[t] = [state |-> simTask[t].state, node |-> simTask[t].node,
                            progress |-> simTask[t].progress]
<1>1. simTask[t] \in SimState
  BY DEF SimInv
<1>. QED
  BY <1>1 DEF SimState

(* Two fields of a task change. *)
LEMMA TwoFields ==
    ASSUME NEW v \in SimState, NEW a, NEW b
    PROVE  /\ [v EXCEPT !.progress = a, !.state = b] =
                [state |-> b, node |-> v.node, progress |-> a]
           /\ [v EXCEPT !.node = a, !.state = b] =
                [state |-> b, node |-> a, progress |-> v.progress]
<1> DEFINE x == [v EXCEPT !.progress = a]
           y == [v EXCEPT !.node = a]
<1>1. x = [state |-> v.state, node |-> v.node, progress |-> a]
  BY DEF SimState
<1>2. y = [state |-> v.state, node |-> a, progress |-> v.progress]
  BY DEF SimState
<1> HIDE DEF x, y
<1>3. [x EXCEPT !.state = b] = [state |-> b, node |-> v.node, progress |-> a]
  BY <1>1
<1>4. [y EXCEPT !.state = b] = [state |-> b, node |-> a, progress |-> v.progress]
  BY <1>2
<1>. QED
  BY <1>3, <1>4 DEF x, y

(* No tasks at first. *)
LEMMA SimInitially == SimInit => SimInv
<1> SUFFICES ASSUME SimInit PROVE SimInv
  OBVIOUS
<1>1. alive = SimNode /\ spiked = {} /\ simTask = <<>>
  BY DEF SimInit
<1>2. SimTask = {} /\ IsFiniteSet({}) /\ Cardinality({}) = 0
  <2>1. DOMAIN <<>> = {}
    OBVIOUS
  <2>. QED
    BY <1>1, <2>1, FS_EmptySet DEF SimTask
<1>. QED
  BY <1>1, <1>2 DEF SimInv

(* Submitted tasks wait, or are on living agents. *)
LEMMA SimSubmitKeeps ==
    ASSUME SimInv, SimSubmit
    PROVE  SimInv'
<1> DEFINE k == Cardinality(SimTask)
           new(n) == [state |-> IF n = Nowhere THEN "PENDING" ELSE "RUNNING",
                      node |-> n, progress |-> 0]
<1>1. PICK n \in IF Idle(alive) = {} THEN {Nowhere} ELSE Idle(alive) :
        simTask' = [t \in 1..(k + 1) |-> IF t \in SimTask THEN simTask[t] ELSE new(n)]
  BY DEF SimSubmit
<1>2. k \in Nat /\ SimTask = 1..k
  BY FS_CardinalityType DEF SimInv
<1> HIDE DEF k
<1>3. SimTask' = 1..(k + 1) /\ IsFiniteSet(1..(k + 1)) /\ Cardinality(1..(k + 1)) = k + 1
  <2>1. k + 1 \in Nat
    BY <1>2
  <2>. QED
    BY <1>1, <2>1, Numbered DEF SimTask
<1>4. n \in alive \cup {Nowhere} /\ (n # Nowhere => n \in alive)
  BY <1>1 DEF Idle
<1>5. new(n) \in SimState /\ (new(n).state = "RUNNING" => new(n).node \in alive)
      /\ new(n).progress = 0 /\ 0 < SimWork
  BY <1>4, SimAssumption DEF SimState, SimInv
<1> HIDE DEF new
<1>6. ASSUME NEW t \in 1..(k + 1) PROVE simTask'[t] = IF t \in SimTask THEN simTask[t] ELSE new(n)
  BY <1>1
<1>7. alive' = alive /\ spiked' = spiked
  BY DEF SimSubmit
<1>. QED
  BY <1>3, <1>5, <1>6, <1>7 DEF SimInv

(* A tick moves running tasks on, and ends those at their work. *)
LEMMA SimTickKeeps ==
    ASSUME SimInv, SimTick
    PROVE  SimInv'
<1>1. SimTask' = SimTask
  BY DEF SimTick, SimTask
<1>2. ASSUME NEW t \in SimTask
      PROVE  /\ simTask'[t] \in SimState
             /\ simTask'[t].state = "RUNNING" =>
                  simTask'[t].node \in alive /\ simTask'[t].progress < SimWork
  <2>1. CASE simTask[t].state # "RUNNING"
    <3>1. simTask'[t] = simTask[t]
      BY <2>1 DEF SimTick
    <3>. QED
      BY <2>1, <3>1 DEF SimInv
  <2>2. CASE simTask[t].state = "RUNNING"
    <3> DEFINE v == [state |-> IF simTask[t].progress + 1 >= SimWork THEN "COMPLETED" ELSE "RUNNING",
                     node |-> simTask[t].node, progress |-> simTask[t].progress + 1]
    <3>1. simTask'[t] = v
      <4> DEFINE a == simTask[t].progress + 1
                 b == IF a >= SimWork THEN "COMPLETED" ELSE simTask[t].state
      <4>1. simTask'[t] = [simTask[t] EXCEPT !.progress = a, !.state = b]
        BY <2>2 DEF SimTick
      <4>2. simTask'[t] = [state |-> b, node |-> simTask[t].node, progress |-> a]
        <5> HIDE DEF a, b
        <5>. QED
          BY <4>1, TaskFields, TwoFields
      <4>. QED
        BY <2>2, <4>2
    <3>2. /\ simTask[t].progress \in 0..SimWork /\ simTask[t].progress < SimWork
          /\ simTask[t].node \in alive /\ simTask[t].node \in SimNode \cup {Nowhere}
      BY <2>2, TaskFields DEF SimInv
    <3>3. v \in SimState /\ v.node \in alive /\ (v.state = "RUNNING" => v.progress < SimWork)
      BY <3>2, SimAssumption DEF SimState
    <3>. QED
      BY <3>1, <3>3
  <2>. QED
    BY <2>1, <2>2
<1>3. alive' = alive /\ spiked' = spiked
  BY DEF SimTick
<1>. QED
  BY <1>1, <1>2, <1>3 DEF SimInv

(* What the loss of a node makes of its tasks and of the others. *)
LEMMA KillMoves ==
    ASSUME SimInv, NEW n \in SimNode, Kill(n)
    PROVE  LET orphans == {t \in SimTask : simTask[t].node = n /\ simTask[t].state = "RUNNING"}
           IN  \E target \in [orphans -> alive' \cup {Nowhere}] :
                 /\ Stolen(orphans, alive', target)
                 /\ SimTask' = SimTask /\ alive' = alive \ {n} /\ spiked' = spiked
                 /\ \A t \in SimTask \ orphans : simTask'[t] = simTask[t]
                 /\ \A t \in orphans :
                      /\ simTask'[t] \in SimState /\ simTask'[t].node = target[t]
                      /\ simTask'[t].progress = simTask[t].progress
                      /\ simTask'[t].state = IF target[t] = Nowhere THEN "PENDING" ELSE "RUNNING"
<1> DEFINE orphans == {t \in SimTask : simTask[t].node = n /\ simTask[t].state = "RUNNING"}
           moved(t, place) == [state |-> IF place = Nowhere THEN "PENDING" ELSE "RUNNING",
                               node |-> place, progress |-> simTask[t].progress]
<1>1. alive' = alive \ {n} /\ spiked' = spiked /\ alive' \subseteq SimNode
  BY DEF Kill, SimInv
<1>2. PICK target \in [orphans -> alive' \cup {Nowhere}] :
        /\ Stolen(orphans, alive', target)
        /\ simTask' = [t \in SimTask |->
             IF t \notin orphans THEN simTask[t]
             ELSE [simTask[t] EXCEPT !.node = target[t],
                     !.state = IF target[t] = Nowhere THEN "PENDING" ELSE "RUNNING"]]
  BY DEF Kill
<1>3. ASSUME NEW t \in orphans
      PROVE  /\ simTask'[t] = moved(t, target[t]) /\ moved(t, target[t]) \in SimState
             /\ moved(t, target[t]).node = target[t]
             /\ moved(t, target[t]).progress = simTask[t].progress
             /\ moved(t, target[t]).state = IF target[t] = Nowhere THEN "PENDING" ELSE "RUNNING"
  <2> DEFINE a == target[t]
             b == IF a = Nowhere THEN "PENDING" ELSE "RUNNING"
  <2>1. t \in SimTask /\ simTask[t] \in SimState
        /\ simTask'[t] = [simTask[t] EXCEPT !.node = a, !.state = b]
    BY <1>2 DEF SimInv
  <2>3. simTask'[t] = [state |-> b, node |-> a, progress |-> simTask[t].progress]
    <3> DEFINE v == simTask[t]
               y == [v EXCEPT !.node = a]
    <3>1. y = [state |-> v.state, node |-> a, progress |-> v.progress]
      BY <2>1 DEF SimState
    <3>2. simTask'[t] = [y EXCEPT !.state = b]
      BY <2>1
    <3> HIDE DEF a, b, v, y
    <3>3. [y EXCEPT !.state = b] = [state |-> b, node |-> a, progress |-> v.progress]
      BY <3>1
    <3>. QED
      BY <3>2, <3>3 DEF v
  <2>4. a \in SimNode \cup {Nowhere}
    BY <1>1, <1>2
  <2>5. moved(t, a) \in SimState
    BY <2>1, <2>4, TaskFields DEF SimState
  <2>. QED
    BY <2>1, <2>3, <2>5
<1>4. \A t \in SimTask \ orphans : simTask'[t] = simTask[t]
  BY <1>2
<1>5. SimTask' = SimTask
  BY <1>2 DEF SimTask
<1> HIDE DEF orphans, moved
<1>6. \A t \in orphans :
        /\ simTask'[t] \in SimState /\ simTask'[t].node = target[t]
        /\ simTask'[t].progress = simTask[t].progress
        /\ simTask'[t].state = IF target[t] = Nowhere THEN "PENDING" ELSE "RUNNING"
  BY <1>3
<1>. QED
  BY <1>1, <1>2, <1>4, <1>5, <1>6 DEF orphans

(* Tasks of a killed agent move to the living, or wait. *)
LEMMA KillKeeps ==
    ASSUME SimInv, NEW n \in SimNode, Kill(n)
    PROVE  SimInv'
<1> DEFINE orphans == {t \in SimTask : simTask[t].node = n /\ simTask[t].state = "RUNNING"}
<1>1. PICK target \in [orphans -> alive' \cup {Nowhere}] :
                 /\ SimTask' = SimTask /\ alive' = alive \ {n} /\ spiked' = spiked
                 /\ \A t \in SimTask \ orphans : simTask'[t] = simTask[t]
                 /\ \A t \in orphans :
                      /\ simTask'[t] \in SimState /\ simTask'[t].node = target[t]
                      /\ simTask'[t].progress = simTask[t].progress
                      /\ simTask'[t].state = IF target[t] = Nowhere THEN "PENDING" ELSE "RUNNING"
  BY KillMoves
<1>2. ASSUME NEW t \in SimTask
      PROVE  /\ simTask'[t] \in SimState
             /\ simTask'[t].state = "RUNNING" =>
                  simTask'[t].node \in alive' /\ simTask'[t].progress < SimWork
  <2>1. CASE t \in orphans
    <3>1. simTask[t].progress < SimWork
      BY <2>1 DEF SimInv
    <3>2. target[t] \in alive' \cup {Nowhere}
      BY <1>1, <2>1
    <3>. QED
      BY <1>1, <2>1, <3>1, <3>2
  <2>2. CASE t \notin orphans
    <3>1. simTask'[t] = simTask[t]
      BY <1>1, <2>2
    <3>2. simTask[t].state = "RUNNING" => simTask[t].node # n
      BY <2>2
    <3>. QED
      BY <1>1, <3>1, <3>2 DEF SimInv
  <2>. QED
    BY <2>1, <2>2
<1>. QED
  BY <1>1, <1>2 DEF SimInv

(* One step of each kind. *)
LEMMA SimKeeps == SimInv /\ [SimNext]_simVars => SimInv'
<1> SUFFICES ASSUME SimInv, [SimNext]_simVars PROVE SimInv'
  OBVIOUS
<1>1. CASE SimSubmit
  BY <1>1, SimSubmitKeeps
<1>2. CASE SimTick
  BY <1>2, SimTickKeeps
<1>3. ASSUME NEW n \in SimNode, Kill(n) PROVE SimInv'
  BY <1>3, KillKeeps
<1>4. ASSUME NEW n \in SimNode, Spike(n) PROVE SimInv'
  BY <1>4 DEF Spike, SimInv, SimTask
<1>5. CASE UNCHANGED simVars
  BY <1>5 DEF simVars, SimInv, SimTask
<1>. QED
  BY <1>1, <1>2, <1>3, <1>4, <1>5 DEF SimNext

(* Every variable of the simulated cluster stays in its type. *)
THEOREM SimTypeCorrect == SimSpec => []SimTypeOK
<1>1. SimInv => SimTypeOK
  BY DEF SimInv, SimTypeOK, SimState
<1>. QED
  BY <1>1, SimInitially, SimKeeps, PTL DEF SimSpec

(* Several nodes are healthy, and a task finds no idle one left for it: those
   before it in the order took them all, so that there are more of them. *)
LEMMA CrowdTookAll ==
    ASSUME NEW orphans, IsFiniteSet(orphans), orphans \subseteq Nat, NEW places, NEW idle,
           NEW target \in [orphans -> places], NEW t \in orphans,
           idle \subseteq {target[o] : o \in {o \in orphans : o < t}}
    PROVE  Cardinality(idle) < Cardinality(orphans)
<1> DEFINE before == {o \in orphans : o < t}
           used == {target[o] : o \in before}
           f == [o \in before |-> target[o]]
<1>1. before \subseteq orphans \ {t}
  OBVIOUS
<1>2. /\ IsFiniteSet(orphans \ {t})
      /\ Cardinality(orphans \ {t}) = Cardinality(orphans) - 1 /\ Cardinality(orphans) \in Nat
  BY FS_RemoveElement, FS_CardinalityType
<1>3. IsFiniteSet(before) /\ Cardinality(before) <= Cardinality(orphans \ {t})
      /\ Cardinality(before) \in Nat
  BY <1>1, <1>2, FS_Subset, FS_CardinalityType
<1>4. f \in Surjection(before, used)
  BY DEF Surjection
<1>5. IsFiniteSet(used) /\ Cardinality(used) <= Cardinality(before) /\ Cardinality(used) \in Nat
  <2> HIDE DEF f, used, before
  <2>. QED
    BY <1>3, <1>4, FS_Surjection, FS_CardinalityType
<1>6. Cardinality(idle) <= Cardinality(used) /\ Cardinality(idle) \in Nat
  BY <1>5, FS_Subset, FS_CardinalityType
<1>. QED
  BY <1>2, <1>3, <1>5, <1>6

(* A step of the cluster strands a task only where there is no other node for
   it, or not one for each of those that lost theirs. *)
LEMMA StepStrands ==
    ASSUME SimInv, SimNext,
           NEW strands, strands = {t \in SimTask : /\ simTask[t].state = "RUNNING"
                                                   /\ simTask'[t].state = "PENDING"},
           NEW lost, lost = {t \in SimTask : simTask[t].state = "RUNNING"
                                             /\ simTask[t].node \notin alive'}
    PROVE  strands # {} => \/ Idle(alive') = {}
                           \/ /\ Cardinality(alive') > 1
                              /\ Cardinality(Idle(alive')) < Cardinality(lost)
<1> SUFFICES ASSUME NEW t \in strands, Idle(alive') # {}
             PROVE  Cardinality(alive') > 1 /\ Cardinality(Idle(alive')) < Cardinality(lost)
  OBVIOUS
<1>1. t \in SimTask /\ simTask[t].state = "RUNNING" /\ simTask'[t].state = "PENDING"
  OBVIOUS
<1>2. PICK n \in SimNode : Kill(n)
  <2>1. CASE SimSubmit
    <3>1. SimTask = 1..Cardinality(SimTask) /\ Cardinality(SimTask) \in Nat
      BY FS_CardinalityType DEF SimInv
    <3>2. t \in 1..(Cardinality(SimTask) + 1)
      BY <1>1, <3>1
    <3>3. simTask'[t] = simTask[t]
      BY <1>1, <2>1, <3>2 DEF SimSubmit
    <3>. QED
      BY <1>1, <3>3
  <2>2. CASE SimTick
    <3> DEFINE a == simTask[t].progress + 1
               b == IF a >= SimWork THEN "COMPLETED" ELSE simTask[t].state
    <3>1. simTask'[t] = [simTask[t] EXCEPT !.progress = a, !.state = b]
      BY <1>1, <2>2 DEF SimTick
    <3>2. simTask'[t].state = b
      <4> HIDE DEF a, b
      <4>1. simTask'[t] = [state |-> b, node |-> simTask[t].node, progress |-> a]
        BY <1>1, <3>1, TaskFields, TwoFields
      <4>. QED
        BY <4>1
    <3>. QED
      BY <1>1, <3>2
  <2>3. ASSUME NEW n \in SimNode, Spike(n) PROVE FALSE
    BY <1>1, <2>3 DEF Spike
  <2>. QED
    BY <2>1, <2>2, <2>3 DEF SimNext
<1> DEFINE orphans == {o \in SimTask : simTask[o].node = n /\ simTask[o].state = "RUNNING"}
<1>3. PICK target \in [orphans -> alive' \cup {Nowhere}] :
        /\ Stolen(orphans, alive', target)
        /\ SimTask' = SimTask /\ alive' = alive \ {n} /\ spiked' = spiked
        /\ \A o \in SimTask \ orphans : simTask'[o] = simTask[o]
        /\ \A o \in orphans :
             /\ simTask'[o] \in SimState /\ simTask'[o].node = target[o]
             /\ simTask'[o].progress = simTask[o].progress
             /\ simTask'[o].state = IF target[o] = Nowhere THEN "PENDING" ELSE "RUNNING"
  BY <1>2, KillMoves
<1>4. t \in orphans /\ target[t] = Nowhere
  <2>1. t \in orphans
    BY <1>1, <1>3
  <2>. QED
    BY <1>1, <1>3, <2>1
<1>5. lost = orphans
  <2>1. ASSUME NEW o \in SimTask, simTask[o].state = "RUNNING"
        PROVE  simTask[o].node \notin alive' <=> simTask[o].node = n
    BY <1>3, <2>1 DEF SimInv
  <2>. QED
    BY <2>1
<1>6. IsFiniteSet(orphans) /\ orphans \subseteq Nat
  <2>1. orphans \subseteq SimTask /\ IsFiniteSet(SimTask) /\ SimTask = 1..Cardinality(SimTask)
    BY DEF SimInv
  <2>2. SimTask \subseteq Nat
    <3>1. Cardinality(SimTask) \in Nat
      BY <2>1, FS_CardinalityType
    <3>. QED
      BY <2>1, <3>1
  <2> HIDE DEF orphans
  <2>3. IsFiniteSet(orphans)
    BY <2>1, FS_Subset
  <2>. QED
    BY <2>1, <2>2, <2>3
<1> HIDE DEF orphans
<1> DEFINE used == {target[o] : o \in {o \in orphans : o < t}}
           free == Idle(alive') \ (IF Apart(alive') THEN used ELSE {})
<1>7. target[t] \in IF free = {} THEN {Nowhere} ELSE free
  BY <1>3, <1>4 DEF Stolen
<1>8. free = {} \/ Nowhere \in free
  BY <1>4, <1>7
<1>9. IsFiniteSet(alive') /\ Cardinality(alive') \in Nat /\ Cardinality(alive') # 0
  <2>1. alive' \subseteq SimNode
    BY <1>3 DEF SimInv
  <2>2. IsFiniteSet(alive')
    BY <2>1, FS_Subset, SimAssumption
  <2>3. alive' # {}
    BY DEF Idle
  <2>. QED
    BY <2>2, <2>3, FS_CardinalityType, FS_EmptySet
<1>10. free = {}
  <2>1. Nowhere \notin SimNode /\ Idle(alive') \subseteq SimNode
    BY <1>3, SimAssumption DEF Nowhere, Idle, SimInv
  <2>. QED
    BY <1>8, <2>1
<1>11. Apart(alive')
  BY <1>10
<1>12. Cardinality(alive') > 1
  BY <1>9, <1>11 DEF Apart
<1>13. Idle(alive') \subseteq used
  BY <1>10, <1>11
<1>14. Cardinality(Idle(alive')) < Cardinality(orphans)
  <2>1. Idle(alive') \subseteq {target[o] : o \in {o \in orphans : o < t}}
    BY <1>13
  <2>2. target \in [orphans -> alive' \cup {Nowhere}] /\ t \in orphans
    BY <1>4
  <2> HIDE DEF used, free, Idle
  <2>. QED
    BY <1>6, <2>1, <2>2, CrowdTookAll
<1>. QED
  BY <1>5, <1>12, <1>14

(* After a step, whatever runs is on a living node. *)
THEOREM StrandedOnlyInCrowd == SimSpec => StrandedInCrowd
<1> DEFINE strands == {t \in SimTask : /\ simTask[t].state = "RUNNING"
                                       /\ simTask'[t].state = "PENDING"}
           lost == {t \in SimTask : simTask[t].state = "RUNNING" /\ simTask[t].node \notin alive'}
           Now == /\ \A t \in SimTask' : simTask'[t].state = "RUNNING" => simTask'[t].node \in alive'
                  /\ strands # {} => \/ Idle(alive') = {}
                                     \/ /\ Cardinality(alive') > 1
                                        /\ Cardinality(Idle(alive')) < Cardinality(lost)
<1>1. SimInv /\ SimInv' /\ [SimNext]_simVars => [Now]_simVars
  <2> SUFFICES ASSUME SimInv, SimInv', SimNext PROVE Now
    OBVIOUS
  <2>1. \A t \in SimTask' : simTask'[t].state = "RUNNING" => simTask'[t].node \in alive'
    BY DEF SimInv
  <2>2. strands # {} => \/ Idle(alive') = {}
                       \/ /\ Cardinality(alive') > 1
                          /\ Cardinality(Idle(alive')) < Cardinality(lost)
    <3> HIDE DEF strands, lost
    <3>1. strands = {t \in SimTask : /\ simTask[t].state = "RUNNING"
                                     /\ simTask'[t].state = "PENDING"}
      BY DEF strands
    <3>2. lost = {t \in SimTask : simTask[t].state = "RUNNING" /\ simTask[t].node \notin alive'}
      BY DEF lost
    <3>. QED
      BY <3>1, <3>2, StepStrands
  <2>. QED
    BY <2>1, <2>2
<1>. QED
  BY <1>1, SimInitially, SimKeeps, PTL DEF SimSpec, StrandedInCrowd
-----------------------------------------------------------------------------
(* MemoryFabric: sums of segments by node and by call. *)

(* Allocations are those of the calls that got one, and their segments. *)
OwnNodes(v) ==
    /\ v.todo \subseteq DOMAIN v.segs
    /\ v.pc \in {"add", "subtract"} => v.at \in DOMAIN v.segs \ v.todo
Allocations ==
    /\ DOMAIN allocations = {c \in MemCall : memCall[c].pc = "got"}
    /\ \A c \in DOMAIN allocations : allocations[c] = memCall[c].segs
    /\ \A c \in MemCall : OwnNodes(memCall[c])

(* The nodes that a call takes are the largest, all but the last to the full. *)
Largest(seen, D) == \A n \in D, m \in DOMAIN seen \ D : seen[n] >= seen[m]
Greedy(v) ==
    LET D == DOMAIN v.segs
    IN  /\ D \subseteq DOMAIN v.seen
        /\ \A n \in DOMAIN v.seen : v.seen[n] >= 1
        /\ \A n \in D : v.segs[n] \in 1..v.seen[n]
        /\ \/ /\ SumOf(v.segs, D) < v.size /\ Largest(v.seen, D)
              /\ \A n \in D : v.segs[n] = v.seen[n]
           \/ /\ SumOf(v.segs, D) = v.size
              /\ \E last \in D : /\ SumOf(v.seen, D \ {last}) < v.size
                                 /\ Largest(v.seen, D \ {last})
Taken(v) ==
    /\ v.pc \in {"take", "add", "got"} => Greedy(v)
    /\ v.pc = "got" => SumOf(v.segs, DOMAIN v.segs) = v.size
    /\ v.pc = "refused" => SumOf(v.seen, DOMAIN v.seen) < v.size
Taking == \A c \in MemCall : Taken(memCall[c])

(* The part of _reserved that is a call's. *)
Booked(v) ==
    IF v.pc \in {"take", "got"} THEN DOMAIN v.segs
    ELSE IF v.pc = "add" THEN DOMAIN v.segs \ {v.at}
    ELSE IF v.pc = "free" THEN v.todo
    ELSE IF v.pc = "subtract" THEN v.todo \cup {v.at} ELSE {}
Share(v, n) == IF n \in Booked(v) THEN v.segs[n] ELSE 0
Shares(n) == [c \in MemCall |-> Share(memCall[c], n)]
Written(v, sizes) ==
    /\ v.pc = "add" => v.value = sizes[v.at] + v.segs[v.at]
    /\ v.pc = "subtract" => v.value = Less(sizes[v.at], v.segs[v.at])
Books ==
    /\ \A n \in MemNode : reserved[n] = SumOf(Shares(n), MemCall)
    /\ \A c \in MemCall : Written(memCall[c], reserved)

(* Sizes by node, and what a call keeps. *)
Sizes == UNION {[X -> Nat] : X \in SUBSET MemNode}
MfState == [pc : {"none", "take", "add", "got", "refused", "free", "subtract", "released"},
            size : 0..MaxSize, seen : Sizes, segs : Sizes, todo : SUBSET MemNode,
            at : MemNode \cup {"none"}, value : Nat]
MfTypes ==
    /\ reported \in Sizes /\ reserved \in [MemNode -> Nat]
    /\ memCall \in [MemCall -> MfState]
    /\ crossed \in BOOLEAN /\ memReports \in Nat

MfInv == MfTypes /\ Allocations /\ Taking /\ (~crossed => Books)

(* A total is the sum over the domain. *)
LEMMA TotalIs == ASSUME NEW f PROVE Total(f) = SumOf(f, DOMAIN f)
BY DEF Total, SumFunction, SumFunctionOnSet, FoldFunctionOnSet, SumOf, MapThenSumSet

(* What sizes are. *)
LEMMA SizesIs ==
    ASSUME NEW f
    PROVE  f \in Sizes <=> DOMAIN f \subseteq MemNode /\ f \in [DOMAIN f -> Nat]
BY DEF Sizes

(* What is kept of a call, field by field. *)
LEMMA CallFields ==
    ASSUME MfTypes, NEW c \in MemCall
    PROVE  /\ memCall[c] \in MfState
           /\ memCall[c].pc \in {"none", "take", "add", "got", "refused", "free", "subtract",
                                 "released"}
           /\ memCall[c].size \in 0..MaxSize /\ memCall[c].seen \in Sizes
           /\ memCall[c].segs \in Sizes /\ memCall[c].todo \in SUBSET MemNode
           /\ memCall[c].at \in MemNode \cup {"none"} /\ memCall[c].value \in Nat
           /\ memCall[c] = [pc |-> memCall[c].pc, size |-> memCall[c].size,
                            seen |-> memCall[c].seen, segs |-> memCall[c].segs,
                            todo |-> memCall[c].todo, at |-> memCall[c].at,
                            value |-> memCall[c].value]
<1>1. memCall[c] \in MfState
  BY DEF MfTypes
<1>. QED
  BY <1>1 DEF MfState

(* Sizes are of finitely many nodes, and add up to a number. *)
LEMMA SizesTyped ==
    ASSUME NEW f \in Sizes, NEW S \in SUBSET DOMAIN f
    PROVE  /\ DOMAIN f \subseteq MemNode /\ f \in [DOMAIN f -> Nat]
           /\ IsFiniteSet(DOMAIN f) /\ SumOf(f, S) \in Nat /\ Total(f) \in Nat
<1>1. DOMAIN f \subseteq MemNode /\ f \in [DOMAIN f -> Nat]
  BY SizesIs
<1>2. IsFiniteSet(DOMAIN f)
  BY <1>1, FS_Subset, SizeAssumption
<1>3. SumOf(f, S) \in Nat /\ SumOf(f, DOMAIN f) \in Nat
  BY <1>1, <1>2, SumFacts
<1>. QED
  BY <1>1, <1>2, <1>3, TotalIs

(* One call moves, from what it is to w. *)
Moves(c, w) == memCall' = [memCall EXCEPT ![c] = w]

(* The call is w, and the others are what they were. *)
LEMMA Moved ==
    ASSUME MfTypes, NEW c \in MemCall, NEW w \in MfState, Moves(c, w)
    PROVE  /\ memCall' \in [MemCall -> MfState] /\ memCall'[c] = w
           /\ \A b \in MemCall \ {c} : memCall'[b] = memCall[b]
BY DEF MfTypes, Moves

(* What holds of w and held of all holds of all. *)
LEMMA OthersStay ==
    ASSUME MfTypes, Allocations, Taking, NEW c \in MemCall, NEW w \in MfState, Moves(c, w),
           OwnNodes(w), Taken(w)
    PROVE  /\ \A b \in MemCall : OwnNodes(memCall'[b])
           /\ Taking'
<1>1. memCall'[c] = w /\ \A b \in MemCall \ {c} : memCall'[b] = memCall[b]
  BY Moved
<1>2. \A b \in MemCall : OwnNodes(memCall'[b])
  <2>1. \A b \in MemCall : OwnNodes(memCall[b])
    BY DEF Allocations
  <2> HIDE DEF OwnNodes
  <2>. QED
    BY <1>1, <2>1
<1>3. \A b \in MemCall : Taken(memCall'[b])
  <2>1. \A b \in MemCall : Taken(memCall[b])
    BY DEF Taking
  <2> HIDE DEF Taken
  <2>. QED
    BY <1>1, <2>1
<1>. QED
  BY <1>2, <1>3 DEF Taking

(* A share is a number. *)
LEMMA ShareTyped ==
    ASSUME NEW v \in MfState, OwnNodes(v), NEW n
    PROVE  Booked(v) \subseteq DOMAIN v.segs /\ Share(v, n) \in Nat
<1>1. v.segs \in Sizes
  BY DEF MfState
<1>2. DOMAIN v.segs \subseteq MemNode /\ v.segs \in [DOMAIN v.segs -> Nat]
  BY <1>1, SizesIs
<1>3. Booked(v) \subseteq DOMAIN v.segs
  BY DEF Booked, OwnNodes
<1> HIDE DEF Booked
<1>. QED
  BY <1>2, <1>3 DEF Share

(* What a node's shares add up to changes by what the moving call's does. *)
LEMMA SharesMove ==
    ASSUME MfTypes, Allocations, NEW c \in MemCall, NEW w \in MfState, Moves(c, w), OwnNodes(w),
           NEW n \in MemNode
    PROVE  \E k \in Nat : /\ SumOf(Shares(n), MemCall) = Share(memCall[c], n) + k
                          /\ SumOf(Shares(n)', MemCall) = Share(w, n) + k
<1> DEFINE f == [b \in MemCall |-> Share(memCall[b], n)]
           h == [b \in MemCall |-> Share(memCall'[b], n)]
           R == MemCall \ {c}
<1>1. memCall' \in [MemCall -> MfState] /\ memCall'[c] = w
      /\ \A b \in R : memCall'[b] = memCall[b]
  BY Moved
<1>2. \A b \in MemCall : Share(memCall[b], n) \in Nat
  <2>1. \A b \in MemCall : memCall[b] \in MfState /\ OwnNodes(memCall[b])
    BY DEF MfTypes, Allocations
  <2> HIDE DEF OwnNodes
  <2>. QED
    BY <2>1, ShareTyped
<1>3. Share(w, n) \in Nat
  BY ShareTyped
<1>4. \A b \in MemCall : Share(memCall'[b], n) = IF b = c THEN Share(w, n) ELSE Share(memCall[b], n)
  <2> HIDE DEF Share
  <2>. QED
    BY <1>1
<1>5. f \in [MemCall -> Nat]
  <2> HIDE DEF Share
  <2>. QED
    BY <1>2
<1>6. h \in [MemCall -> Nat]
  <2> HIDE DEF Share
  <2>. QED
    BY <1>2, <1>3, <1>4
<1>7. /\ f[c] = Share(memCall[c], n) /\ h[c] = Share(w, n)
      /\ \A b \in R : f[b] = h[b]
  <2> HIDE DEF Share
  <2>. QED
    BY <1>4
<1>8. Shares(n) = f /\ Shares(n)' = h
  BY DEF Shares
<1> HIDE DEF f, h
<1>9. /\ IsFiniteSet(MemCall) /\ R \in SUBSET MemCall /\ R \subseteq MemCall
      /\ MemCall \in SUBSET MemCall
  BY SizeAssumption
<1>10. SumOf(f, MemCall) = f[c] + SumOf(f, R) /\ SumOf(f, R) \in Nat
  BY <1>5, <1>9, SumFacts
<1>11. SumOf(h, MemCall) = h[c] + SumOf(h, R)
  BY <1>6, <1>9, SumFacts
<1>12. SumOf(f, R) = SumOf(h, R)
  BY <1>5, <1>6, <1>7, <1>9, SumsAgree
<1>. QED
  BY <1>7, <1>8, <1>10, <1>11, <1>12

(* The books are kept by a call that moves alone. *)
LEMMA BooksMove ==
    ASSUME MfInv, NEW c \in MemCall, NEW w \in MfState, Moves(c, w), OwnNodes(w),
           crossed' = Crossing(c), ~crossed',
           \A n \in MemNode : \A k \in Nat :
               reserved[n] = Share(memCall[c], n) + k => reserved'[n] = Share(w, n) + k,
           Written(w, reserved')
    PROVE  Books'
<1>1. MfTypes /\ Allocations
  BY DEF MfInv
<1>2. ~crossed /\ \A b \in MemCall \ {c} : ~UnderWay(b)
  BY DEF Crossing
<1>3. Books
  BY <1>2 DEF MfInv
<1>4. ASSUME NEW n \in MemNode PROVE reserved'[n] = SumOf(Shares(n)', MemCall)
  <2>1. PICK k \in Nat : /\ SumOf(Shares(n), MemCall) = Share(memCall[c], n) + k
                         /\ SumOf(Shares(n)', MemCall) = Share(w, n) + k
    BY <1>1, SharesMove
  <2>2. reserved[n] = SumOf(Shares(n), MemCall)
    BY <1>3 DEF Books
  <2> HIDE DEF Share, Shares
  <2>. QED
    BY <2>1, <2>2
<1>5. ASSUME NEW b \in MemCall PROVE Written(memCall'[b], reserved')
  <2>1. memCall'[c] = w /\ \A d \in MemCall \ {c} : memCall'[d] = memCall[d]
    BY <1>1, Moved
  <2>2. CASE b = c
    <3> HIDE DEF Written
    <3>. QED
      BY <2>1, <2>2
  <2>3. CASE b # c
    <3>1. memCall[b].pc \in {"none", "got", "refused", "released"}
      BY <1>2, <2>3 DEF UnderWay
    <3>2. memCall'[b].pc \in {"none", "got", "refused", "released"}
      BY <2>1, <2>3, <3>1
    <3>. QED
      BY <3>2 DEF Written
  <2>. QED
    BY <2>2, <2>3
<1>. QED
  BY <1>4, <1>5 DEF Books

(* What a moving call must see to, of the table and of its own. *)
Settles(c, w) ==
    /\ \A n \in MemNode : \A k \in Nat :
         reserved[n] = Share(memCall[c], n) + k => reserved'[n] = Share(w, n) + k
    /\ Written(w, reserved')

(* A call that moves so keeps the invariant. *)
LEMMA CallMoves ==
    ASSUME MfInv, NEW c \in MemCall, NEW w \in MfState, Moves(c, w), OwnNodes(w), Taken(w),
           crossed' = Crossing(c), reported' = reported, memReports' = memReports,
           reserved' \in [MemNode -> Nat], ~crossed' => Settles(c, w),
           DOMAIN allocations' = {b \in MemCall : memCall'[b].pc = "got"},
           \A b \in DOMAIN allocations' : allocations'[b] = memCall'[b].segs
    PROVE  MfInv'
<1>1. MfTypes /\ Allocations /\ Taking
  BY DEF MfInv
<1>2. (\A b \in MemCall : OwnNodes(memCall'[b])) /\ Taking'
  BY <1>1, OthersStay
<1>3. Allocations'
  <2> HIDE DEF OwnNodes
  <2>. QED
    BY <1>2 DEF Allocations
<1>4. MfTypes'
  <2>1. memCall' \in [MemCall -> MfState]
    BY <1>1, Moved
  <2>2. Crossing(c) \in BOOLEAN
    BY <1>1 DEF Crossing, MfTypes
  <2> HIDE DEF Crossing
  <2>. QED
    BY <1>1, <2>1, <2>2 DEF MfTypes
<1>5. ASSUME ~crossed' PROVE Books'
  <2>1. Settles(c, w)
    BY <1>5
  <2>2. \A n \in MemNode : \A k \in Nat :
          reserved[n] = Share(memCall[c], n) + k => reserved'[n] = Share(w, n) + k
    <3> HIDE DEF Share
    <3>. QED
      BY <2>1 DEF Settles
  <2>3. Written(w, reserved')
    BY <2>1 DEF Settles
  <2>. QED
    BY <1>5, <2>2, <2>3, BooksMove
<1>. QED
  BY <1>2, <1>3, <1>4, <1>5 DEF MfInv

(* The same of one that neither gets an allocation nor gives one back. *)
LEMMA CallGoesOn ==
    ASSUME MfInv, NEW c \in MemCall, NEW w \in MfState, Moves(c, w), OwnNodes(w), Taken(w),
           crossed' = Crossing(c), reported' = reported, memReports' = memReports,
           reserved' \in [MemNode -> Nat], ~crossed' => Settles(c, w),
           allocations' = allocations, memCall[c].pc # "got", w.pc # "got"
    PROVE  MfInv'
<1>1. MfTypes /\ Allocations
  BY DEF MfInv
<1>2. memCall'[c] = w /\ \A b \in MemCall \ {c} : memCall'[b] = memCall[b]
  BY <1>1, Moved
<1>3. \A b \in MemCall : memCall'[b].pc = "got" <=> memCall[b].pc = "got"
  BY <1>2
<1>4. DOMAIN allocations' = {b \in MemCall : memCall'[b].pc = "got"}
  BY <1>1, <1>3 DEF Allocations
<1>5. \A b \in DOMAIN allocations' : allocations'[b] = memCall'[b].segs
  <2>1. c \notin DOMAIN allocations /\ DOMAIN allocations \subseteq MemCall
    BY <1>1 DEF Allocations
  <2>. QED
    BY <1>1, <1>2, <2>1 DEF Allocations
<1> HIDE DEF Moves, OwnNodes, Taken, Settles
<1>. QED
  BY <1>4, <1>5, CallMoves

(* allocate looks at what is free, and is refused or begins to take. *)
LEMMA AllocateKeeps ==
    ASSUME MfInv, NEW c \in MemCall, NEW size \in 1..MaxSize, Ask(c, size)
    PROVE  MfInv'
<1> DEFINE seen == [n \in {m \in DOMAIN reported : FreeOn(m) >= 1} |-> FreeOn(n)]
           pc == IF Total(seen) < size THEN "refused" ELSE "take"
           w == [pc |-> pc, size |-> size, seen |-> seen, segs |-> Nothing, todo |-> {},
                 at |-> "none", value |-> 0]
<1>1. MfTypes /\ memCall[c] = NoCall
  BY DEF MfInv, Ask
<1>2. /\ reported \in Sizes /\ DOMAIN reported \subseteq MemNode
      /\ \A n \in DOMAIN reported : reported[n] \in Nat /\ reserved[n] \in Nat
  <2>1. reported \in Sizes /\ reserved \in [MemNode -> Nat]
    BY <1>1 DEF MfTypes
  <2>2. DOMAIN reported \subseteq MemNode /\ reported \in [DOMAIN reported -> Nat]
    BY <2>1, SizesIs
  <2>. QED
    BY <2>1, <2>2
<1>3. \A n \in DOMAIN reported : FreeOn(n) \in Nat
  BY <1>2 DEF FreeOn, Less
<1>4. DOMAIN seen \subseteq MemNode /\ seen \in [DOMAIN seen -> Nat]
      /\ \A n \in DOMAIN seen : seen[n] >= 1
  BY <1>2, <1>3
<1>5. Moves(c, w)
  <2>1. memCall' = [memCall EXCEPT ![c] =
             IF Total(seen) < size
             THEN [NoCall EXCEPT !.pc = "refused", !.size = size, !.seen = seen]
             ELSE [NoCall EXCEPT !.pc = "take", !.size = size, !.seen = seen]]
    BY DEF Ask
  <2> HIDE DEF seen
  <2>2. w = IF Total(seen) < size
            THEN [NoCall EXCEPT !.pc = "refused", !.size = size, !.seen = seen]
            ELSE [NoCall EXCEPT !.pc = "take", !.size = size, !.seen = seen]
    BY DEF NoCall
  <2> HIDE DEF w
  <2>. QED
    BY <2>1, <2>2 DEF Moves
<1>6. seen \in Sizes
  <2> HIDE DEF seen
  <2>. QED
    BY <1>4, SizesIs
<1>7. Nothing \in Sizes /\ DOMAIN Nothing = {}
  <2>1. DOMAIN Nothing = {} /\ Nothing \in [DOMAIN Nothing -> Nat]
    BY DEF Nothing
  <2>. QED
    BY <2>1, SizesIs
<1>8. size \in 0..MaxSize /\ size > 0 /\ pc \in {"refused", "take"}
  BY SizeAssumption
<1>9. Total(seen) = SumOf(seen, DOMAIN seen)
  <2> HIDE DEF seen
  <2>. QED
    BY TotalIs
<1> HIDE DEF seen
<1>10. (pc = "refused" => Total(seen) < size) /\ pc # "got" /\ pc # "add" /\ pc # "subtract"
  OBVIOUS
<1> HIDE DEF pc
<1>11. w \in MfState
  BY <1>6, <1>7, <1>8 DEF MfState
<1>12. /\ w.pc = pc /\ w.size = size /\ w.seen = seen /\ w.segs = Nothing /\ w.todo = {}
  OBVIOUS
<1> HIDE DEF w
<1>13. OwnNodes(w)
  BY <1>10, <1>12 DEF OwnNodes
<1>14. SumOf(Nothing, {}) = 0
  <2>1. Nothing \in [{} -> Nat] /\ IsFiniteSet({}) /\ {} \in SUBSET {}
    BY FS_EmptySet DEF Nothing
  <2>. QED
    BY <2>1, SumFacts
<1>15. Greedy(w)
  BY <1>4, <1>7, <1>8, <1>12, <1>14 DEF Greedy, Largest
<1>16. Taken(w)
  <2> HIDE DEF Greedy
  <2>. QED
    BY <1>9, <1>10, <1>12, <1>15 DEF Taken
<1>17. reserved' = reserved /\ reserved \in [MemNode -> Nat]
  BY <1>1 DEF Ask, MfTypes
<1>18. Settles(c, w)
  <2>1. \A n \in MemNode : Share(memCall[c], n) = 0 /\ Share(w, n) = 0
    <3>1. Booked(memCall[c]) = {}
      BY <1>1 DEF Booked, NoCall
    <3>2. Booked(w) = {}
      BY <1>7, <1>8, <1>12 DEF Booked
    <3>. QED
      BY <3>1, <3>2 DEF Share
  <2>2. Written(w, reserved')
    BY <1>10, <1>12 DEF Written
  <2> HIDE DEF Share
  <2>. QED
    BY <1>17, <2>1, <2>2 DEF Settles
<1>19. memCall[c].pc # "got" /\ w.pc # "got"
  BY <1>1, <1>10, <1>12 DEF NoCall
<1>20. /\ crossed' = Crossing(c) /\ reported' = reported /\ memReports' = memReports
       /\ allocations' = allocations
  BY DEF Ask
<1> HIDE DEF Moves, OwnNodes, Taken, Settles
<1>. QED
  BY <1>5, <1>11, <1>13, <1>16, <1>17, <1>18, <1>19, <1>20, CallGoesOn

(* Greedy looks at three fields only. *)
LEMMA GreedyStays ==
    ASSUME NEW v, NEW w, w.size = v.size, w.seen = v.seen, w.segs = v.segs, Greedy(v)
    PROVE  Greedy(w)
BY DEF Greedy

(* What a call is that takes. *)
LEMMA InTaking ==
    ASSUME MfInv, NEW c \in MemCall, memCall[c].pc \in {"take", "add", "got"}
    PROVE  Greedy(memCall[c])
BY DEF MfInv, Taking, Taken

(* The segments and the free sizes of a call are sizes. *)
LEMMA OwnSegments ==
    ASSUME MfInv, NEW c \in MemCall
    PROVE  /\ MfTypes /\ OwnNodes(memCall[c])
           /\ DOMAIN memCall[c].segs \subseteq MemNode
           /\ memCall[c].segs \in [DOMAIN memCall[c].segs -> Nat]
           /\ IsFiniteSet(DOMAIN memCall[c].segs)
           /\ DOMAIN memCall[c].seen \subseteq MemNode
           /\ memCall[c].seen \in [DOMAIN memCall[c].seen -> Nat]
           /\ IsFiniteSet(DOMAIN memCall[c].seen)
<1>1. MfTypes /\ OwnNodes(memCall[c])
  BY DEF MfInv, Allocations
<1>2. memCall[c].segs \in Sizes /\ memCall[c].seen \in Sizes
  BY <1>1, CallFields
<1> HIDE DEF OwnNodes
<1>. QED
  BY <1>1, <1>2, SizesTyped

(* One more node of a greedy choice, as large as any left. *)
LEMMA GreedyGrows ==
    ASSUME NEW seen, NEW segs, NEW size \in Nat, NEW n \in DOMAIN seen \ DOMAIN segs,
           IsFiniteSet(DOMAIN seen), seen \in [DOMAIN seen -> Nat],
           DOMAIN segs \subseteq DOMAIN seen, segs \in [DOMAIN segs -> Nat],
           SumOf(segs, DOMAIN segs) < size, Largest(seen, DOMAIN segs),
           \A m \in DOMAIN segs : segs[m] = seen[m],
           \A m \in DOMAIN seen : seen[m] >= 1,
           \A m \in DOMAIN seen \ DOMAIN segs : seen[n] >= seen[m],
           NEW k \in Nat, NEW next,
           k = IF seen[n] < size - SumOf(segs, DOMAIN segs) THEN seen[n]
               ELSE size - SumOf(segs, DOMAIN segs),
           DOMAIN next = DOMAIN segs \cup {n}, next \in [DOMAIN next -> Nat],
           next[n] = k, \A m \in DOMAIN segs : next[m] = segs[m],
           NEW w, w.size = size, w.seen = seen, w.segs = next
    PROVE  Greedy(w) /\ k >= 1
<1> DEFINE D == DOMAIN segs
           E == D \cup {n}
<1>1. D \in SUBSET DOMAIN seen /\ E \in SUBSET DOMAIN seen /\ n \notin D
      /\ DOMAIN seen \in SUBSET DOMAIN seen
  BY FS_Subset
<1>2. IsFiniteSet(D) /\ IsFiniteSet(E)
  BY <1>1, FS_Subset
<1>3. SumOf(segs, D) \in Nat /\ seen[n] \in Nat /\ seen[n] >= 1
  <2>1. SumOf(segs, D) \in Nat
    BY <1>2, SumFacts
  <2>. QED
    BY <2>1
<1>4. k >= 1 /\ k <= seen[n] /\ k + SumOf(segs, D) <= size
      /\ (k # seen[n] => k + SumOf(segs, D) = size)
  BY <1>3
<1>5. DOMAIN next = E /\ next \in [E -> Nat] /\ next[n] = k /\ \A m \in D : next[m] = segs[m]
  BY <1>1
<1>6. SumOf(next, E) = k + SumOf(segs, D)
  <2>1. E \ {n} = D /\ n \in E /\ E \in SUBSET E /\ D \subseteq E /\ D \subseteq D
    BY <1>1
  <2>2. SumOf(next, E) = next[n] + SumOf(next, E \ {n})
    BY <1>2, <1>5, <2>1, SumFacts
  <2>3. SumOf(next, D) = SumOf(segs, D)
    BY <1>2, <1>5, <2>1, SumsAgree
  <2>. QED
    BY <1>5, <2>1, <2>2, <2>3
<1>7. \A m \in E : next[m] \in 1..seen[m]
  <2>1. \A m \in D : next[m] = seen[m] /\ seen[m] \in Nat /\ seen[m] >= 1
    BY <1>1, <1>5
  <2>. QED
    BY <1>3, <1>4, <1>5, <2>1
<1>8. E \ {n} = D
  BY <1>1
<1>9. CASE k + SumOf(segs, D) = size
  <2>1. SumOf(next, E) = size
    BY <1>6, <1>9
  <2>2. SumOf(seen, D) = SumOf(segs, D)
    <3>1. D \subseteq D /\ D \subseteq DOMAIN seen
      BY <1>1
    <3> HIDE DEF D
    <3>2. \A m \in D : segs[m] = seen[m]
      BY DEF D
    <3>3. segs \in [D -> Nat]
      BY DEF D
    <3>. QED
      BY <1>1, <1>2, <3>1, <3>2, <3>3, SumsAgree
  <2>3. SumOf(seen, E \ {n}) < size /\ Largest(seen, E \ {n})
    BY <1>8, <2>2
  <2>. QED
    BY <1>1, <1>4, <1>5, <1>7, <2>1, <2>3 DEF Greedy
<1>10. CASE k + SumOf(segs, D) # size
  <2>1. SumOf(next, E) < size /\ k = seen[n]
    BY <1>3, <1>4, <1>6, <1>10
  <2>2. \A m \in E : next[m] = seen[m]
    BY <1>5, <2>1
  <2>3. Largest(seen, E)
    BY <1>1 DEF Largest
  <2>. QED
    BY <1>1, <1>4, <1>5, <1>7, <2>1, <2>2, <2>3 DEF Greedy
<1>. QED
  BY <1>9, <1>10

(* It takes the largest node left, as much as it needs of it. *)
LEMMA TakeKeeps ==
    ASSUME MfInv, NEW c \in MemCall, NEW n \in MemNode, Take(c, n)
    PROVE  MfInv'
<1> DEFINE v == memCall[c]
           D == DOMAIN v.segs
           r == Remaining(c)
           k == IF v.seen[n] < r THEN v.seen[n] ELSE r
           next == [m \in D \cup {n} |-> IF m = n THEN k ELSE v.segs[m]]
           w == [pc |-> "add", size |-> v.size, seen |-> v.seen, segs |-> next,
                 todo |-> v.todo, at |-> n, value |-> reserved[n] + k]
<1>1. /\ MfTypes /\ OwnNodes(v) /\ D \subseteq MemNode /\ v.segs \in [D -> Nat] /\ IsFiniteSet(D)
      /\ DOMAIN v.seen \subseteq MemNode /\ v.seen \in [DOMAIN v.seen -> Nat]
      /\ IsFiniteSet(DOMAIN v.seen)
  BY OwnSegments
<1>2. /\ v.pc = "take" /\ r > 0 /\ n \in LargestFirst(c)
      /\ crossed' = Crossing(c)
      /\ UNCHANGED <<reported, reserved, allocations, memReports>>
  BY DEF Take
<1>3. /\ v \in MfState /\ v.size \in 0..MaxSize /\ v.seen \in Sizes /\ v.segs \in Sizes
      /\ v.todo \in SUBSET MemNode
  BY <1>1, CallFields
<1>4. v.size \in Nat
  BY <1>3, SizeAssumption
<1>5. Moves(c, w)
  <2>1. memCall' = [memCall EXCEPT
             ![c].segs = [m \in DOMAIN @ \cup {n} |-> IF m = n THEN k ELSE @[m]],
             ![c].pc = "add", ![c].at = n, ![c].value = reserved[n] + k]
    BY DEF Take
  <2>2. memCall \in [MemCall -> MfState]
    BY <1>1 DEF MfTypes
  <2> DEFINE x == reserved[n] + k
  <2> HIDE DEF k, r, x
  <2>3. memCall' = [memCall EXCEPT ![c].segs = next, ![c].pc = "add", ![c].at = n, ![c].value = x]
    BY <2>1 DEF x
  <2> HIDE DEF next, D
  <2> DEFINE r1 == [v EXCEPT !.segs = next]
             r2 == [r1 EXCEPT !.pc = "add"]
             r3 == [r2 EXCEPT !.at = n]
             r4 == [r3 EXCEPT !.value = x]
  <2>4. memCall' = [memCall EXCEPT ![c] = r4]
    BY <2>2, <2>3
  <2>5. v = [pc |-> v.pc, size |-> v.size, seen |-> v.seen, segs |-> v.segs,
              todo |-> v.todo, at |-> v.at, value |-> v.value]
    BY <1>3 DEF MfState
  <2> HIDE DEF v
  <2>6. r1 = [pc |-> v.pc, size |-> v.size, seen |-> v.seen, segs |-> next,
              todo |-> v.todo, at |-> v.at, value |-> v.value]
    BY <2>5
  <2> HIDE DEF r1
  <2>7. r2 = [pc |-> "add", size |-> v.size, seen |-> v.seen, segs |-> next,
              todo |-> v.todo, at |-> v.at, value |-> v.value]
    BY <2>6
  <2> HIDE DEF r2
  <2>8. r3 = [pc |-> "add", size |-> v.size, seen |-> v.seen, segs |-> next,
              todo |-> v.todo, at |-> n, value |-> v.value]
    BY <2>7
  <2> HIDE DEF r3
  <2>9. r4 = [pc |-> "add", size |-> v.size, seen |-> v.seen, segs |-> next,
              todo |-> v.todo, at |-> n, value |-> x]
    BY <2>8
  <2> HIDE DEF r4
  <2>. QED
    BY <2>4, <2>9 DEF Moves, w, x
<1>6. SumOf(v.segs, D) \in Nat /\ Total(v.segs) = SumOf(v.segs, D)
  <2>1. D \in SUBSET D
    OBVIOUS
  <2>. QED
    BY <1>1, <2>1, SumFacts, TotalIs
<1>7. r = v.size - SumOf(v.segs, D) /\ SumOf(v.segs, D) < v.size
  <2> HIDE DEF D
  <2>1. r = Less(v.size, SumOf(v.segs, D))
    BY <1>6 DEF Remaining
  <2> HIDE DEF r, v
  <2>. QED
    BY <1>2, <1>4, <1>6, <2>1 DEF Less
<1>8. Greedy(v)
  BY <1>2, InTaking
<1>9. /\ D \subseteq DOMAIN v.seen /\ Largest(v.seen, D)
      /\ \A m \in D : v.segs[m] = v.seen[m]
      /\ \A m \in DOMAIN v.seen : v.seen[m] >= 1
  BY <1>6, <1>7, <1>8, <1>4 DEF Greedy
<1>10. n \in DOMAIN v.seen \ D /\ \A m \in DOMAIN v.seen \ D : v.seen[n] >= v.seen[m]
  BY <1>2 DEF LargestFirst
<1>11. k \in Nat /\ k = IF v.seen[n] < v.size - SumOf(v.segs, D) THEN v.seen[n]
                        ELSE v.size - SumOf(v.segs, D)
  BY <1>1, <1>2, <1>4, <1>6, <1>7, <1>10
<1>12. w.pc = "add" /\ w.size = v.size /\ w.seen = v.seen /\ w.segs = next /\ w.todo = v.todo
       /\ w.at = n /\ w.value = reserved[n] + k
  OBVIOUS
<1>13. reserved \in [MemNode -> Nat]
  BY <1>1 DEF MfTypes
<1> HIDE DEF w
<1>14. /\ DOMAIN next = D \cup {n} /\ next \in [DOMAIN next -> Nat]
       /\ next[n] = k /\ \A m \in D : next[m] = v.segs[m]
  BY <1>1, <1>10, <1>11
<1> HIDE DEF next, k, r
<1>15. Greedy(w)
  <2> HIDE DEF v, Largest, Greedy
  <2>. QED
    BY <1>1, <1>4, <1>7, <1>9, <1>10, <1>11, <1>12, <1>14, GreedyGrows
<1>16. next \in Sizes
  <2>1. DOMAIN next \subseteq MemNode
    BY <1>1, <1>14
  <2>. QED
    BY <1>14, <2>1, SizesIs
<1>17. w \in MfState
  <2>1. reserved[n] + k \in Nat
    BY <1>11, <1>13
  <2> HIDE DEF v
  <2>. QED
    BY <1>3, <1>16, <2>1 DEF MfState, w
<1>18. OwnNodes(w)
  BY <1>1, <1>10, <1>12, <1>14 DEF OwnNodes
<1>19. Taken(w)
  <2> HIDE DEF Greedy
  <2>. QED
    BY <1>12, <1>15 DEF Taken
<1>20. Settles(c, w)
  <2>1. \A m \in MemNode : Share(v, m) = Share(w, m)
    <3>1. Booked(v) = D /\ Booked(w) = D
      BY <1>2, <1>10, <1>12, <1>14 DEF Booked
    <3>2. \A m \in D : w.segs[m] = v.segs[m]
      BY <1>10, <1>12, <1>14
    <3>. QED
      BY <3>1, <3>2 DEF Share
  <2>2. Written(w, reserved')
    <3>1. w.segs[n] = k
      BY <1>12, <1>14
    <3>. QED
      BY <1>2, <1>12, <3>1 DEF Written
  <2> HIDE DEF Share
  <2>. QED
    BY <1>2, <2>1, <2>2 DEF Settles
<1>21. memCall[c].pc # "got" /\ w.pc # "got"
  BY <1>2, <1>12
<1> HIDE DEF Moves, OwnNodes, Taken, Settles, v
<1>. QED
  BY <1>2, <1>5, <1>13, <1>17, <1>18, <1>19, <1>20, <1>21, CallGoesOn

(* What was read with the segment added is written: the node has one more share. *)
LEMMA AddKeeps ==
    ASSUME MfInv, NEW c \in MemCall, Add(c)
    PROVE  MfInv'
<1> DEFINE v == memCall[c]
           D == DOMAIN v.segs
           w == [pc |-> "take", size |-> v.size, seen |-> v.seen, segs |-> v.segs,
                 todo |-> v.todo, at |-> "none", value |-> 0]
<1>1. /\ MfTypes /\ OwnNodes(v) /\ D \subseteq MemNode /\ v.segs \in [D -> Nat] /\ IsFiniteSet(D)
  BY OwnSegments
<1>2. /\ v.pc = "add" /\ reserved' = [reserved EXCEPT ![v.at] = v.value]
      /\ crossed' = Crossing(c) /\ UNCHANGED <<reported, allocations, memReports>>
  BY DEF Add
<1>3. /\ v \in MfState /\ v.size \in 0..MaxSize /\ v.seen \in Sizes /\ v.segs \in Sizes
      /\ v.todo \in SUBSET MemNode
  BY <1>1, CallFields
<1>4. reserved \in [MemNode -> Nat]
  BY <1>1 DEF MfTypes
<1>5. Moves(c, w)
  <2>2. memCall \in [MemCall -> MfState]
    BY <1>1 DEF MfTypes
  <2>3. memCall' = [memCall EXCEPT ![c].pc = "take", ![c].at = "none", ![c].value = 0]
    BY DEF Add
  <2> HIDE DEF D
  <2> DEFINE r1 == [v EXCEPT !.pc = "take"]
             r2 == [r1 EXCEPT !.at = "none"]
             r3 == [r2 EXCEPT !.value = 0]
  <2>4. memCall' = [memCall EXCEPT ![c] = r3]
    BY <2>2, <2>3
  <2>5. v = [pc |-> v.pc, size |-> v.size, seen |-> v.seen, segs |-> v.segs,
              todo |-> v.todo, at |-> v.at, value |-> v.value]
    BY <1>3 DEF MfState
  <2> HIDE DEF v
  <2>6. r1 = [pc |-> "take", size |-> v.size, seen |-> v.seen, segs |-> v.segs,
              todo |-> v.todo, at |-> v.at, value |-> v.value]
    BY <2>5
  <2> HIDE DEF r1
  <2>7. r2 = [pc |-> "take", size |-> v.size, seen |-> v.seen, segs |-> v.segs,
              todo |-> v.todo, at |-> "none", value |-> v.value]
    BY <2>6
  <2> HIDE DEF r2
  <2>8. r3 = [pc |-> "take", size |-> v.size, seen |-> v.seen, segs |-> v.segs,
              todo |-> v.todo, at |-> "none", value |-> 0]
    BY <2>7
  <2> HIDE DEF r3
  <2>. QED
    BY <2>4, <2>8 DEF Moves, w
<1>6. /\ w.pc = "take" /\ w.size = v.size /\ w.seen = v.seen /\ w.segs = v.segs
      /\ w.todo = v.todo /\ w.at = "none" /\ w.value = 0
  OBVIOUS
<1>7. w \in MfState
  <2>1. w.at = "none"
    BY <1>6
  <2> HIDE DEF v
  <2>. QED
    BY <1>3 DEF MfState
<1> HIDE DEF w
<1>8. OwnNodes(w)
  BY <1>1, <1>6 DEF OwnNodes
<1>9. Taken(w)
  <2>1. Greedy(v)
    BY <1>2, InTaking
  <2>2. Greedy(w)
    <3> HIDE DEF v, w, Greedy
    <3>. QED
      BY <1>6, <2>1, GreedyStays
  <2> HIDE DEF Greedy, w
  <2>. QED
    BY <1>6, <2>2 DEF Taken
<1>10. v.at \in D \ v.todo /\ v.value \in Nat /\ reserved' \in [MemNode -> Nat]
  <2>1. v.at \in D \ v.todo
    BY <1>1, <1>2 DEF OwnNodes
  <2>2. v.value \in Nat
    BY <1>3 DEF MfState
  <2>. QED
    BY <1>1, <1>2, <1>4, <2>1, <2>2
<1>11. ASSUME ~crossed' PROVE Settles(c, w)
  <2>1. v.value = reserved[v.at] + v.segs[v.at]
    BY <1>2, <1>11 DEF MfInv, Crossing, Books, Written
  <2>2. Booked(v) = D \ {v.at} /\ Booked(w) = D
    BY <1>2, <1>6 DEF Booked
  <2>3. \A n \in D : w.segs[n] = v.segs[n] /\ v.segs[n] \in Nat
    BY <1>1, <1>6
  <2>4. ASSUME NEW n \in MemNode, NEW k \in Nat, reserved[n] = Share(v, n) + k
        PROVE  reserved'[n] = Share(w, n) + k
    <3>1. CASE n = v.at
      <4>1. Share(v, n) = 0 /\ Share(w, n) = v.segs[n]
        BY <1>10, <2>2, <2>3, <3>1 DEF Share
      <4>2. reserved'[n] = v.value
        BY <1>2, <1>4, <3>1
      <4>3. v.segs[n] \in Nat /\ v.value = reserved[n] + v.segs[n]
        BY <1>10, <2>1, <2>3, <3>1
      <4> HIDE DEF Share, v
      <4>. QED
        BY <2>4, <4>1, <4>2, <4>3
    <3>2. CASE n # v.at
      <4>1. Share(v, n) = Share(w, n)
        BY <2>2, <2>3, <3>2 DEF Share
      <4>2. reserved'[n] = reserved[n]
        BY <1>2, <1>4, <3>2
      <4> HIDE DEF Share, v
      <4>. QED
        BY <2>4, <4>1, <4>2
    <3>. QED
      BY <3>1, <3>2
  <2>5. Written(w, reserved')
    BY <1>6 DEF Written
  <2> HIDE DEF Share, w, Written
  <2>. QED
    BY <2>4, <2>5 DEF Settles
<1>12. memCall[c].pc # "got" /\ w.pc # "got"
  BY <1>2, <1>6
<1> HIDE DEF Moves, OwnNodes, Taken, Settles, Greedy, v, w
<1>. QED
  BY <1>2, <1>5, <1>7, <1>8, <1>9, <1>10, <1>11, <1>12, CallGoesOn

(* release reads what is reserved on a node. *)
LEMMA ReadReservedKeeps ==
    ASSUME MfInv, NEW c \in MemCall, NEW n \in MemNode, ReadReserved(c, n)
    PROVE  MfInv'
<1> DEFINE v == memCall[c]
           D == DOMAIN v.segs
           x == Freed(c, n)
           w == [pc |-> "subtract", size |-> v.size, seen |-> v.seen, segs |-> v.segs,
                 todo |-> v.todo \ {n}, at |-> n, value |-> x]
<1>1. /\ MfTypes /\ OwnNodes(v) /\ D \subseteq MemNode /\ v.segs \in [D -> Nat] /\ IsFiniteSet(D)
  BY OwnSegments
<1>2. /\ v.pc = "free" /\ n \in v.todo /\ reserved' = reserved
      /\ crossed' = Crossing(c) /\ UNCHANGED <<reported, allocations, memReports>>
  BY DEF ReadReserved
<1>3. /\ v \in MfState /\ v.size \in 0..MaxSize /\ v.seen \in Sizes /\ v.segs \in Sizes
      /\ v.todo \in SUBSET MemNode
  BY <1>1, CallFields
<1>4. reserved \in [MemNode -> Nat]
  BY <1>1 DEF MfTypes
<1>5. Moves(c, w)
  <2>2. memCall \in [MemCall -> MfState]
    BY <1>1 DEF MfTypes
  <2>3. memCall' = [memCall EXCEPT ![c].pc = "subtract", ![c].at = n,
                                           ![c].todo = @ \ {n}, ![c].value = x]
    BY DEF ReadReserved
  <2> HIDE DEF D, x
  <2> DEFINE r1 == [v EXCEPT !.pc = "subtract"]
             r2 == [r1 EXCEPT !.at = n]
             r3 == [r2 EXCEPT !.todo = v.todo \ {n}]
             r4 == [r3 EXCEPT !.value = x]
  <2>4. memCall' = [memCall EXCEPT ![c] = r4]
    BY <2>2, <2>3
  <2>5. v = [pc |-> v.pc, size |-> v.size, seen |-> v.seen, segs |-> v.segs,
              todo |-> v.todo, at |-> v.at, value |-> v.value]
    BY <1>3 DEF MfState
  <2> HIDE DEF v
  <2>6. r1 = [pc |-> "subtract", size |-> v.size, seen |-> v.seen, segs |-> v.segs,
              todo |-> v.todo, at |-> v.at, value |-> v.value]
    BY <2>5
  <2> HIDE DEF r1
  <2>7. r2 = [pc |-> "subtract", size |-> v.size, seen |-> v.seen, segs |-> v.segs,
              todo |-> v.todo, at |-> n, value |-> v.value]
    BY <2>6
  <2> HIDE DEF r2
  <2>8. r3 = [pc |-> "subtract", size |-> v.size, seen |-> v.seen, segs |-> v.segs,
              todo |-> v.todo \ {n}, at |-> n, value |-> v.value]
    BY <2>7
  <2> HIDE DEF r3
  <2>9. r4 = [pc |-> "subtract", size |-> v.size, seen |-> v.seen, segs |-> v.segs,
              todo |-> v.todo \ {n}, at |-> n, value |-> x]
    BY <2>8
  <2> HIDE DEF r4
  <2>. QED
    BY <2>4, <2>9 DEF Moves, w
<1>6. /\ w.pc = "subtract" /\ w.size = v.size /\ w.seen = v.seen /\ w.segs = v.segs
      /\ w.todo = v.todo \ {n} /\ w.at = n /\ w.value = x
  OBVIOUS
<1>7. n \in D /\ x \in Nat
  <2>1. n \in D
    BY <1>1, <1>2 DEF OwnNodes
  <2>2. v.segs[n] \in Nat /\ reserved[n] \in Nat
    BY <1>1, <1>4, <2>1
  <2>. QED
    BY <2>1, <2>2 DEF Freed, Less
<1>8. w \in MfState
  <2> HIDE DEF v, x
  <2>. QED
    BY <1>3, <1>7 DEF MfState
<1> HIDE DEF w
<1>9. OwnNodes(w)
  <2>1. n \in D /\ v.todo \subseteq D
    BY <1>1, <1>7 DEF OwnNodes
  <2>. QED
    BY <1>6, <2>1 DEF OwnNodes
<1>10. Taken(w)
  BY <1>6 DEF Taken
<1>11. Settles(c, w)
  <2>1. Booked(v) = v.todo /\ Booked(w) = v.todo
    BY <1>2, <1>6 DEF Booked
  <2>2. \A m \in MemNode : Share(v, m) = Share(w, m)
    BY <1>6, <2>1 DEF Share
  <2>3. Written(w, reserved')
    BY <1>2, <1>6 DEF Written, Freed
  <2> HIDE DEF Share, w, Written
  <2>. QED
    BY <1>2, <2>2, <2>3 DEF Settles
<1>12. memCall[c].pc # "got" /\ w.pc # "got"
  BY <1>2, <1>6
<1> HIDE DEF Moves, OwnNodes, Taken, Settles, Greedy, v, w
<1>. QED
  BY <1>2, <1>4, <1>5, <1>8, <1>9, <1>10, <1>11, <1>12, CallGoesOn

(* And writes it without the segment: the sum is not below it, so nothing stops at
   zero. *)
LEMMA SubtractKeeps ==
    ASSUME MfInv, NEW c \in MemCall, Subtract(c)
    PROVE  MfInv'
<1> DEFINE v == memCall[c]
           D == DOMAIN v.segs
           w == [pc |-> "free", size |-> v.size, seen |-> v.seen, segs |-> v.segs,
                 todo |-> v.todo, at |-> "none", value |-> 0]
<1>1. /\ MfTypes /\ OwnNodes(v) /\ D \subseteq MemNode /\ v.segs \in [D -> Nat] /\ IsFiniteSet(D)
  BY OwnSegments
<1>2. /\ v.pc = "subtract" /\ reserved' = [reserved EXCEPT ![v.at] = v.value]
      /\ crossed' = Crossing(c) /\ UNCHANGED <<reported, allocations, memReports>>
  BY DEF Subtract
<1>3. /\ v \in MfState /\ v.size \in 0..MaxSize /\ v.seen \in Sizes /\ v.segs \in Sizes
      /\ v.todo \in SUBSET MemNode
  BY <1>1, CallFields
<1>4. reserved \in [MemNode -> Nat]
  BY <1>1 DEF MfTypes
<1>5. Moves(c, w)
  <2>2. memCall \in [MemCall -> MfState]
    BY <1>1 DEF MfTypes
  <2>3. memCall' = [memCall EXCEPT ![c].pc = "free", ![c].at = "none", ![c].value = 0]
    BY DEF Subtract
  <2> HIDE DEF D
  <2> DEFINE r1 == [v EXCEPT !.pc = "free"]
             r2 == [r1 EXCEPT !.at = "none"]
             r3 == [r2 EXCEPT !.value = 0]
  <2>4. memCall' = [memCall EXCEPT ![c] = r3]
    BY <2>2, <2>3
  <2>5. v = [pc |-> v.pc, size |-> v.size, seen |-> v.seen, segs |-> v.segs,
              todo |-> v.todo, at |-> v.at, value |-> v.value]
    BY <1>3 DEF MfState
  <2> HIDE DEF v
  <2>6. r1 = [pc |-> "free", size |-> v.size, seen |-> v.seen, segs |-> v.segs,
              todo |-> v.todo, at |-> v.at, value |-> v.value]
    BY <2>5
  <2> HIDE DEF r1
  <2>7. r2 = [pc |-> "free", size |-> v.size, seen |-> v.seen, segs |-> v.segs,
              todo |-> v.todo, at |-> "none", value |-> v.value]
    BY <2>6
  <2> HIDE DEF r2
  <2>8. r3 = [pc |-> "free", size |-> v.size, seen |-> v.seen, segs |-> v.segs,
              todo |-> v.todo, at |-> "none", value |-> 0]
    BY <2>7
  <2> HIDE DEF r3
  <2>. QED
    BY <2>4, <2>8 DEF Moves, w
<1>6. /\ w.pc = "free" /\ w.size = v.size /\ w.seen = v.seen /\ w.segs = v.segs
      /\ w.todo = v.todo /\ w.at = "none" /\ w.value = 0
  OBVIOUS
<1>7. w \in MfState
  <2>1. w.at = "none"
    BY <1>6
  <2> HIDE DEF v
  <2>. QED
    BY <1>3 DEF MfState
<1> HIDE DEF w
<1>8. OwnNodes(w)
  BY <1>1, <1>6 DEF OwnNodes
<1>9. Taken(w)
  BY <1>6 DEF Taken
<1>10. v.at \in D \ v.todo /\ v.value \in Nat /\ reserved' \in [MemNode -> Nat]
  <2>1. v.at \in D \ v.todo
    BY <1>1, <1>2 DEF OwnNodes
  <2>2. v.value \in Nat
    BY <1>3 DEF MfState
  <2>. QED
    BY <1>1, <1>2, <1>4, <2>1, <2>2
<1>11. ASSUME ~crossed' PROVE Settles(c, w)
  <2>1. v.value = Less(reserved[v.at], v.segs[v.at])
    BY <1>2, <1>11 DEF MfInv, Crossing, Books, Written
  <2>2. Booked(v) = v.todo \cup {v.at} /\ Booked(w) = v.todo
    BY <1>2, <1>6 DEF Booked
  <2>3. \A n \in D : w.segs[n] = v.segs[n] /\ v.segs[n] \in Nat
    BY <1>1, <1>6
  <2>4. ASSUME NEW n \in MemNode, NEW k \in Nat, reserved[n] = Share(v, n) + k
        PROVE  reserved'[n] = Share(w, n) + k
    <3>1. CASE n = v.at
      <4>1. Share(v, n) = v.segs[n] /\ Share(w, n) = 0
        BY <1>10, <2>2, <2>3, <3>1 DEF Share
      <4>2. reserved'[n] = v.value
        BY <1>2, <1>4, <3>1
      <4>3. v.segs[n] \in Nat /\ v.value = Less(reserved[n], v.segs[n])
        BY <1>10, <2>1, <2>3, <3>1
      <4> HIDE DEF Share, v
      <4>. QED
        BY <2>4, <4>1, <4>2, <4>3 DEF Less
    <3>2. CASE n # v.at
      <4>1. Share(v, n) = Share(w, n)
        BY <1>6, <2>2, <2>3, <3>2 DEF Share
      <4>2. reserved'[n] = reserved[n]
        BY <1>2, <1>4, <3>2
      <4> HIDE DEF Share, v
      <4>. QED
        BY <2>4, <4>1, <4>2
    <3>. QED
      BY <3>1, <3>2
  <2>5. Written(w, reserved')
    BY <1>6 DEF Written
  <2> HIDE DEF Share, w, Written
  <2>. QED
    BY <2>4, <2>5 DEF Settles
<1>12. memCall[c].pc # "got" /\ w.pc # "got"
  BY <1>2, <1>6
<1> HIDE DEF Moves, OwnNodes, Taken, Settles, Greedy, v, w
<1>. QED
  BY <1>2, <1>5, <1>7, <1>8, <1>9, <1>10, <1>11, <1>12, CallGoesOn

(* A release ends without a share. *)
LEMMA ReleasedKeeps ==
    ASSUME MfInv, NEW c \in MemCall, Released(c)
    PROVE  MfInv'
<1> DEFINE v == memCall[c]
           D == DOMAIN v.segs
           w == [pc |-> "released", size |-> v.size, seen |-> v.seen, segs |-> v.segs,
                 todo |-> v.todo, at |-> v.at, value |-> v.value]
<1>1. /\ MfTypes /\ OwnNodes(v) /\ D \subseteq MemNode /\ v.segs \in [D -> Nat] /\ IsFiniteSet(D)
  BY OwnSegments
<1>2. /\ v.pc = "free" /\ v.todo = {} /\ reserved' = reserved
      /\ crossed' = Crossing(c) /\ UNCHANGED <<reported, allocations, memReports>>
  BY DEF Released
<1>3. /\ v \in MfState /\ v.size \in 0..MaxSize /\ v.seen \in Sizes /\ v.segs \in Sizes
      /\ v.todo \in SUBSET MemNode
  BY <1>1, CallFields
<1>4. reserved \in [MemNode -> Nat]
  BY <1>1 DEF MfTypes
<1>5. Moves(c, w)
  <2>2. memCall \in [MemCall -> MfState]
    BY <1>1 DEF MfTypes
  <2>3. memCall' = [memCall EXCEPT ![c].pc = "released"]
    BY DEF Released
  <2> HIDE DEF D
  <2> DEFINE r1 == [v EXCEPT !.pc = "released"]
  <2>4. memCall' = [memCall EXCEPT ![c] = r1]
    BY <2>2, <2>3
  <2>5. v = [pc |-> v.pc, size |-> v.size, seen |-> v.seen, segs |-> v.segs,
              todo |-> v.todo, at |-> v.at, value |-> v.value]
    BY <1>3 DEF MfState
  <2> HIDE DEF v
  <2>6. r1 = [pc |-> "released", size |-> v.size, seen |-> v.seen, segs |-> v.segs,
              todo |-> v.todo, at |-> v.at, value |-> v.value]
    BY <2>5
  <2> HIDE DEF r1
  <2>. QED
    BY <2>4, <2>6 DEF Moves, w
<1>6. /\ w.pc = "released" /\ w.size = v.size /\ w.seen = v.seen /\ w.segs = v.segs
      /\ w.todo = v.todo /\ w.at = v.at /\ w.value = v.value
  OBVIOUS
<1>7. w \in MfState
  BY <1>3 DEF MfState
<1> HIDE DEF w
<1>8. OwnNodes(w)
  BY <1>1, <1>6 DEF OwnNodes
<1>9. Taken(w)
  BY <1>6 DEF Taken
<1>10. Settles(c, w)
  <2>1. Booked(v) = {} /\ Booked(w) = {}
    BY <1>2, <1>6 DEF Booked
  <2>2. \A m \in MemNode : Share(v, m) = Share(w, m)
    BY <2>1 DEF Share
  <2>3. Written(w, reserved')
    BY <1>6 DEF Written
  <2> HIDE DEF Share, w, Written
  <2>. QED
    BY <1>2, <2>2, <2>3 DEF Settles
<1>11. memCall[c].pc # "got" /\ w.pc # "got"
  BY <1>2, <1>6
<1> HIDE DEF Moves, OwnNodes, Taken, Settles, Greedy, v, w
<1>. QED
  BY <1>2, <1>4, <1>5, <1>7, <1>8, <1>9, <1>10, <1>11, CallGoesOn

(* The segments of a call that has enough become an allocation. *)
LEMMA AllocatedKeeps ==
    ASSUME MfInv, NEW c \in MemCall, Allocated(c)
    PROVE  MfInv'
<1> DEFINE v == memCall[c]
           D == DOMAIN v.segs
           w == [pc |-> "got", size |-> v.size, seen |-> v.seen, segs |-> v.segs,
                 todo |-> v.todo, at |-> v.at, value |-> v.value]
<1>1. /\ MfTypes /\ OwnNodes(v) /\ D \subseteq MemNode /\ v.segs \in [D -> Nat] /\ IsFiniteSet(D)
  BY OwnSegments
<1>2. /\ v.pc = "take" /\ Remaining(c) = 0 /\ reserved' = reserved
      /\ crossed' = Crossing(c) /\ UNCHANGED <<reported, memReports>>
  BY DEF Allocated
<1>3. /\ v \in MfState /\ v.size \in 0..MaxSize /\ v.seen \in Sizes /\ v.segs \in Sizes
      /\ v.todo \in SUBSET MemNode
  BY <1>1, CallFields
<1>4. reserved \in [MemNode -> Nat]
  BY <1>1 DEF MfTypes
<1>5. Moves(c, w)
  <2>2. memCall \in [MemCall -> MfState]
    BY <1>1 DEF MfTypes
  <2>3. memCall' = [memCall EXCEPT ![c].pc = "got"]
    BY DEF Allocated
  <2> HIDE DEF D
  <2> DEFINE r1 == [v EXCEPT !.pc = "got"]
  <2>4. memCall' = [memCall EXCEPT ![c] = r1]
    BY <2>2, <2>3
  <2>5. v = [pc |-> v.pc, size |-> v.size, seen |-> v.seen, segs |-> v.segs,
              todo |-> v.todo, at |-> v.at, value |-> v.value]
    BY <1>3 DEF MfState
  <2> HIDE DEF v
  <2>6. r1 = [pc |-> "got", size |-> v.size, seen |-> v.seen, segs |-> v.segs,
              todo |-> v.todo, at |-> v.at, value |-> v.value]
    BY <2>5
  <2> HIDE DEF r1
  <2>. QED
    BY <2>4, <2>6 DEF Moves, w
<1>6. /\ w.pc = "got" /\ w.size = v.size /\ w.seen = v.seen /\ w.segs = v.segs
      /\ w.todo = v.todo /\ w.at = v.at /\ w.value = v.value
  OBVIOUS
<1>7. w \in MfState
  BY <1>3 DEF MfState
<1> HIDE DEF w
<1>8. OwnNodes(w)
  BY <1>1, <1>6 DEF OwnNodes
<1>9. Taken(w)
  <2>1. Greedy(v)
    BY <1>2, InTaking
  <2>2. Greedy(w)
    <3> HIDE DEF v, w, Greedy
    <3>. QED
      BY <1>6, <2>1, GreedyStays
  <2> HIDE DEF Greedy, w
  <2>3. SumOf(v.segs, D) \in Nat /\ Total(v.segs) = SumOf(v.segs, D) /\ v.size \in Nat
    <3>1. D \in SUBSET D
      OBVIOUS
    <3>. QED
      BY <1>1, <1>3, <3>1, SumFacts, TotalIs, SizeAssumption
  <2>4. ~(SumOf(v.segs, D) < v.size)
    BY <1>2, <2>3 DEF Remaining, Less
  <2>5. SumOf(v.segs, D) = v.size
    BY <2>1, <2>4 DEF Greedy
  <2>. QED
    BY <1>6, <2>2, <2>5 DEF Taken
<1>10. Settles(c, w)
  <2>1. Booked(v) = D /\ Booked(w) = D
    BY <1>2, <1>6 DEF Booked
  <2>2. \A m \in MemNode : Share(v, m) = Share(w, m)
    BY <1>6, <2>1 DEF Share
  <2>3. Written(w, reserved')
    BY <1>6 DEF Written
  <2> HIDE DEF Share, w, Written
  <2>. QED
    BY <1>2, <2>2, <2>3 DEF Settles
<1>11. memCall'[c] = w /\ \A b \in MemCall \ {c} : memCall'[b] = memCall[b]
  BY <1>1, <1>5, <1>7, Moved
<1>12. /\ DOMAIN allocations = {b \in MemCall : memCall[b].pc = "got"}
       /\ \A b \in DOMAIN allocations : allocations[b] = memCall[b].segs
  BY DEF MfInv, Allocations
<1>13. /\ DOMAIN allocations' = DOMAIN allocations \cup {c}
       /\ \A b \in DOMAIN allocations' : allocations'[b] = IF b = c THEN v.segs ELSE allocations[b]
  BY DEF Allocated
<1>14. DOMAIN allocations' = {b \in MemCall : memCall'[b].pc = "got"}
  BY <1>6, <1>11, <1>12, <1>13
<1>15. \A b \in DOMAIN allocations' : allocations'[b] = memCall'[b].segs
  BY <1>6, <1>11, <1>12, <1>13
<1> HIDE DEF Moves, OwnNodes, Taken, Settles, Greedy, v, w
<1>. QED
  BY <1>2, <1>4, <1>5, <1>7, <1>8, <1>9, <1>10, <1>14, <1>15, CallMoves

(* An allocation is given back: its nodes are still to be freed. *)
LEMMA ReleaseKeeps ==
    ASSUME MfInv, NEW c \in MemCall, Release(c)
    PROVE  MfInv'
<1> DEFINE v == memCall[c]
           D == DOMAIN v.segs
           x == DOMAIN allocations[c]
           w == [pc |-> "free", size |-> v.size, seen |-> v.seen, segs |-> v.segs,
                 todo |-> x, at |-> v.at, value |-> v.value]
<1>1. /\ MfTypes /\ OwnNodes(v) /\ D \subseteq MemNode /\ v.segs \in [D -> Nat] /\ IsFiniteSet(D)
  BY OwnSegments
<1>2. /\ v.pc = "got" /\ c \in DOMAIN allocations /\ reserved' = reserved
      /\ crossed' = Crossing(c) /\ UNCHANGED <<reported, memReports>>
  BY DEF Release
<1>3. /\ v \in MfState /\ v.size \in 0..MaxSize /\ v.seen \in Sizes /\ v.segs \in Sizes
      /\ v.todo \in SUBSET MemNode
  BY <1>1, CallFields
<1>4. reserved \in [MemNode -> Nat]
  BY <1>1 DEF MfTypes
<1>5. Moves(c, w)
  <2>2. memCall \in [MemCall -> MfState]
    BY <1>1 DEF MfTypes
  <2>3. memCall' = [memCall EXCEPT ![c].pc = "free", ![c].todo = x]
    BY DEF Release
  <2> HIDE DEF D, x
  <2> DEFINE r1 == [v EXCEPT !.pc = "free"]
             r2 == [r1 EXCEPT !.todo = x]
  <2>4. memCall' = [memCall EXCEPT ![c] = r2]
    BY <2>2, <2>3
  <2>5. v = [pc |-> v.pc, size |-> v.size, seen |-> v.seen, segs |-> v.segs,
              todo |-> v.todo, at |-> v.at, value |-> v.value]
    BY <1>3 DEF MfState
  <2> HIDE DEF v
  <2>6. r1 = [pc |-> "free", size |-> v.size, seen |-> v.seen, segs |-> v.segs,
              todo |-> v.todo, at |-> v.at, value |-> v.value]
    BY <2>5
  <2> HIDE DEF r1
  <2>7. r2 = [pc |-> "free", size |-> v.size, seen |-> v.seen, segs |-> v.segs,
              todo |-> x, at |-> v.at, value |-> v.value]
    BY <2>6
  <2> HIDE DEF r2
  <2>. QED
    BY <2>4, <2>7 DEF Moves, w
<1>6. /\ w.pc = "free" /\ w.size = v.size /\ w.seen = v.seen /\ w.segs = v.segs
      /\ w.todo = x /\ w.at = v.at /\ w.value = v.value
  OBVIOUS
<1>7. x = D
  BY <1>2 DEF MfInv, Allocations
<1>8. w \in MfState
  <2>1. x \in SUBSET MemNode
    BY <1>1, <1>7
  <2> HIDE DEF v, x
  <2>. QED
    BY <1>3, <2>1 DEF MfState
<1> HIDE DEF w, x
<1>9. OwnNodes(w)
  BY <1>1, <1>6, <1>7 DEF OwnNodes
<1>10. Taken(w)
  BY <1>6 DEF Taken
<1>11. Settles(c, w)
  <2>1. Booked(v) = D /\ Booked(w) = D
    BY <1>2, <1>6, <1>7 DEF Booked
  <2>2. \A m \in MemNode : Share(v, m) = Share(w, m)
    BY <1>6, <2>1 DEF Share
  <2>3. Written(w, reserved')
    BY <1>6 DEF Written
  <2> HIDE DEF Share, w, Written
  <2>. QED
    BY <1>2, <2>2, <2>3 DEF Settles
<1>12. memCall'[c] = w /\ \A b \in MemCall \ {c} : memCall'[b] = memCall[b]
  BY <1>1, <1>5, <1>8, Moved
<1>13. /\ DOMAIN allocations = {b \in MemCall : memCall[b].pc = "got"}
       /\ \A b \in DOMAIN allocations : allocations[b] = memCall[b].segs
  BY DEF MfInv, Allocations
<1>14. /\ DOMAIN allocations' = DOMAIN allocations \ {c}
       /\ \A b \in DOMAIN allocations' : allocations'[b] = allocations[b]
  BY DEF Release
<1>15. DOMAIN allocations' = {b \in MemCall : memCall'[b].pc = "got"}
  BY <1>6, <1>12, <1>13, <1>14
<1>16. \A b \in DOMAIN allocations' : allocations'[b] = memCall'[b].segs
  BY <1>6, <1>12, <1>13, <1>14
<1> HIDE DEF Moves, OwnNodes, Taken, Settles, Greedy, v, w
<1>. QED
  BY <1>2, <1>4, <1>5, <1>8, <1>9, <1>10, <1>11, <1>15, <1>16, CallMoves

(* Agents' reports change no call and no reservation. *)
LEMMA NodeChangesKeeps ==
    ASSUME MfInv, NEW n \in MemNode, NodeChanges(n)
    PROVE  MfInv'
<1>1. /\ MfTypes /\ memReports' \in Nat
      /\ UNCHANGED <<reserved, allocations, memCall, crossed>>
  BY DEF MfInv, MfTypes, NodeChanges
<1>2. DOMAIN reported \subseteq MemNode /\ reported \in [DOMAIN reported -> Nat]
  BY <1>1, SizesIs DEF MfTypes
<1>3. reported' \in Sizes
  <2>1. CASE \E k \in 0..MaxFree : reported' =
               [m \in DOMAIN reported \cup {n} |-> IF m = n THEN k ELSE reported[m]]
    <3>1. PICK k \in 0..MaxFree : reported' =
               [m \in DOMAIN reported \cup {n} |-> IF m = n THEN k ELSE reported[m]]
      BY <2>1
    <3>2. DOMAIN reported' \subseteq MemNode /\ reported' \in [DOMAIN reported' -> Nat]
      BY <1>2, <3>1, SizeAssumption
    <3>. QED
      BY <3>2, SizesIs
  <2>2. CASE reported' = [m \in DOMAIN reported \ {n} |-> reported[m]]
    <3>1. DOMAIN reported' \subseteq MemNode /\ reported' \in [DOMAIN reported' -> Nat]
      BY <1>2, <2>2
    <3>. QED
      BY <3>1, SizesIs
  <2>. QED
    BY <2>1, <2>2 DEF NodeChanges
<1>4. MfTypes'
  BY <1>1, <1>3 DEF MfTypes
<1>5. Allocations' /\ Taking'
  <2> HIDE DEF OwnNodes, Taken
  <2>. QED
    BY <1>1 DEF MfInv, Allocations, Taking
<1>6. ASSUME ~crossed' PROVE Books'
  <2>1. Books
    BY <1>1, <1>6 DEF MfInv
  <2>2. \A m \in MemNode : Shares(m)' = Shares(m)
    <3> HIDE DEF Share
    <3>. QED
      BY <1>1 DEF Shares
  <2> HIDE DEF Shares, Written
  <2>. QED
    BY <1>1, <2>1, <2>2 DEF Books
<1>. QED
  BY <1>4, <1>5, <1>6 DEF MfInv

(* Nothing is reserved at first. *)
LEMMA MfInitially == ASSUME MfInit PROVE MfInv
<1>1. DOMAIN Nothing = {} /\ Nothing \in Sizes
  <2>1. DOMAIN Nothing = {} /\ Nothing \in [DOMAIN Nothing -> Nat]
    BY DEF Nothing
  <2>. QED
    BY <2>1, SizesIs
<1>2. reported \in Sizes
  <2>1. DOMAIN reported \subseteq MemNode /\ reported \in [DOMAIN reported -> Nat]
    BY SizeAssumption DEF MfInit
  <2>. QED
    BY <2>1, SizesIs
<1>3. NoCall \in MfState
  BY <1>1, SizeAssumption DEF NoCall, MfState
<1>4. /\ memCall = [c \in MemCall |-> NoCall] /\ reserved = [n \in MemNode |-> 0]
      /\ allocations = [c \in {} |-> Nothing] /\ crossed = FALSE /\ memReports = MaxReports
  BY DEF MfInit
<1>5. MfTypes
  <2> HIDE DEF NoCall
  <2>. QED
    BY <1>2, <1>3, <1>4, SizeAssumption DEF MfTypes
<1>6. \A c \in MemCall : memCall[c].pc = "none" /\ memCall[c].todo = {}
  BY <1>4 DEF NoCall
<1>7. Allocations
  BY <1>4, <1>6 DEF Allocations, OwnNodes
<1>8. Taking
  BY <1>6 DEF Taking, Taken
<1>9. Books
  <2>1. ASSUME NEW n \in MemNode PROVE reserved[n] = SumOf(Shares(n), MemCall)
    <3> DEFINE f == Shares(n)
    <3>1. \A c \in MemCall : Share(memCall[c], n) = 0
      BY <1>6 DEF Share, Booked
    <3>2. f \in [MemCall -> Nat] /\ \A c \in MemCall : f[c] = 0
      <4> HIDE DEF Share
      <4>. QED
        BY <3>1 DEF Shares
    <3> HIDE DEF f
    <3>3. {} \in SUBSET MemCall /\ IsFiniteSet(MemCall) /\ MemCall \ {} = MemCall
      BY SizeAssumption
    <3>4. SumOf(f, {}) = 0 /\ SumOf(f, {}) = SumOf(f, MemCall)
      <4>1. SumOf(f, {}) = 0
        BY <3>2, <3>3, SumFacts
      <4>2. SumOf(f, {}) = SumOf(f, MemCall)
        BY <3>2, <3>3, SumGrows
      <4>. QED
        BY <4>1, <4>2
    <3>. QED
      BY <1>4, <3>4 DEF f
  <2>2. \A c \in MemCall : Written(memCall[c], reserved)
    BY <1>6 DEF Written
  <2> HIDE DEF Shares, Written
  <2>. QED
    BY <2>1, <2>2 DEF Books
<1>. QED
  BY <1>5, <1>7, <1>8, <1>9 DEF MfInv

(* One step of each kind. *)
LEMMA MfStep == ASSUME MfInv, [MfNext]_mfVars PROVE MfInv'
<1>1. CASE MfNext
  <2>1. CASE \E c \in MemCall : \E size \in 1..MaxSize : Ask(c, size)
    BY <2>1, AllocateKeeps
  <2>2. CASE \E c \in MemCall : \E n \in MemNode : Take(c, n) \/ ReadReserved(c, n)
    BY <2>2, TakeKeeps, ReadReservedKeeps
  <2>3. CASE \E c \in MemCall : \/ Add(c) \/ Allocated(c) \/ Release(c) \/ Subtract(c)
                                \/ Released(c)
    BY <2>3, AddKeeps, AllocatedKeeps, ReleaseKeeps, SubtractKeeps, ReleasedKeeps
  <2>4. CASE \E n \in MemNode : NodeChanges(n)
    BY <2>4, NodeChangesKeeps
  <2>. QED
    BY <1>1, <2>1, <2>2, <2>3, <2>4 DEF MfNext
<1>2. CASE UNCHANGED mfVars
  <2>1. /\ UNCHANGED <<reported, reserved, allocations, memCall, crossed, memReports>>
    BY <1>2 DEF mfVars
  <2>2. MfTypes'
    BY <2>1 DEF MfInv, MfTypes
  <2>3. Allocations' /\ Taking'
    <3> HIDE DEF OwnNodes, Taken
    <3>. QED
      BY <2>1 DEF MfInv, Allocations, Taking
  <2>4. ASSUME ~crossed' PROVE Books'
    <3>1. Books
      BY <2>1, <2>4 DEF MfInv
    <3>2. \A m \in MemNode : Shares(m)' = Shares(m)
      <4> HIDE DEF Share
      <4>. QED
        BY <2>1 DEF Shares
    <3> HIDE DEF Shares, Written
    <3>. QED
      BY <2>1, <3>1, <3>2 DEF Books
  <2>. QED
    BY <2>2, <2>3, <2>4 DEF MfInv
<1>. QED
  BY <1>1, <1>2

(* The invariant holds throughout. *)
LEMMA MfInvariant == MfSpec => []MfInv
<1>1. MfInit => MfInv
  BY MfInitially
<1>2. MfInv /\ [MfNext]_mfVars => MfInv'
  BY MfStep
<1>. QED
  BY <1>1, <1>2, PTL DEF MfSpec

(* The invariant has the types. *)
LEMMA MfTypesShown == ASSUME MfInv PROVE MfTypeOK
<1>1. MfTypes /\ Allocations
  BY DEF MfInv
<1>2. \A f \in Sizes : IsSizes(f)
  BY DEF Sizes, IsSizes
<1>3. IsSizes(reported) /\ reserved \in [MemNode -> Nat] /\ crossed \in BOOLEAN
      /\ memReports \in Nat
  BY <1>1, <1>2 DEF MfTypes
<1>4. ASSUME NEW c \in MemCall
      PROVE  /\ memCall[c].pc \in {"none", "take", "add", "got", "refused", "free",
                                   "subtract", "released"}
             /\ memCall[c].size \in 0..MaxSize /\ IsSizes(memCall[c].seen)
             /\ IsSizes(memCall[c].segs) /\ memCall[c].todo \subseteq MemNode
             /\ memCall[c].at \in MemNode \cup {"none"} /\ memCall[c].value \in Nat
  <2>1. memCall[c] \in MfState
    BY <1>1 DEF MfTypes
  <2> HIDE DEF IsSizes
  <2>. QED
    BY <1>2, <2>1 DEF MfState
<1>5. DOMAIN allocations \subseteq MemCall
      /\ \A c \in DOMAIN allocations : IsSizes(allocations[c])
  <2> HIDE DEF IsSizes
  <2>. QED
    BY <1>1, <1>4 DEF Allocations
<1> HIDE DEF IsSizes
<1>. QED
  BY <1>3, <1>4, <1>5 DEF MfTypeOK

(* While no call is under way, only allocations have shares. *)
LEMMA BooksShown == ASSUME MfInv PROVE BooksBalance
<1> SUFFICES ASSUME ~crossed, \A c \in MemCall : ~UnderWay(c), NEW n \in MemNode
             PROVE  reserved[n] = MapThenSumSet(LAMBDA c : allocations[c][n],
                          {c \in DOMAIN allocations : n \in DOMAIN allocations[c]})
  BY DEF BooksBalance
<1> DEFINE S == {c \in DOMAIN allocations : n \in DOMAIN allocations[c]}
           f == Shares(n)
           h == [c \in S |-> allocations[c][n]]
<1>1. /\ MfTypes /\ DOMAIN allocations = {c \in MemCall : memCall[c].pc = "got"}
      /\ \A c \in DOMAIN allocations : allocations[c] = memCall[c].segs
  BY DEF MfInv, Allocations
<1>2. S \in SUBSET MemCall /\ IsFiniteSet(S) /\ IsFiniteSet(MemCall) /\ S \subseteq MemCall
      /\ S \subseteq S
  <2>1. S \in SUBSET MemCall
    BY <1>1
  <2>. QED
    BY <2>1, FS_Subset, SizeAssumption
<1>3. \A c \in MemCall : memCall[c].segs \in [DOMAIN memCall[c].segs -> Nat]
  BY OwnSegments
<1>4. \A c \in S : allocations[c][n] \in Nat /\ Share(memCall[c], n) = allocations[c][n]
  BY <1>1, <1>3 DEF Share, Booked
<1>5. \A c \in MemCall \ S : Share(memCall[c], n) = 0
  <2>1. \A c \in MemCall : memCall[c].pc \in {"none", "got", "refused", "released"}
    BY DEF UnderWay
  <2>2. \A c \in MemCall \ S : memCall[c].pc = "got" => n \notin DOMAIN memCall[c].segs
    BY <1>1
  <2>. QED
    BY <2>1, <2>2 DEF Share, Booked
<1>6. f \in [MemCall -> Nat] /\ \A c \in MemCall : f[c] = Share(memCall[c], n)
  <2>1. \A c \in MemCall : Share(memCall[c], n) \in Nat
    BY <1>4, <1>5
  <2> HIDE DEF Share
  <2>. QED
    BY <2>1 DEF Shares
<1>7. \A c \in S : allocations[c][n] \in Nat
  BY <1>4
<1>8. h \in [S -> Nat] /\ \A c \in S : h[c] = allocations[c][n]
  <2> HIDE DEF S
  <2>. QED
    BY <1>7
<1> HIDE DEF S, f, h, Share
<1>9. MapThenSumSet(LAMBDA c : allocations[c][n], S) = SumOf(h, S)
  BY <1>2, <1>7, ColumnSum, ZenonT(30) DEF h
<1>10. SumOf(f, S) = SumOf(f, MemCall)
  <2>1. \A c \in MemCall \ S : f[c] = 0
    BY <1>5, <1>6
  <2>. QED
    BY <1>2, <1>6, <2>1, SumGrows
<1>11. SumOf(f, S) = SumOf(h, S)
  <2>1. \A c \in S : f[c] = h[c]
    BY <1>2, <1>4, <1>6, <1>8
  <2>. QED
    BY <1>2, <1>6, <1>8, <2>1, SumsAgree
<1>12. reserved[n] = SumOf(f, MemCall)
  BY DEF MfInv, Books, f
<1>. QED
  BY <1>9, <1>10, <1>11, <1>12 DEF S

(* Fewer nodes than the greedy choice have no more than its nodes but the last. *)
LEMMA AllocationShown == ASSUME MfInv PROVE AllocationSound
<1> SUFFICES ASSUME NEW c \in MemCall
             PROVE  /\ c \in DOMAIN allocations =>
                         /\ Total(allocations[c]) = memCall[c].size
                         /\ \A n \in DOMAIN allocations[c] :
                              allocations[c][n] \in 1..memCall[c].seen[n]
                         /\ \A S \in SUBSET DOMAIN memCall[c].seen :
                              MapThenSumSet(LAMBDA n : memCall[c].seen[n], S) >= memCall[c].size =>
                                Cardinality(DOMAIN allocations[c]) <= Cardinality(S)
                    /\ memCall[c].pc = "refused" =>
                         ~(MapThenSumSet(LAMBDA n : memCall[c].seen[n], DOMAIN memCall[c].seen)
                             >= memCall[c].size)
  BY DEF AllocationSound
<1> DEFINE v == memCall[c]
           D == DOMAIN v.segs
           U == DOMAIN v.seen
<1>1. /\ MfTypes /\ D \subseteq MemNode /\ v.segs \in [D -> Nat] /\ IsFiniteSet(D)
      /\ v.seen \in [U -> Nat] /\ IsFiniteSet(U)
  BY OwnSegments
<1>2. v.size \in Nat
  <2>1. v.size \in 0..MaxSize
    BY <1>1, CallFields
  <2>. QED
    BY <2>1, SizeAssumption
<1>3. \A S \in SUBSET U : SumOf(v.seen, S) \in Nat
  <2> HIDE DEF U, v
  <2>. QED
    BY <1>1, SumFacts
<1>4. \A S : MapThenSumSet(LAMBDA n : v.seen[n], S) = SumOf(v.seen, S)
  BY DEF SumOf
<1>5. v.pc = "refused" => ~(SumOf(v.seen, U) >= v.size)
  <2>1. v.pc = "refused" => SumOf(v.seen, U) < v.size
    BY DEF MfInv, Taking, Taken
  <2>. QED
    BY <1>2, <1>3, <2>1
<1>6. ASSUME c \in DOMAIN allocations
      PROVE  /\ Total(allocations[c]) = v.size
             /\ \A n \in DOMAIN allocations[c] : allocations[c][n] \in 1..v.seen[n]
             /\ \A S \in SUBSET U : SumOf(v.seen, S) >= v.size =>
                                      Cardinality(DOMAIN allocations[c]) <= Cardinality(S)
  <2>1. v.pc = "got" /\ allocations[c] = v.segs
    BY <1>6 DEF MfInv, Allocations
  <2>2. Greedy(v) /\ SumOf(v.segs, D) = v.size
    BY <2>1 DEF MfInv, Taking, Taken
  <2>3. D \subseteq U /\ \A n \in D : v.segs[n] \in 1..v.seen[n]
    BY <2>2 DEF Greedy
  <2>4. PICK last \in D : SumOf(v.seen, D \ {last}) < v.size /\ Largest(v.seen, D \ {last})
    BY <1>2, <2>2 DEF Greedy
  <2> DEFINE E == D \ {last}
  <2>5. ASSUME NEW S \in SUBSET U, SumOf(v.seen, S) >= v.size
        PROVE  Cardinality(D) <= Cardinality(S)
    <3>1. IsFiniteSet(S) /\ Cardinality(S) \in Nat /\ Cardinality(D) \in Nat
          /\ Cardinality(E) = Cardinality(D) - 1
      <4>1. IsFiniteSet(S)
        BY <1>1, FS_Subset
      <4>. QED
        BY <1>1, <2>4, <4>1, FS_CardinalityType, FS_RemoveElement
    <3>2. ASSUME Cardinality(S) <= Cardinality(E) PROVE FALSE
      <4>1. E \in SUBSET U
        BY <2>3
      <4>2. \A n \in E, m \in U \ E : v.seen[n] >= v.seen[m]
        BY <2>4 DEF Largest
      <4>3. SumOf(v.seen, S) <= SumOf(v.seen, E)
        <5> HIDE DEF E, U, v
        <5>. QED
          BY <1>1, <2>5, <3>2, <4>1, <4>2, LargestAreMost
      <4>4. SumOf(v.seen, E) \in Nat /\ SumOf(v.seen, S) \in Nat /\ SumOf(v.seen, E) < v.size
        BY <1>3, <2>4, <4>1
      <4> HIDE DEF E, v
      <4>. QED
        BY <1>2, <2>5, <4>3, <4>4
    <3> HIDE DEF E, D
    <3>. QED
      BY <3>1, <3>2
  <2>6. Total(v.segs) = SumOf(v.segs, D)
    BY TotalIs
  <2> HIDE DEF v, U
  <2>. QED
    BY <2>1, <2>2, <2>3, <2>5, <2>6
<1>. QED
  BY <1>4, <1>5, <1>6

(* Every variable stays in its type. *)
THEOREM MemoryTypeCorrect == MfSpec => []MfTypeOK
<1>1. MfInv => MfTypeOK
  BY MfTypesShown
<1>. QED
  BY <1>1, MfInvariant, PTL

(* For any nodes, calls and sizes: while no call is under way, what is reserved on a
   node is what its allocations have there, unless calls crossed: every segment that
   allocate adds to _reserved is subtracted once by release, and only once. *)
THEOREM BooksKept == MfSpec => []BooksBalance
<1>1. MfInv => BooksBalance
  BY BooksShown
<1>. QED
  BY <1>1, MfInvariant, PTL

(* For any nodes and sizes, whatever other calls do: what allocate returns adds up to
   the size, takes no more than it saw free, and has as few segments as any choice;
   what it refuses no choice holds. *)
THEOREM AllocationsSound == MfSpec => []AllocationSound
<1>1. MfInv => AllocationSound
  BY AllocationShown
<1>. QED
  BY <1>1, MfInvariant, PTL
=============================================================================
