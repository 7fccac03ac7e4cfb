-------------------------- MODULE ClusterHealthProofs --------------------------
(***************************************************************************)
(* Proofs about ClusterHealth, for every set of nodes and of API threads   *)
(* and all thresholds: the type invariant, the detection times             *)
(* (CurrentVerdict) and the absence of false deaths (PunctualNodeKept).    *)
(***************************************************************************)
EXTENDS ClusterHealth, TLAPS

-----------------------------------------------------------------------------
(* Arithmetic: Missed compares with a threshold as elapsed does with the
   threshold in ticks. *)

LEMMA DivThreshold ==
    ASSUME NEW a \in Nat, NEW b \in Nat \ {0}, NEW d \in Nat
    PROVE  a \div b >= d <=> a >= d * b
<1> DEFINE q == a \div b
<1>1. q \in Nat /\ q * b =< a /\ a < (q + 1) * b
  OBVIOUS
<1>2. CASE q >= d
  <2>1. q * b >= d * b
    BY <1>1, <1>2
  <2> QED BY <1>1, <1>2, <2>1
<1>3. CASE q + 1 =< d
  <2>1. (q + 1) * b =< d * b
    BY <1>1, <1>3
  <2> QED BY <1>1, <1>3, <2>1
<1> QED BY <1>1, <1>2, <1>3

LEMMA HorizonPositive ==
    /\ Horizon \in Nat \ {0}
    /\ SuspectedMisses * Interval \in Nat \ {0}
BY IntervalAssumption, ThresholdAssumption DEF Horizon

(* What evaluate decides, in ticks. *)
LEMMA VerdictInTicks ==
    ASSUME NEW n \in Node, elapsed[n] \in Nat
    PROVE  /\ Verdict(n) \in Verdicts
           /\ elapsed[n] >= Horizon => Verdict(n) = "DEAD"
           /\ elapsed[n] >= SuspectedMisses * Interval => Verdict(n) # "HEALTHY"
           /\ elapsed[n] < Horizon /\ n \notin explicitDead
                 => Verdict(n) # "DEAD"
<1>1. Missed(n) >= DeadMisses <=> elapsed[n] >= Horizon
  BY DivThreshold, IntervalAssumption, ThresholdAssumption DEF Missed, Horizon
<1>2. Missed(n) >= SuspectedMisses <=> elapsed[n] >= SuspectedMisses * Interval
  BY DivThreshold, IntervalAssumption, ThresholdAssumption DEF Missed
<1>3. Horizon \in Nat
  BY HorizonPositive
<1> QED BY <1>1, <1>2, <1>3 DEF Verdict, Verdicts
-----------------------------------------------------------------------------
(* Type correctness *)

LEMMA InitType == Init => TypeOK
<1> SUFFICES ASSUME Init PROVE TypeOK
  OBVIOUS
<1> 0 \in 0..Horizon
  BY HorizonPositive
<1> QED BY DEF Init, TypeOK, NodeState, Verdicts, Evaluator

LEMMA NextType == TypeOK /\ [Next]_vars => TypeOK'
<1> SUFFICES ASSUME TypeOK, [Next]_vars PROVE TypeOK'
  OBVIOUS
<1> USE DEF TypeOK
<1>0. 0 \in 0..Horizon /\ Horizon \in Nat
  BY HorizonPositive
<1>1. ASSUME NEW n \in Node, RegisterNode(n) PROVE TypeOK'
  BY <1>0, <1>1 DEF RegisterNode, SignOfLife, threads, loop, NodeState
<1>2. ASSUME NEW n \in Node, Heartbeat(n) PROVE TypeOK'
  BY <1>0, <1>2 DEF Heartbeat, SignOfLife, tables, threads, loop, NodeState
<1>3. ASSUME NEW n \in Node, PreemptionWarning(n) PROVE TypeOK'
  BY <1>3 DEF PreemptionWarning, tracker, threads, loop, history, NodeState
<1>4. ASSUME NEW n \in Node, AgentStops(n) PROVE TypeOK'
  BY <1>4 DEF AgentStops, tracker, tables, threads, loop, history
<1>5. ASSUME StartPass PROVE TypeOK'
  BY <1>5 DEF StartPass, Tracked, tracker, tables, threads, history
<1>6. ASSUME NEW e \in Evaluator, NEW n \in Node, Decide(e, n) PROVE TypeOK'
  <2>1. Verdict(n) \in Verdicts
    BY VerdictInTicks, <1>0
  <2>2. pc' \in [Evaluator ->
                   {"idle", "decided", "notified", "forgot", "recovering"}]
        /\ target' \in [Evaluator -> Node \cup {None}]
        /\ verdict' \in [Evaluator -> Verdicts]
        /\ \A f \in Evaluator : pc'[f] # "idle" => target'[f] \in Node
    BY <1>6, <2>1 DEF Decide
  <2>3. wasDead' \in BOOLEAN
    BY <1>6 DEF Decide
  <2> QED BY <1>6, <2>2, <2>3 DEF Decide, tracker, tables, loop, history
<1>7. ASSUME NEW e \in Evaluator, Write(e) PROVE TypeOK'
  <2> target[e] \in Node /\ HealthLoop \in Evaluator
    BY <1>7 DEF Write, Evaluator
  <2>1. state' \in [Node -> NodeState] /\ checked' \subseteq Node
    BY <1>7 DEF Write, Verdicts, NodeState
  <2>2. pc' \in [Evaluator ->
                   {"idle", "decided", "notified", "forgot", "recovering"}]
        /\ target' \in [Evaluator -> Node \cup {None}]
        /\ \A f \in Evaluator : pc'[f] # "idle" => target'[f] \in Node
    BY <1>7 DEF Write, Return
  <2>3. todo' \subseteq Node /\ swept' \in BOOLEAN
    BY <1>7 DEF Write, loop
  <2>4. verdict' \in [Evaluator -> Verdicts]
    BY <1>7 DEF Write, Verdicts
  <2>5. wasDead' \in BOOLEAN
    BY <1>7 DEF Write
  <2> QED BY <1>7, <2>1, <2>2, <2>3, <2>4, <2>5 DEF Write, tables
<1>8. ASSUME ForgetAgent PROVE TypeOK'
  <2> HealthLoop \in Evaluator /\ target[HealthLoop] \in Node
    BY <1>8 DEF ForgetAgent, Evaluator
  <2> QED BY <1>8 DEF ForgetAgent, tracker, loop, NodeState
<1>9. ASSUME ForceDead PROVE TypeOK'
  <2> HealthLoop \in Evaluator /\ target[HealthLoop] \in Node
    BY <1>9 DEF ForceDead, Evaluator
  <2> QED BY <1>9 DEF ForceDead, tables, loop, history, NodeState
<1>10. ASSUME RecoveryEnds PROVE TypeOK'
  BY <1>10 DEF RecoveryEnds, Return, tracker, tables, loop, history, Evaluator
<1>11. ASSUME Tick PROVE TypeOK'
  <2>1. elapsed' \in [Node -> 0..Horizon]
    BY <1>0, <1>11 DEF Tick
  <2> QED BY <1>11, <2>1 DEF Tick, tables, threads
<1>12. ASSUME DriverRestart PROVE TypeOK'
  BY <1>0, <1>12 DEF DriverRestart, NodeState, Verdicts
<1>13. CASE UNCHANGED vars
  BY <1>13 DEF vars
<1> QED
  BY <1>1, <1>2, <1>3, <1>4, <1>5, <1>6, <1>7, <1>8, <1>9, <1>10, <1>11,
     <1>12, <1>13 DEF Next, Evaluate

(* Every variable of ClusterHealth stays in its type. *)
THEOREM TypeCorrect == Spec => []TypeOK
BY InitType, NextType, PTL DEF Spec
-----------------------------------------------------------------------------
(* Detection times.  CurrentVerdict is not inductive: a thread may be about to
   write a verdict it decided on earlier.  What makes it safe is that such a
   verdict is as severe as the silence of its node requires, because time does
   not pass between the two halves and a heartbeat only lowers the silence. *)

Severe(n, v) ==
    /\ elapsed[n] >= Horizon => v = "DEAD"
    /\ elapsed[n] >= SuspectedMisses * Interval => v # "HEALTHY"

PendingSevere ==
    \A e \in Evaluator : pc[e] = "decided" => Severe(target[e], verdict[e])

DetectionInv == TypeOK /\ CurrentVerdict /\ PendingSevere

LEMMA NextDetection == DetectionInv /\ [Next]_vars => DetectionInv'
<1> SUFFICES ASSUME DetectionInv, [Next]_vars
             PROVE  CurrentVerdict' /\ PendingSevere'
  BY NextType DEF DetectionInv
<1> USE DEF DetectionInv, TypeOK, CurrentVerdict, PendingSevere, Severe
<1>0. Horizon \in Nat \ {0} /\ SuspectedMisses * Interval \in Nat \ {0}
  BY HorizonPositive
<1>s. ASSUME NEW n \in Node, SignOfLife(n), UNCHANGED threads
      PROVE  CurrentVerdict' /\ PendingSevere'
  BY <1>0, <1>s DEF SignOfLife, threads
<1>1. ASSUME NEW n \in Node, RegisterNode(n)
      PROVE  CurrentVerdict' /\ PendingSevere'
  BY <1>1, <1>s DEF RegisterNode, threads
<1>2. ASSUME NEW n \in Node, Heartbeat(n)
      PROVE  CurrentVerdict' /\ PendingSevere'
  BY <1>2, <1>s DEF Heartbeat, threads
<1>3. ASSUME NEW n \in Node, PreemptionWarning(n) \/ AgentStops(n)
      PROVE  CurrentVerdict' /\ PendingSevere'
  BY <1>3 DEF PreemptionWarning, AgentStops, tracker, threads, history
<1>4. ASSUME StartPass PROVE CurrentVerdict' /\ PendingSevere'
  BY <1>4 DEF StartPass, tracker, threads, history
<1>5. ASSUME NEW e \in Evaluator, NEW n \in Node, Decide(e, n)
      PROVE  CurrentVerdict' /\ PendingSevere'
  <2>1. Severe(n, Verdict(n))
    BY VerdictInTicks
  <2>2. CurrentVerdict'
    BY <1>5 DEF Decide, tracker, history
  <2>3. PendingSevere'
    BY <1>5, <2>1 DEF Decide, tracker
  <2> QED BY <2>2, <2>3
<1>6. ASSUME NEW e \in Evaluator, Write(e)
      PROVE  CurrentVerdict' /\ PendingSevere'
  <2> target[e] \in Node /\ Severe(target[e], verdict[e])
    BY <1>6 DEF Write
  <2>1. CurrentVerdict'
    BY <1>6 DEF Write
  <2>2. ASSUME NEW f \in Evaluator, pc'[f] = "decided"
        PROVE  f # e /\ pc[f] = "decided" /\ target'[f] = target[f]
               /\ verdict'[f] = verdict[f]
    BY <1>6, <2>2 DEF Write, Return
  <2>3. PendingSevere'
    BY <1>6, <2>2 DEF Write
  <2> QED BY <2>1, <2>3
<1>7. ASSUME ForgetAgent PROVE CurrentVerdict' /\ PendingSevere'
  BY <1>7 DEF ForgetAgent, tracker
<1>8. ASSUME ForceDead PROVE CurrentVerdict' /\ PendingSevere'
  BY <1>8 DEF ForceDead, history
<1>9. ASSUME RecoveryEnds PROVE CurrentVerdict' /\ PendingSevere'
  BY <1>9 DEF RecoveryEnds, Return, tracker, history
<1>10. ASSUME Tick PROVE CurrentVerdict' /\ PendingSevere'
  BY <1>10 DEF Tick, threads
<1>11. ASSUME DriverRestart PROVE CurrentVerdict' /\ PendingSevere'
  BY <1>11 DEF DriverRestart
<1>12. CASE UNCHANGED vars
  BY <1>12 DEF vars
<1> QED
  BY <1>1, <1>2, <1>3, <1>4, <1>5, <1>6, <1>7, <1>8, <1>9, <1>10, <1>11, <1>12
     DEF Next, Evaluate

(* A node visited in this tick is DEAD, or at least not HEALTHY, when its
   silence has reached the thresholds, however many API threads write verdicts
   of their own between the steps of the health loop. *)
THEOREM DetectionTimes == Spec => []CurrentVerdict
<1>1. Init => DetectionInv
  BY InitType DEF Init, DetectionInv, CurrentVerdict, PendingSevere
<1>2. DetectionInv => CurrentVerdict
  BY DEF DetectionInv
<1> QED BY <1>1, <1>2, NextDetection, PTL DEF Spec
-----------------------------------------------------------------------------
(* No false deaths.  For a node that never lapsed, no thread may be about to
   write DEAD, and the death handler may not be at work on it. *)

NoDeathPending ==
    \A e \in Evaluator : pc[e] = "decided" /\ verdict[e] = "DEAD"
                          => target[e] \in lapsed
HandlesLapsed ==
    pc[HealthLoop] \in {"notified", "forgot", "recovering"}
        => target[HealthLoop] \in lapsed
PunctualInTime == \A n \in Node \ lapsed : elapsed[n] < Horizon

PunctualInv ==
    TypeOK /\ PunctualNodeKept /\ PunctualInTime /\ NoDeathPending /\ HandlesLapsed

LEMMA NextPunctual == PunctualInv /\ [Next]_vars => PunctualInv'
<1> DEFINE Goal == PunctualNodeKept /\ PunctualInTime
                   /\ NoDeathPending /\ HandlesLapsed
<1> SUFFICES ASSUME PunctualInv, [Next]_vars PROVE Goal'
  BY NextType DEF PunctualInv
<1> USE DEF PunctualInv, TypeOK, PunctualNodeKept, PunctualInTime,
            NoDeathPending, HandlesLapsed
<1>0. Horizon \in Nat \ {0} /\ HealthLoop \in Evaluator
  BY HorizonPositive DEF Evaluator
<1>1. ASSUME NEW n \in Node, RegisterNode(n) PROVE Goal'
  BY <1>0, <1>1 DEF RegisterNode, SignOfLife, threads
<1>2. ASSUME NEW n \in Node, Heartbeat(n) PROVE Goal'
  BY <1>0, <1>2 DEF Heartbeat, SignOfLife, tables, threads
<1>3. ASSUME NEW n \in Node, PreemptionWarning(n) \/ AgentStops(n) PROVE Goal'
  BY <1>3 DEF PreemptionWarning, AgentStops, tracker, tables, threads, history
<1>4. ASSUME StartPass PROVE Goal'
  BY <1>4 DEF StartPass, tracker, tables, threads, history
<1>5. ASSUME NEW e \in Evaluator, NEW n \in Node, Decide(e, n) PROVE Goal'
  <2>1. Verdict(n) = "DEAD" => n \in lapsed
    BY VerdictInTicks
  <2>2. NoDeathPending' /\ HandlesLapsed'
    BY <1>0, <1>5, <2>1 DEF Decide, history
  <2> QED BY <1>5, <2>2 DEF Decide, tracker, tables, history
<1>6. ASSUME NEW e \in Evaluator, Write(e) PROVE Goal'
  <2>1. target[e] \in Node /\ (verdict[e] = "DEAD" => target[e] \in lapsed)
    BY <1>6 DEF Write
  <2>2. PunctualNodeKept' /\ PunctualInTime'
    BY <1>6, <2>1 DEF Write, tables
  <2>3. NoDeathPending'
    BY <1>6 DEF Write, Return
  <2>4. HandlesLapsed'
    BY <1>0, <1>6, <2>1 DEF Write, Return
  <2> QED BY <2>2, <2>3, <2>4
<1>7. ASSUME ForgetAgent PROVE Goal'
  BY <1>0, <1>7 DEF ForgetAgent, tracker
<1>8. ASSUME ForceDead PROVE Goal'
  BY <1>0, <1>8 DEF ForceDead, tables, history
<1>9. ASSUME RecoveryEnds PROVE Goal'
  BY <1>0, <1>9 DEF RecoveryEnds, Return, tracker, tables, history
<1>10. ASSUME Tick PROVE Goal'
  <2>1. PunctualInTime'
    BY <1>0, <1>10 DEF Tick
  <2> QED BY <1>0, <1>10, <2>1 DEF Tick, tables, threads
<1>11. ASSUME DriverRestart PROVE Goal'
  BY <1>0, <1>11 DEF DriverRestart
<1>12. CASE UNCHANGED vars
  BY <1>12 DEF vars
<1> QED
  BY <1>1, <1>2, <1>3, <1>4, <1>5, <1>6, <1>7, <1>8, <1>9, <1>10, <1>11, <1>12
     DEF Next, Evaluate

(* A node whose heartbeats always came in time is never called dead, never
   recovered from and never loses its handle, for any thresholds and any
   number of threads. *)
THEOREM NoFalseDeath == Spec => []PunctualNodeKept
<1>1. Init => PunctualInv
  BY InitType, HorizonPositive
     DEF Init, PunctualInv, PunctualNodeKept, PunctualInTime, NoDeathPending,
         HandlesLapsed, Evaluator
<1>2. PunctualInv => PunctualNodeKept
  BY DEF PunctualInv
<1> QED BY <1>1, <1>2, NextPunctual, PTL DEF Spec
=============================================================================
