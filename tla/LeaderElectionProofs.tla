-------------------------- MODULE LeaderElectionProofs --------------------------
(***************************************************************************)
(* Proofs about LeaderElection, for any number of drivers and any lease,   *)
(* renewal interval and bound on terms: the type invariant, that an owner  *)
(* can renew, how long a leader that lost its lease goes on leading, and   *)
(* how long nobody leads.                                                  *)
(***************************************************************************)
EXTENDS LeaderElection, TLAPS

(* Type correctness *)

LEMMA InitType == Init => TypeOK
BY LeaseAssumption, TermAssumption DEF Init, TypeOK, Expired

LEMMA PlanType ==
    ASSUME NEW d \in Driver, NEW t \in Nat
    PROVE  Plan(d, t) \in {"none", "insert", "take", "same"}
BY DEF Plan

LEMMA NextType == TypeOK /\ [Next]_vars => TypeOK'
<1> SUFFICES ASSUME TypeOK, [Next]_vars PROVE TypeOK'
  OBVIOUS
<1> USE LeaseAssumption, TermAssumption DEF TypeOK, Expired
<1>try. ASSUME NEW d \in Driver, NEW after \in {"starting", "trying"}, Try(d, after)
        PROVE  /\ term' \in [Driver -> 0..MaxTerm]
               /\ plan' \in [Driver -> {"none", "insert", "take", "same"}]
               /\ pc' \in [Driver -> {"off", "starting", "due", "trying",
                                      "renewing", "waiting", "ended"}]
  <2>1. Plan(d, term[d] + 1) \in {"none", "insert", "take", "same"}
    BY PlanType
  <2> QED BY <1>try, <2>1 DEF Try
<1>1. ASSUME NEW d \in Driver, Start(d) PROVE TypeOK'
  BY <1>1, <1>try DEF Start, history
<1>2. ASSUME NEW d \in Driver, Acquire(d) PROVE TypeOK'
  <2>1. row' \in [owner : Driver \cup {None}, term : Nat, left : Expired..Lease]
    BY <1>2 DEF Acquire
  <2>2. /\ isLeader' \subseteq Driver /\ stopped' \subseteq Driver
        /\ term' \in [Driver -> 0..MaxTerm]
        /\ wait' \in [Driver -> 0..Renew]
        /\ pc' \in [Driver -> {"off", "starting", "due", "trying", "renewing",
                               "waiting", "ended"}]
    BY <1>2 DEF Acquire, Rest
  <2>3. leaderless' \in [Driver -> Nat]
    BY <1>2 DEF Acquire
  <2> QED BY <1>2, <2>1, <2>2, <2>3 DEF Acquire
<1>3. ASSUME NEW d \in Driver, LoopEnds(d) PROVE TypeOK'
  BY <1>3 DEF LoopEnds, history
<1>4. ASSUME NEW d \in Driver, LoopTries(d) PROVE TypeOK'
  BY <1>4, <1>try DEF LoopTries, history
<1>5. ASSUME NEW d \in Driver, Renews(d) PROVE TypeOK'
  BY <1>5 DEF Renews, history
<1>6. ASSUME NEW d \in Driver, StepsDown(d) PROVE TypeOK'
  BY <1>6, <1>try DEF StepsDown
<1>7. ASSUME NEW d \in Driver, Extend(d) PROVE TypeOK'
  BY <1>7 DEF Extend, Rest, history
<1>8. ASSUME NEW d \in Driver, Stop(d) PROVE TypeOK'
  BY <1>8 DEF Stop, history
<1>9. ASSUME NEW d \in Driver, Crash(d) PROVE TypeOK'
  BY <1>9 DEF Crash
<1>10. ASSUME Tick PROVE TypeOK'
  <2>1. row' \in [owner : Driver \cup {None}, term : Nat, left : Expired..Lease]
    BY <1>10 DEF Tick
  <2>2. wait' \in [Driver -> 0..Renew]
    BY <1>10 DEF Tick, WakesUp
  <2>3. stale' \in [Driver -> Nat] /\ leaderless' \in [Driver -> Nat]
    BY <1>10 DEF Tick
  <2> QED BY <1>10, <2>1, <2>2, <2>3 DEF Tick
<1>11. CASE UNCHANGED vars
  BY <1>11 DEF vars
<1> QED BY <1>1, <1>2, <1>3, <1>4, <1>5, <1>6, <1>7, <1>8, <1>9, <1>10, <1>11
        DEF Next

(* Every variable of LeaderElection stays in its type. *)
THEOREM TypeCorrect == Spec => []TypeOK
BY InitType, NextType, PTL DEF Spec
-----------------------------------------------------------------------------
(* Owners can renew.  The invariant needs to know about drivers that are
   between the SELECT and the end of an attempt: they do not lead, and when
   they found that the row is already theirs, it still carries their term
   unless another driver has taken it. *)

Attempting(d) == pc[d] \in {"starting", "trying"}

NoLeaderAttempts ==
    \A d \in Driver : pc[d] = "off" \/ Attempting(d) => d \notin isLeader
PlanStillRight ==
    \A d \in Driver : Attempting(d) /\ plan[d] = "same" /\ row.owner = d
                        => row.term = term[d]

OwnerInv == TypeOK /\ OwnerCanRenew /\ NoLeaderAttempts /\ PlanStillRight

LEMMA NextOwner == OwnerInv /\ [Next]_vars => OwnerInv'
<1> DEFINE Goal == OwnerCanRenew /\ NoLeaderAttempts /\ PlanStillRight
<1> SUFFICES ASSUME OwnerInv, [Next]_vars PROVE Goal'
  BY NextType DEF OwnerInv
<1> USE NoneAssumption, TermAssumption
    DEF OwnerInv, TypeOK, OwnerCanRenew, NoLeaderAttempts, PlanStillRight, Attempting
<1>try. ASSUME NEW d \in Driver, NEW after \in {"starting", "trying"},
               Try(d, after), isLeader' = isLeader \ {d}, row' = row
        PROVE  Goal'
  <2>1. Plan(d, term[d] + 1) = "same" => row.term = term[d] + 1
    BY DEF Plan
  <2>2. PlanStillRight'
    BY <1>try, <2>1 DEF Try
  <2> QED BY <1>try, <2>2 DEF Try
<1>1. ASSUME NEW d \in Driver, Start(d) PROVE Goal'
  <2>1. isLeader' = isLeader \ {d}
    BY <1>1 DEF Start
  <2> QED BY <1>1, <1>try, <2>1 DEF Start
<1>2. ASSUME NEW d \in Driver, Acquire(d) PROVE Goal'
  <2>1. OwnerCanRenew'
    BY <1>2 DEF Acquire
  <2>2. NoLeaderAttempts'
    BY <1>2 DEF Acquire, Rest
  <2>3. PlanStillRight'
    BY <1>2 DEF Acquire, Rest
  <2> QED BY <2>1, <2>2, <2>3
<1>3. ASSUME NEW d \in Driver, LoopEnds(d) PROVE Goal'
  BY <1>3 DEF LoopEnds
<1>4. ASSUME NEW d \in Driver, LoopTries(d) PROVE Goal'
  <2>1. isLeader' = isLeader \ {d}
    BY <1>4 DEF LoopTries
  <2> QED BY <1>4, <1>try, <2>1 DEF LoopTries
<1>5. ASSUME NEW d \in Driver, Renews(d) PROVE Goal'
  BY <1>5 DEF Renews
<1>6. ASSUME NEW d \in Driver, StepsDown(d) PROVE Goal'
  BY <1>6, <1>try DEF StepsDown
<1>7. ASSUME NEW d \in Driver, Extend(d) PROVE Goal'
  BY <1>7 DEF Extend, Rest
<1>8. ASSUME NEW d \in Driver, Stop(d) PROVE Goal'
  BY <1>8 DEF Stop
<1>9. ASSUME NEW d \in Driver, Crash(d) PROVE Goal'
  BY <1>9 DEF Crash
<1>10. ASSUME Tick PROVE Goal'
  BY <1>10 DEF Tick
<1>11. CASE UNCHANGED vars
  BY <1>11 DEF vars
<1> QED BY <1>1, <1>2, <1>3, <1>4, <1>5, <1>6, <1>7, <1>8, <1>9, <1>10, <1>11
        DEF Next

(* A driver that leads and owns the row can renew its lease, after any race,
   restart and lowered term. *)
THEOREM OwnersRenew == Spec => []OwnerCanRenew
<1>1. Init => OwnerInv
  BY InitType DEF Init, OwnerInv, OwnerCanRenew, NoLeaderAttempts,
                  PlanStillRight, Attempting
<1>2. OwnerInv => OwnerCanRenew
  BY DEF OwnerInv
<1> QED BY <1>1, <1>2, NextOwner, PTL DEF Spec
-----------------------------------------------------------------------------
(* Stale leaders.  While a driver waits, the ticks it has been stale and the
   ticks it has still to wait add up to one interval at most; everywhere else
   in its loop it is not stale, because a renewal goes on only for the owner. *)

StaleInLoop ==
    \A d \in Driver :
        /\ pc[d] \notin {"waiting", "ended"} => stale[d] = 0
        /\ pc[d] = "waiting" => stale[d] + wait[d] =< Renew
StaleIsReal ==
    \A d \in Driver : stale[d] > 0 => row.owner # d /\ d \in isLeader \cup stopped

StaleInv ==
    OwnerInv /\ StaleLeaderStepsDown /\ StaleInLoop /\ StaleIsReal

LEMMA NextStale == StaleInv /\ [Next]_vars => StaleInv'
<1> DEFINE Goal == StaleLeaderStepsDown /\ StaleInLoop /\ StaleIsReal
<1> SUFFICES ASSUME StaleInv, [Next]_vars PROVE Goal'
  BY NextOwner DEF StaleInv
<1> USE NoneAssumption, LeaseAssumption
    DEF StaleInv, OwnerInv, TypeOK, StaleLeaderStepsDown, StaleInLoop, StaleIsReal
<1>1. ASSUME NEW d \in Driver, Start(d) PROVE Goal'
  BY <1>1 DEF Start, Try, history
<1>2. ASSUME NEW d \in Driver, Acquire(d) PROVE Goal'
  <2>1. stale[d] = 0
    BY <1>2 DEF Acquire
  <2>2. StaleInLoop'
    BY <1>2, <2>1 DEF Acquire, Rest
  <2>3. StaleIsReal'
    BY <1>2, <2>1 DEF Acquire
  <2> QED BY <1>2, <2>2, <2>3 DEF Acquire
<1>3. ASSUME NEW d \in Driver, LoopEnds(d) PROVE Goal'
  BY <1>3 DEF LoopEnds, history
<1>4. ASSUME NEW d \in Driver, LoopTries(d) PROVE Goal'
  BY <1>4 DEF LoopTries, Try, history
<1>5. ASSUME NEW d \in Driver, Renews(d) PROVE Goal'
  BY <1>5 DEF Renews, Owns, history
<1>6. ASSUME NEW d \in Driver, StepsDown(d) PROVE Goal'
  BY <1>6 DEF StepsDown, Try
<1>7. ASSUME NEW d \in Driver, Extend(d) PROVE Goal'
  BY <1>7 DEF Extend, Rest, history
<1>8. ASSUME NEW d \in Driver, Stop(d) PROVE Goal'
  BY <1>8 DEF Stop, history
<1>9. ASSUME NEW d \in Driver, Crash(d) PROVE Goal'
  BY <1>9 DEF Crash
<1>10. ASSUME Tick PROVE Goal'
  <2>1. ASSUME NEW d \in Driver
        PROVE  /\ stale'[d] =< Renew
               /\ pc'[d] \notin {"waiting", "ended"} => stale'[d] = 0
               /\ pc'[d] = "waiting" => stale'[d] + wait'[d] =< Renew
               /\ stale'[d] > 0 => row'.owner # d /\ d \in isLeader' \cup stopped'
    <3>1. CASE d \in Leading /\ row.owner # d
      <4>1. pc[d] = "waiting" /\ wait[d] > 0
        BY <1>10, <3>1 DEF Tick, Leading, Running, WakesUp
      <4>2. stale'[d] = stale[d] + 1 /\ wait'[d] = wait[d] - 1
            /\ row'.owner = row.owner
        BY <1>10, <3>1, <4>1 DEF Tick
      <4> QED BY <1>10, <3>1, <4>1, <4>2 DEF Tick, Leading
    <3>2. CASE ~(d \in Leading /\ row.owner # d)
      <4>1. stale'[d] = 0
        BY <1>10, <3>2 DEF Tick
      <4>2. pc'[d] = "waiting" => wait'[d] =< Renew
        BY <1>10 DEF Tick
      <4> QED BY <1>10, <4>1, <4>2 DEF Tick
    <3> QED BY <3>1, <3>2
  <2> QED BY <2>1
<1>11. CASE UNCHANGED vars
  BY <1>11 DEF vars
<1> QED BY <1>1, <1>2, <1>3, <1>4, <1>5, <1>6, <1>7, <1>8, <1>9, <1>10, <1>11
        DEF Next

(* Two drivers may lead at once, but the one that lost the row stops within
   one renewal interval, for any number of drivers. *)
THEOREM StaleLeadersStop == Spec => []StaleLeaderStepsDown
<1>1. Init => StaleInv
  BY InitType, LeaseAssumption
     DEF Init, StaleInv, OwnerInv, OwnerCanRenew, NoLeaderAttempts, PlanStillRight,
         Attempting, StaleLeaderStepsDown, StaleInLoop, StaleIsReal
<1>2. StaleInv => StaleLeaderStepsDown
  BY DEF StaleInv
<1> QED BY <1>1, <1>2, NextStale, PTL DEF Spec
-----------------------------------------------------------------------------
(* Vacancies.  A vacancy begins when a leader is there or the row is prolonged,
   lasts while the lease runs down, and then until the next attempt of the
   driver that waits: each tick takes one from the lease, or from the wait. *)

NoVacancy == \A d \in Driver : leaderless[d] = 0

LeaderFillsVacancy ==
    Leading # {} \/ (\E d \in Driver : pc[d] = "renewing") => NoVacancy
VacancyWithLease ==
    row.left # Expired => \A d \in Driver : leaderless[d] + row.left =< Lease
VacancyInLoop ==
    \A d \in Driver :
        /\ pc[d] = "waiting" => leaderless[d] + wait[d] =< Lease + Renew
        /\ Attempting(d) /\ plan[d] = "none" => leaderless[d] =< Lease

VacancyInv ==
    OwnerInv /\ VacancyBounded /\ LeaderFillsVacancy /\ VacancyWithLease /\ VacancyInLoop

(* Steps that let no time pass, make no leader and prolong nothing. *)
LEMMA QuietVacancy ==
    ASSUME VacancyInv, row' = row, leaderless' = leaderless,
           Leading' \subseteq Leading,
           \A d \in Driver :
              /\ pc'[d] = "renewing" => pc[d] = "renewing" \/ d \in Leading
              /\ pc'[d] = "waiting" => pc[d] = "waiting" /\ wait'[d] = wait[d]
              /\ Attempting(d)' /\ plan'[d] = "none" =>
                    (Attempting(d) /\ plan[d] = "none") \/ row.left # Expired
    PROVE  (VacancyBounded /\ LeaderFillsVacancy /\ VacancyWithLease /\ VacancyInLoop)'
<1>1. VacancyBounded' /\ VacancyWithLease'
  BY DEF VacancyInv, VacancyBounded, VacancyWithLease
<1>2. LeaderFillsVacancy'
  <2>1. NoVacancy => NoVacancy'
    BY DEF NoVacancy
  <2>2. Leading' # {} \/ (\E d \in Driver : pc'[d] = "renewing")
          => Leading # {} \/ (\E d \in Driver : pc[d] = "renewing")
    OBVIOUS
  <2> QED BY <2>1, <2>2 DEF VacancyInv, LeaderFillsVacancy
<1>3. VacancyInLoop'
  <2>1. row.left # Expired => \A d \in Driver : leaderless[d] =< Lease
    BY LeaseAssumption DEF VacancyInv, VacancyWithLease, OwnerInv, TypeOK, Expired
  <2> QED BY <2>1 DEF VacancyInv, VacancyInLoop
<1> QED BY <1>1, <1>2, <1>3

LEMMA TryVacancy ==
    ASSUME VacancyInv, NEW d \in Driver, NEW after \in {"starting", "trying"}, Try(d, after),
           row' = row, leaderless' = leaderless, wait' = wait,
           isLeader' \subseteq isLeader, d \notin isLeader'
    PROVE  (VacancyBounded /\ LeaderFillsVacancy /\ VacancyWithLease /\ VacancyInLoop)'
<1>1. /\ pc \in [Driver -> {"off", "starting", "due", "trying", "renewing", "waiting", "ended"}]
      /\ plan \in [Driver -> {"none", "insert", "take", "same"}]
  BY DEF VacancyInv, OwnerInv, TypeOK
<1>2. /\ pc' = [pc EXCEPT ![d] = after]
      /\ plan' = [plan EXCEPT ![d] = Plan(d, term[d] + 1)]
  BY DEF Try
<1>3. Plan(d, term[d] + 1) = "none" => row.left # Expired
  BY DEF Plan
<1>4. Leading' \subseteq Leading
  BY <1>1, <1>2 DEF Leading, Running
<1>5. \A e \in Driver \ {d} : pc'[e] = pc[e] /\ plan'[e] = plan[e]
  BY <1>1, <1>2
<1>6. pc'[d] = after /\ plan'[d] = Plan(d, term[d] + 1)
  BY <1>1, <1>2
<1>7. \A e \in Driver :
        /\ pc'[e] = "renewing" => pc[e] = "renewing" \/ e \in Leading
        /\ pc'[e] = "waiting" => pc[e] = "waiting" /\ wait'[e] = wait[e]
        /\ Attempting(e)' /\ plan'[e] = "none" =>
              (Attempting(e) /\ plan[e] = "none") \/ row.left # Expired
  BY <1>3, <1>5, <1>6 DEF Attempting
<1> QED BY <1>4, <1>7, QuietVacancy

LEMMA NextVacancy == VacancyInv /\ [Next]_vars => VacancyInv'
<1> DEFINE Goal == VacancyBounded /\ LeaderFillsVacancy /\ VacancyWithLease /\ VacancyInLoop
<1> SUFFICES ASSUME VacancyInv, [Next]_vars PROVE Goal'
  BY NextOwner DEF VacancyInv
<1>types. /\ row \in [owner : Driver \cup {None}, term : Nat, left : Expired..Lease]
          /\ isLeader \subseteq Driver
          /\ pc \in [Driver -> {"off", "starting", "due", "trying", "renewing",
                                "waiting", "ended"}]
          /\ wait \in [Driver -> 0..Renew] /\ leaderless \in [Driver -> Nat]
          /\ plan \in [Driver -> {"none", "insert", "take", "same"}]
          /\ Lease \in Nat /\ Renew \in Nat \ {0} /\ Expired = -1
  BY LeaseAssumption DEF VacancyInv, OwnerInv, TypeOK, Expired
<1>next. TypeOK' /\ NoLeaderAttempts'
  BY NextOwner DEF VacancyInv, OwnerInv
<1>1. ASSUME NEW d \in Driver, Start(d) PROVE Goal'
  <2>1. d \notin isLeader
    BY <1>1 DEF Start, VacancyInv, OwnerInv, NoLeaderAttempts
  <2> QED BY <1>1, <2>1, TryVacancy DEF Start, history
<1>2. ASSUME NEW d \in Driver, Acquire(d) PROVE Goal'
  <2>1. CASE Leading' # {}
    <3>1. /\ leaderless' = [e \in Driver |-> 0]
          /\ row'.left = row.left \/ row'.left = Lease
          /\ \A e \in Driver : wait'[e] \in 0..Renew
      BY <1>2, <2>1, <1>next, <1>types DEF Acquire, TypeOK
    <3>2. row'.left =< Lease
      BY <3>1, <1>types
    <3> QED
      BY <3>1, <3>2, <1>types
         DEF VacancyBounded, LeaderFillsVacancy, VacancyWithLease, VacancyInLoop, NoVacancy
  <2>2. CASE Leading' = {}
    <3>1. leaderless' = leaderless
      BY <1>2, <2>2 DEF Acquire
    <3>2. CASE plan[d] = "insert" /\ row.owner # None
      <4>1. /\ row' = row /\ pc' = [pc EXCEPT ![d] = "off"] /\ wait' = wait
            /\ plan' = [plan EXCEPT ![d] = "none"]
        BY <1>2, <3>2 DEF Acquire
      <4> QED
        BY <2>2, <3>1, <4>1, <1>types, QuietVacancy DEF Attempting
    <3>3. CASE ~(plan[d] = "insert" /\ row.owner # None)
      <4>1. /\ isLeader' = IF plan[d] = "none" THEN isLeader ELSE isLeader \cup {d}
            /\ pc'[d] \in {"due", "waiting"}
            /\ \A e \in Driver \ {d} : pc'[e] = pc[e] /\ wait'[e] = wait[e]
            /\ plan' = [plan EXCEPT ![d] = "none"]
            /\ pc'[d] = "waiting" => wait'[d] = Renew
        BY <1>2, <3>3, <1>types DEF Acquire, Rest
      <4>2. plan[d] = "none"
        BY <2>2, <4>1 DEF Leading, Running
      <4>3. row' = row
        BY <1>2, <4>2 DEF Acquire
      <4>4. leaderless[d] =< Lease
        BY <1>2, <4>2 DEF Acquire, VacancyInv, VacancyInLoop, Attempting
      <4>5. VacancyInLoop'
        <5>1. leaderless[d] \in Nat
          BY <1>types
        <5>2. pc'[d] = "waiting" => leaderless'[d] + wait'[d] =< Lease + Renew
          BY <3>1, <4>1, <4>4, <5>1, <1>types
        <5>3. ~Attempting(d)'
          BY <4>1 DEF Attempting
        <5>4. \A e \in Driver \ {d} : plan'[e] = plan[e] /\ leaderless'[e] = leaderless[e]
          BY <3>1, <4>1, <1>types
        <5> QED BY <3>1, <4>1, <5>2, <5>3, <5>4 DEF VacancyInv, VacancyInLoop, Attempting
      <4>6. LeaderFillsVacancy'
        <5>1. (\E e \in Driver : pc'[e] = "renewing") => \E e \in Driver : pc[e] = "renewing"
          BY <4>1
        <5> QED BY <2>2, <3>1, <5>1 DEF VacancyInv, LeaderFillsVacancy, NoVacancy
      <4> QED
        BY <3>1, <4>3, <4>5, <4>6 DEF VacancyInv, VacancyBounded, VacancyWithLease
    <3> QED BY <3>2, <3>3
  <2> QED BY <2>1, <2>2
<1>3. ASSUME NEW d \in Driver, LoopEnds(d) PROVE Goal'
  <2>1. Leading' \subseteq Leading
    BY <1>3, <1>types DEF LoopEnds, Leading, Running, WakesUp
  <2> QED BY <1>3, <2>1, <1>types, QuietVacancy DEF LoopEnds, Attempting, history
<1>4. ASSUME NEW d \in Driver, LoopTries(d) PROVE Goal'
  BY <1>4, TryVacancy DEF LoopTries, history
<1>5. ASSUME NEW d \in Driver, Renews(d) PROVE Goal'
  <2>1. d \in Leading /\ Leading' \subseteq Leading
    BY <1>5, <1>types DEF Renews, Leading, Running, WakesUp
  <2> QED BY <1>5, <2>1, <1>types, QuietVacancy DEF Renews, Attempting, history
<1>6. ASSUME NEW d \in Driver, StepsDown(d) PROVE Goal'
  BY <1>6, TryVacancy DEF StepsDown
<1>7. ASSUME NEW d \in Driver, Extend(d) PROVE Goal'
  <2>1. NoVacancy
    BY <1>7 DEF Extend, VacancyInv, LeaderFillsVacancy
  <2>2. leaderless' = leaderless /\ row'.left = Lease
    BY <1>7, <1>types DEF Extend, history
  <2>3. \A e \in Driver : wait'[e] \in 0..Renew
    BY <1>next DEF TypeOK
  <2> QED
    BY <2>1, <2>2, <2>3, <1>types
       DEF NoVacancy, VacancyBounded, LeaderFillsVacancy, VacancyWithLease, VacancyInLoop
<1>8. ASSUME NEW d \in Driver, Stop(d) PROVE Goal'
  <2>1. Leading' \subseteq Leading
    BY <1>8, <1>types DEF Stop, Leading, Running
  <2> QED BY <1>8, <2>1, QuietVacancy DEF Stop, Attempting, history
<1>9. ASSUME NEW d \in Driver, Crash(d) PROVE Goal'
  <2>1. /\ pc'[d] = "off" /\ leaderless'[d] = 0 /\ row' = row
        /\ \A e \in Driver \ {d} : pc'[e] = pc[e] /\ leaderless'[e] = leaderless[e]
                                   /\ wait'[e] = wait[e] /\ plan'[e] = plan[e]
        /\ Leading' \subseteq Leading
    BY <1>9, <1>types DEF Crash, Leading, Running
  <2>2. LeaderFillsVacancy'
    BY <2>1 DEF VacancyInv, LeaderFillsVacancy, NoVacancy
  <2>3. VacancyWithLease' /\ VacancyBounded'
    BY <2>1, <1>types DEF VacancyInv, VacancyWithLease, VacancyBounded
  <2>4. VacancyInLoop'
    BY <2>1 DEF VacancyInv, VacancyInLoop, Attempting
  <2> QED BY <2>2, <2>3, <2>4
<1>10. ASSUME Tick PROVE Goal'
  <2>1. /\ pc' = pc /\ plan' = plan /\ isLeader' = isLeader
        /\ row'.left = IF row.left = Expired THEN row.left ELSE row.left - 1
        /\ \A d \in Driver : pc[d] \in {"off", "waiting", "ended"} /\ ~WakesUp(d)
    BY <1>10, <1>types DEF Tick
  <2>2. ASSUME NEW d \in Driver
        PROVE  /\ leaderless'[d] = IF Leading = {} /\ d \in Running THEN leaderless[d] + 1 ELSE 0
               /\ wait'[d] = IF pc[d] = "waiting" THEN wait[d] - 1 ELSE wait[d]
    BY <1>10 DEF Tick
  <2>3. ASSUME NEW d \in Driver
        PROVE  /\ leaderless'[d] =< Lease + Renew
               /\ pc[d] = "waiting" => leaderless'[d] + wait'[d] =< Lease + Renew
    <3>1. pc[d] = "waiting" => wait[d] \in 1..Renew
      BY <2>1, <1>types DEF WakesUp
    <3>2. CASE Leading = {} /\ d \in Running
      <4>1. pc[d] = "waiting"
        BY <2>1, <3>2 DEF Running
      <4> QED
        BY <2>2, <3>1, <3>2, <4>1, <1>types DEF VacancyInv, VacancyInLoop
    <3>3. CASE ~(Leading = {} /\ d \in Running)
      BY <2>2, <3>1, <3>3, <1>types
    <3> QED BY <3>2, <3>3
  <2>4. VacancyWithLease'
    <3> SUFFICES ASSUME row'.left # Expired, NEW d \in Driver
                 PROVE  leaderless'[d] + row'.left =< Lease
      BY DEF VacancyWithLease
    <3>1. row.left \in 0..Lease /\ row'.left = row.left - 1
      BY <2>1, <1>types
    <3>2. leaderless[d] + row.left =< Lease /\ leaderless[d] \in Nat
      BY <3>1, <1>types DEF VacancyInv, VacancyWithLease
    <3> QED BY <2>2, <3>1, <3>2, <1>types
  <2>5. LeaderFillsVacancy'
    <3>1. Leading' = Leading /\ \A d \in Driver : pc'[d] # "renewing"
      BY <2>1 DEF Leading, Running
    <3> QED BY <2>2, <3>1 DEF LeaderFillsVacancy, NoVacancy
  <2> QED
    BY <2>1, <2>3, <2>4, <2>5 DEF VacancyBounded, VacancyInLoop, Attempting
<1>11. CASE UNCHANGED vars
  BY <1>11 DEF vars, VacancyInv, VacancyBounded, LeaderFillsVacancy, VacancyWithLease,
               VacancyInLoop, NoVacancy, Leading, Running, Attempting
<1> QED BY <1>1, <1>2, <1>3, <1>4, <1>5, <1>6, <1>7, <1>8, <1>9, <1>10, <1>11
        DEF Next

(* A driver that runs sees a leader again after a lease and a renewal interval,
   for any number of drivers that die, give up or are overtaken. *)
THEOREM VacanciesEnd == Spec => []VacancyBounded
<1>1. Init => VacancyInv
  <2> SUFFICES ASSUME Init PROVE VacancyInv
    OBVIOUS
  <2>1. OwnerInv
    BY InitType DEF Init, OwnerInv, OwnerCanRenew, NoLeaderAttempts, PlanStillRight,
                    Attempting
  <2>2. (\A d \in Driver : leaderless[d] = 0 /\ pc[d] = "off") /\ row.left = Expired
    BY DEF Init
  <2> QED
    BY <2>1, <2>2, LeaseAssumption
       DEF VacancyInv, VacancyBounded, LeaderFillsVacancy, VacancyWithLease, VacancyInLoop,
           NoVacancy, Attempting
<1>2. VacancyInv => VacancyBounded
  BY DEF VacancyInv
<1> QED BY <1>1, <1>2, NextVacancy, PTL DEF Spec
=============================================================================
