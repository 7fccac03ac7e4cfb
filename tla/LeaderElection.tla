---------------------------- MODULE LeaderElection ----------------------------
(***************************************************************************)
(* Lease-based election of the driver that may write (mesh/driver/ha/      *)
(* election.py) over the leadership row of the shared SQLite store         *)
(* (mesh/state/sqlite_store.py).  The lock of the store object belongs to  *)
(* one process: between the SELECT and the write of one driver, another    *)
(* driver may do anything.                                                 *)
(*                                                                         *)
(* Time is counted in ticks.  One iteration of a driver's renewal loop     *)
(* takes less than a tick, and the wait between two of them Renew ticks.   *)
(***************************************************************************)
EXTENDS Integers

CONSTANTS
    Driver,     \* driver ids
    None,       \* the owner of a row that was never inserted
    Lease,      \* lease_seconds, in ticks
    Renew,      \* renew_interval, in ticks
    MaxTerm     \* bound: no election is begun in a later term

ASSUME NoneAssumption == None \notin Driver
ASSUME LeaseAssumption == Lease \in Nat /\ Renew \in Nat \ {0}
ASSUME TermAssumption == MaxTerm \in Nat

Expired == -1

VARIABLES
    row,        \* the leadership row; `left` are the ticks until expires_at
    term,       \* LeaderElection.term
    isLeader,   \* drivers whose is_leader is set
    stopped,    \* drivers whose _stop is set
    pc,         \* "off", or where the start call or the renewal loop is
    wait,       \* ticks left of _stop.wait(renew_interval)
    plan,       \* what try_acquire_leadership found it has to do
    stale,      \* history: ticks a driver has led without owning the row
    leaderless  \* history: ticks a driver has run while none led

driver == <<term, isLeader, stopped, pc, wait, plan>>
history == <<stale, leaderless>>
vars == <<row, term, isLeader, stopped, pc, wait, plan, stale, leaderless>>

Running == {d \in Driver : pc[d] \notin {"off", "ended"}}
Leading == isLeader \cap Running

Init ==
    /\ row = [owner |-> None, term |-> 0, left |-> Expired]
    /\ term = [d \in Driver |-> 0]
    /\ isLeader = {} /\ stopped = {}
    /\ pc = [d \in Driver |-> "off"]
    /\ wait = [d \in Driver |-> 0]
    /\ plan = [d \in Driver |-> "none"]
    /\ stale = [d \in Driver |-> 0] /\ leaderless = [d \in Driver |-> 0]
-----------------------------------------------------------------------------
(* The SELECT of try_acquire_leadership and the branch it chooses: an expired
   lease or a higher term is enough to take the row. *)
PlanWithoutExpiry(d, t) ==
    IF row.owner = None THEN "insert"
    ELSE IF t > row.term THEN "take"
    ELSE IF row.owner = d /\ t >= row.term THEN "same" ELSE "none"
PlanOfOwner(d, t) ==
    IF row.owner = None THEN "insert"
    ELSE IF row.left = Expired \/ t > row.term THEN "take"
    ELSE IF row.owner = d THEN "same" ELSE "none"
Plan(d, t) ==
    IF row.owner = None THEN "insert"
    ELSE IF row.left = Expired \/ t > row.term THEN "take"
    ELSE IF row.owner = d /\ t >= row.term THEN "same" ELSE "none"

(* _try_become_leader up to the SELECT; nothing once _stop is set. *)
Try(d, after) ==
    /\ term[d] < MaxTerm
    /\ term' = [term EXCEPT ![d] = @ + 1]
    /\ plan' = [plan EXCEPT ![d] = Plan(d, term[d] + 1)]
    /\ pc' = [pc EXCEPT ![d] = after]

(* start: the first attempt is made by the caller, the next one by the loop,
   at once. *)
Start(d) ==
    /\ pc[d] = "off"
    /\ Try(d, "starting")
    /\ UNCHANGED <<row, isLeader, stopped, wait, history>>

(* _stop.wait(renew_interval), and a wait that is a tick too long *)
RestLonger(d) ==
    /\ pc' = [pc EXCEPT ![d] = "waiting"]
    /\ wait' = [wait EXCEPT ![d] = Renew + 1]
Rest(d) ==
    /\ pc' = [pc EXCEPT ![d] = "waiting"]
    /\ wait' = [wait EXCEPT ![d] = Renew]

WakesUp(d) == pc[d] = "due" \/ (pc[d] = "waiting" /\ (wait[d] = 0 \/ d \in stopped))

(* The rest of _try_become_leader.  A second INSERT raises and ends start. *)
Acquire(d) ==
    /\ pc[d] \in {"starting", "trying"}
    /\ row' = IF plan[d] = "take" \/ (plan[d] = "insert" /\ row.owner = None)
              THEN [owner |-> d, term |-> term[d], left |-> Lease] ELSE row
    /\ plan' = [plan EXCEPT ![d] = "none"]
    /\ IF plan[d] = "insert" /\ row.owner # None
       THEN /\ term' = [term EXCEPT ![d] = 0]
            /\ stopped' = stopped \ {d}
            /\ pc' = [pc EXCEPT ![d] = "off"]
            /\ UNCHANGED <<isLeader, wait>>
       ELSE /\ isLeader' = IF plan[d] = "none" THEN isLeader
                                               ELSE isLeader \cup {d}
            /\ IF pc[d] = "starting"
               THEN pc' = [pc EXCEPT ![d] = "due"] /\ UNCHANGED wait
               ELSE Rest(d)
            /\ UNCHANGED <<term, stopped>>
    /\ leaderless' = IF Leading' = {} THEN leaderless ELSE [e \in Driver |-> 0]
    /\ UNCHANGED stale

(* One iteration of _renew_loop begins. *)
LoopEnds(d) ==
    /\ WakesUp(d) /\ d \in stopped
    /\ pc' = [pc EXCEPT ![d] = "ended"]
    /\ UNCHANGED <<row, term, isLeader, stopped, wait, plan, history>>

LoopTries(d) ==
    /\ WakesUp(d) /\ d \notin stopped \cup isLeader
    /\ Try(d, "trying")
    /\ UNCHANGED <<row, isLeader, stopped, wait, history>>

(* The SELECT of renew_leadership, and a version that takes any row for its
   own. *)
AnyRow(d) == d \in Driver /\ row.owner # None
Owns(d) == row.owner = d /\ row.term = term[d]

Renews(d) ==
    /\ WakesUp(d) /\ d \in isLeader \ stopped
    /\ Owns(d)
    /\ pc' = [pc EXCEPT ![d] = "renewing"]
    /\ UNCHANGED <<row, term, isLeader, stopped, wait, plan, history>>

(* The lease is lost: step down and try again at once. *)
StepsDown(d) ==
    /\ WakesUp(d) /\ d \in isLeader \ stopped
    /\ ~Owns(d)
    /\ isLeader' = isLeader \ {d}
    /\ Try(d, "trying")
    /\ stale' = [stale EXCEPT ![d] = 0]
    /\ UNCHANGED <<row, stopped, wait, leaderless>>

(* The UPDATE of renew_leadership prolongs the lease of whoever has it now. *)
Extend(d) ==
    /\ pc[d] = "renewing"
    /\ row' = [row EXCEPT !.left = Lease]
    /\ Rest(d)
    /\ UNCHANGED <<term, isLeader, stopped, plan, history>>

(* stop may overtake an attempt of the loop, which then sets is_leader. *)
Stop(d) ==
    /\ d \in Running \ stopped /\ pc[d] # "starting"
    /\ stopped' = stopped \cup {d}
    /\ isLeader' = isLeader \ {d}
    /\ UNCHANGED <<row, term, pc, wait, plan, history>>

(* The driver process dies; another one may be started under its id. *)
Crash(d) ==
    /\ pc[d] # "off"
    /\ term' = [term EXCEPT ![d] = 0]
    /\ isLeader' = isLeader \ {d} /\ stopped' = stopped \ {d}
    /\ pc' = [pc EXCEPT ![d] = "off"]
    /\ wait' = [wait EXCEPT ![d] = 0]
    /\ plan' = [plan EXCEPT ![d] = "none"]
    /\ stale' = [stale EXCEPT ![d] = 0]
    /\ leaderless' = [leaderless EXCEPT ![d] = 0]
    /\ UNCHANGED row

Tick ==
    /\ \A d \in Driver : pc[d] \in {"off", "waiting", "ended"} /\ ~WakesUp(d)
    /\ row' = [row EXCEPT !.left = IF @ = Expired THEN @ ELSE @ - 1]
    /\ wait' = [d \in Driver |-> IF pc[d] = "waiting" THEN wait[d] - 1 ELSE wait[d]]
    /\ stale' = [d \in Driver |->
                   IF d \in Leading /\ row.owner # d THEN stale[d] + 1 ELSE 0]
    /\ leaderless' = [d \in Driver |->
         IF Leading = {} /\ d \in Running THEN leaderless[d] + 1 ELSE 0]
    /\ UNCHANGED <<term, isLeader, stopped, pc, plan>>

Next ==
    \/ \E d \in Driver :
          \/ Start(d) \/ Acquire(d) \/ LoopEnds(d) \/ LoopTries(d)
          \/ Renews(d) \/ StepsDown(d) \/ Extend(d) \/ Stop(d) \/ Crash(d)
    \/ Tick

Spec == Init /\ [][Next]_vars
-----------------------------------------------------------------------------
(* Every variable stays in its type. *)
TypeOK ==
    /\ row \in [owner : Driver \cup {None}, term : Nat, left : Expired..Lease]
    /\ term \in [Driver -> 0..MaxTerm]
    /\ isLeader \subseteq Driver /\ stopped \subseteq Driver
    /\ pc \in [Driver -> {"off", "starting", "due", "trying", "renewing",
                          "waiting", "ended"}]
    /\ wait \in [Driver -> 0..Renew]
    /\ plan \in [Driver -> {"none", "insert", "take", "same"}]
    /\ stale \in [Driver -> Nat] /\ leaderless \in [Driver -> Nat]

(* A driver that owns the row and believes it leads can renew: whatever races,
   restarts under the same id and lowered terms came before, the row carries
   the term the driver renews with. *)
OwnerCanRenew ==
    \A d \in isLeader : row.owner = d => row.term = term[d]

(* A driver whose row was taken, even between the two halves of a renewal,
   stops leading within one renewal interval. *)
StaleLeaderStepsDown == \A d \in Driver : stale[d] =< Renew

(* However many leaders die, give up or are overtaken, a driver that runs sees
   a leader again at the latest when the lease has run out and its own next
   attempt is due: nobody waits for a dead leader for ever. *)
VacancyBounded == \A d \in Driver : leaderless[d] =< Lease + Renew
-----------------------------------------------------------------------------
(* What a comment promises and the code does not keep *)

(* election.py: "one writer (leader) at a time". *)
OneLeader == \A d, e \in Leading : d = e
=============================================================================
