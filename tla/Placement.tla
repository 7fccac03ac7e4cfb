-------------------------------- MODULE Placement --------------------------------
(***************************************************************************)
(* Where the tasks of a job go: the report of an agent on its way to the      *)
(* scheduler (mesh/agent/client.py, mesh/driver/server.py), the pools         *)
(* (mesh/scheduler/pools.py), the requirements (mesh/models/node.py), the     *)
(* score (mesh/scheduler/scoring.py), the choice (mesh/scheduler/placement.py) *)
(* and the spreading of replicas (mesh/recovery/replication.py).  All nodes   *)
(* have PlUnits cores and as much memory, each counted in equal units.        *)
(***************************************************************************)
EXTENDS Integers, Sequences, FiniteSets

CONSTANTS
    PlNode,         \* names of nodes, numbers in the order of the names
    PlReport,       \* what agents may sample: cores and ram free, gpu, battery
    PlJob,          \* jobs: pool, cores, gpu, least battery, replicas
    PlHour,         \* hours at which jobs are submitted
    PlUnits         \* cores of a node

NoBattery == 101    \* None: it passes every gate
NoNode == 0
Healthy == "HEALTHY"

ASSUME PlacementAssumption ==
    /\ PlNode \subseteq Nat \ {NoNode} /\ PlUnits \in Nat \ {0} /\ PlHour \subseteq 0..23
    /\ PlReport \subseteq [cores : 0..PlUnits, ram : 0..PlUnits,
                           gpu : {"none", "plain", "cuda"}, battery : 0..100 \cup {NoBattery}]
    /\ PlJob \subseteq [pool : {"any", "CPU", "MEMORY", "GPU", "NIGHT"}, cores : 0..PlUnits,
                        gpu : BOOLEAN, battery : 0..100, replicas : Nat \ {0}]

VARIABLES
    known,      \* nodes of the driver: preemptible, sample, health; the sample is
                \* what the agent has measured, before any conversion
    hour,       \* the clock of the driver
    placed      \* the job that is being placed, if any, and its replicas' nodes

plVars == <<known, hour, placed>>

PlInit == known = <<>> /\ hour \in PlHour /\ placed = {}
-----------------------------------------------------------------------------
(* battery_pct or -1 in the agent, None for what is negative in the driver: an
   empty battery becomes no battery. *)
Received(battery) == IF battery = 0 THEN NoBattery ELSE battery
Battery(n) == Received(known[n].sample.battery)

(* PoolRouter, with the night from 18 to 8. *)
IsNight == hour >= 18 \/ hour < 8
GateForLaptops(n) == Battery(n) >= 60 \/ ~known[n].preemptible
PassesBatteryGate(n) == Battery(n) >= 60
Eligible(pool) ==
    {n \in DOMAIN known :
        \/ pool = "any"
        \/ /\ PassesBatteryGate(n)
           /\ CASE pool = "NIGHT" -> IsNight /\ known[n].preemptible
                [] pool = "GPU" -> known[n].sample.gpu = "cuda"
                [] pool = "MEMORY" -> TRUE
                [] OTHER -> ~known[n].preemptible}

(* meets_requirements; a GPU without CUDA reports no video memory. *)
Meets(n, job) ==
    LET r == known[n].sample
    IN  /\ r.cores >= job.cores /\ r.ram >= job.cores
        /\ job.gpu => r.gpu = "cuda"
        /\ Battery(n) >= job.battery
        /\ known[n].health = Healthy

(* NodeScorer.score, times 1000 * PlUnits: cpu 350, memory 250, gpu 150,
   reliability 150 times 0.7 or 0.9, network 100; cores that do not suffice were
   filtered before. *)
Score(n, job) ==
    350 * known[n].sample.cores + 250 * known[n].sample.ram
        + PlUnits * ((IF ~job.gpu \/ known[n].sample.gpu = "cuda" THEN 150 ELSE 0)
                     + (IF known[n].preemptible THEN 105 ELSE 135) + 100)

(* PlacementEngine.place: the best score, and the first name among equals. *)
Better(m, n, job) ==
    Score(m, job) > Score(n, job) \/ (Score(m, job) = Score(n, job) /\ m < n)
Place(job, nodes) ==
    LET candidates == {n \in Eligible(job.pool) \cap nodes : Meets(n, job)}
    IN  IF candidates = {} THEN NoNode
        ELSE CHOOSE n \in candidates : \A m \in candidates \ {n} : Better(n, m, job)

(* live_nodes, and assign_to_different_nodes; a job without replicas is placed
   by DriverCluster.submit, in the same way. *)
LiveNodes == {n \in DOMAIN known : known[n].health # "DEAD"}
UsedByLast(nodes) == {nodes[i] : i \in {Len(nodes)} \ {0}} \ {NoNode}
Used(nodes) == {nodes[i] : i \in DOMAIN nodes} \ {NoNode}
NodesFor(job) ==
    LET nodes[k \in 0..job.replicas] ==
          IF k = 0 THEN <<>>
          ELSE LET unused == LiveNodes \ Used(nodes[k - 1])
               IN  Append(nodes[k - 1], Place(job, IF unused = {} THEN LiveNodes ELSE unused))
    IN  nodes[job.replicas]
-----------------------------------------------------------------------------
(* RegisterNode, with the first report. *)
Joins(n, preemptible, r) ==
    /\ n \notin DOMAIN known /\ placed = {}
    /\ known' = [k \in DOMAIN known \cup {n} |->
         IF k = n THEN [preemptible |-> preemptible, sample |-> r, health |-> Healthy]
                  ELSE known[k]]
    /\ UNCHANGED <<hour, placed>>

(* ReportResources, of a node the driver knows. *)
Reports(n, r) ==
    /\ n \in DOMAIN known /\ placed = {}
    /\ known' = [known EXCEPT ![n].sample = r]
    /\ UNCHANGED <<hour, placed>>

(* The verdict of the failure detector. *)
Judged(n, health) ==
    /\ n \in DOMAIN known /\ placed = {}
    /\ known' = [known EXCEPT ![n].health = health]
    /\ UNCHANGED <<hour, placed>>

HourPasses ==
    /\ placed = {} /\ hour' \in PlHour
    /\ UNCHANGED <<known, placed>>

(* JobManager.submit, up to the placements; then the next job may come. *)
PlSubmit(job) ==
    /\ placed = {}
    /\ placed' = {[job |-> job, nodes |-> NodesFor(job)]}
    /\ UNCHANGED <<known, hour>>

Dispatches ==
    /\ placed # {} /\ placed' = {}
    /\ UNCHANGED <<known, hour>>

PlNext ==
    \/ \E n \in PlNode, r \in PlReport :
          Reports(n, r) \/ \E preemptible \in BOOLEAN : Joins(n, preemptible, r)
    \/ \E n \in PlNode, health \in {Healthy, "SUSPECTED", "DEAD"} : Judged(n, health)
    \/ \E job \in PlJob : PlSubmit(job)
    \/ HourPasses \/ Dispatches

PlSpec == PlInit /\ [][PlNext]_plVars
-----------------------------------------------------------------------------
(* Every variable stays in its type. *)
PlTypeOK ==
    /\ DOMAIN known \subseteq PlNode /\ hour \in PlHour
    /\ \A n \in DOMAIN known : known[n] \in [preemptible : BOOLEAN, sample : PlReport,
                                   health : {Healthy, "SUSPECTED", "DEAD"}]
    /\ \A p \in placed : p.job \in PlJob /\ p.nodes \in Seq(PlNode \cup {NoNode})
    /\ Cardinality(placed) <= 1

(* What a job asks for, in terms of what the agent has measured: the battery
   gate of every pool but "any", the least battery of the job, and an empty
   battery counted as none. *)
Suits(n, job) ==
    LET r == known[n].sample
    IN  /\ known[n].health = Healthy /\ r.cores >= job.cores /\ r.ram >= job.cores
        /\ job.gpu \/ job.pool = "GPU" => r.gpu = "cuda"
        /\ \/ r.battery \in {0, NoBattery}
           \/ r.battery >= job.battery /\ (job.pool # "any" => r.battery >= 60)
        /\ job.pool = "NIGHT" => known[n].preemptible /\ hour \notin 8..17
        /\ job.pool = "CPU" => ~known[n].preemptible

(* A task is only placed where the agent's own measurements meet what its job
   asks for, although they pass through two conversions: except that a laptop
   with an empty battery is taken for a desktop. *)
MeasuredFit ==
    \A p \in placed : \A k \in DOMAIN p.nodes : p.nodes[k] # NoNode => Suits(p.nodes[k], p.job)

(* Replicas take as many different nodes as suit the job.  When suitable nodes
   run out, the others stay PENDING, unless every live node suits: then all of
   them go to one node, on top of the replica that is there. *)
ReplicasSpread ==
    \A p \in placed :
        LET suits == {n \in LiveNodes : Suits(n, p.job)}
            on(n) == Cardinality({k \in DOMAIN p.nodes : p.nodes[k] = n})
            total == p.job.replicas
        IN  IF total <= Cardinality(suits)
            THEN \A n \in PlNode : on(n) <= 1 /\ on(NoNode) = 0
            ELSE /\ \A n \in suits : on(n) >= 1
                 /\ IF suits = LiveNodes /\ suits # {}
                    THEN \E n \in suits : on(n) = total - Cardinality(suits) + 1
                    ELSE on(NoNode) = total - Cardinality(suits)
=============================================================================
