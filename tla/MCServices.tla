------------------------------- MODULE MCServices -------------------------------
(***************************************************************************)
(* Instances of the components that share no state with each other: a         *)
(* behaviour explores the one that `explored` names and leaves the others in  *)
(* their initial states.                                                     *)
(***************************************************************************)
EXTENDS AgentLoop, Checkpoints, EventStream, Libraries, MemoryFabric, Notebook,
        Placement, Relay, SimCluster

VARIABLE explored

Services == {"checkpoints", "events", "libraries", "loop", "memory", "notebook",
             "placement", "relay", "sim"}

Sample(cores, ram, gpu, battery) ==
    [cores |-> cores, ram |-> ram, gpu |-> gpu, battery |-> battery]
MCPlReport == {Sample(2, 2, "none", 0), Sample(1, 2, "none", 59), Sample(1, 1, "cuda", 60)}
Wants(pool, cores, gpu, battery, replicas) ==
    [pool |-> pool, cores |-> cores, gpu |-> gpu, battery |-> battery, replicas |-> replicas]
MCPlJob == {Wants("any", 1, FALSE, 0, 3), Wants("any", 1, TRUE, 60, 2),
            Wants("CPU", 1, FALSE, 0, 2), Wants("MEMORY", 2, FALSE, 0, 2),
            Wants("GPU", 0, FALSE, 0, 1), Wants("NIGHT", 1, FALSE, 61, 4)}

(* Components that are not explored need one initial state only. *)
ServicesInit ==
    /\ explored \in Services
    /\ AlInit /\ CpInit /\ EsInit /\ LibInit /\ MfInit /\ NbInit /\ PlInit /\ RelayInit /\ SimInit
    /\ explored # "loop" => ~reading.user /\ ~reading.high
    /\ explored # "libraries" => latest = [n \in LibNode |-> CHOOSE r \in Snapshot : TRUE]
    /\ explored # "memory" => reported = [n \in MemNode |-> 0]
    /\ explored # "placement" => hour = 18

Explores(name) ==
    /\ explored = name /\ UNCHANGED explored
    /\ name # "checkpoints" => UNCHANGED cpVars
    /\ name # "events" => UNCHANGED esVars
    /\ name # "libraries" => UNCHANGED libVars
    /\ name # "loop" => UNCHANGED alVars
    /\ name # "memory" => UNCHANGED mfVars
    /\ name # "notebook" => UNCHANGED nbVars
    /\ name # "placement" => UNCHANGED plVars
    /\ name # "relay" => UNCHANGED relayVars
    /\ name # "sim" => UNCHANGED simVars

ServicesNext ==
    \/ Explores("checkpoints") /\ CpNext
    \/ Explores("events") /\ EsNext
    \/ Explores("libraries") /\ LibNext
    \/ Explores("loop") /\ AlNext
    \/ Explores("memory") /\ MfNext
    \/ Explores("notebook") /\ NbNext
    \/ Explores("placement") /\ PlNext
    \/ Explores("relay") /\ RelayNext
    \/ Explores("sim") /\ SimNext

ServicesSpec ==
    /\ ServicesInit /\ [][ServicesNext]_<<explored, alVars, cpVars, esVars, libVars, mfVars,
                                          nbVars, plVars, relayVars, simVars>>
    /\ EsFairness /\ RelayFairness

(* The types of all components. *)
TypeOK ==
    /\ AlTypeOK /\ CpTypeOK /\ EsTypeOK /\ LibTypeOK /\ MfTypeOK /\ NbTypeOK
    /\ PlTypeOK /\ RelayTypeOK /\ SimTypeOK
=============================================================================
