------------------------------- MODULE Libraries -------------------------------
(***************************************************************************)
(* Entries of the driver's node table, which gRPC threads and the threads of *)
(* a library installation read, copy and replace without a lock              *)
(* (mesh/driver/cluster.py, mesh/driver/library_installer.py), and the       *)
(* installation of packages on agents and on the driver                      *)
(* (mesh/libraries/manager.py, mesh/agent/server.py).                        *)
(***************************************************************************)
EXTENDS Naturals, FiniteSets

CONSTANTS
    LibNode,        \* nodes with an agent
    OnDriverHost,   \* those whose hostname is the driver's
    DriverItself,   \* the driver as a target
    Install,        \* calls of LibraryInstaller.install
    Package,
    Snapshot,       \* what an agent may report of its resources
    Restarts        \* bound: restarts of agents

ASSUME LibAssumption ==
    /\ DriverItself \notin LibNode /\ OnDriverHost \subseteq LibNode
    /\ "none" \notin Snapshot /\ Restarts \in Nat

Target == LibNode \cup {DriverItself}

VARIABLES
    table,      \* _nodes: resources and the libraries tag
    pip,        \* what pip has installed on a target
    latest,     \* what an agent reported last
    reportCopy, \* the entry that update_node_resources has read, or NoCopy
    install,    \* a call: its package, targets, answers, and summary
    mergeCopy,  \* the entry that _merge_library_tag has read
    raced,      \* history: nodes of which an entry was replaced by a copy read
                \* before another replacement
    restarts

libVars == <<table, pip, latest, reportCopy, install, mergeCopy, raced, restarts>>

NoCopy == [res |-> "none", libs |-> {}]
NotCalled == [pc |-> "none", package |-> "none", targets |-> {}, ok |-> {}, failed |-> {},
              all |-> FALSE]

(* The agents have registered; list_names scans what pip has. *)
LibInit ==
    /\ latest \in [LibNode -> Snapshot]
    /\ pip = [t \in Target |-> {}]
    /\ table = [n \in LibNode |-> [res |-> latest[n], libs |-> {}]]
    /\ reportCopy = [n \in LibNode |-> NoCopy]
    /\ install = [i \in Install |-> NotCalled]
    /\ mergeCopy = [i \in Install |-> [n \in LibNode |-> NoCopy]]
    /\ raced = {} /\ restarts = 0

Copied(n) ==
    reportCopy[n] # NoCopy \/ \E i \in Install : mergeCopy[i][n] # NoCopy
OthersCopied(i, n) ==
    reportCopy[n] # NoCopy \/ \E k \in Install \ {i} : mergeCopy[k][n] # NoCopy
-----------------------------------------------------------------------------
(* update_node_resources replaces the resources in the entry it has read. *)
ReportRead(n, r) ==
    /\ reportCopy[n] = NoCopy
    /\ latest' = [latest EXCEPT ![n] = r]
    /\ reportCopy' = [reportCopy EXCEPT ![n] = [table[n] EXCEPT !.res = r]]
    /\ UNCHANGED <<table, pip, install, mergeCopy, raced, restarts>>

ReportWrite(n) ==
    /\ reportCopy[n] # NoCopy
    /\ table' = [table EXCEPT ![n] = reportCopy[n]]
    /\ reportCopy' = [reportCopy EXCEPT ![n] = NoCopy]
    /\ raced' = IF \E i \in Install : mergeCopy[i][n] # NoCopy
                THEN raced \cup {n} ELSE raced
    /\ UNCHANGED <<pip, latest, install, mergeCopy, restarts>>

(* An agent starts again and registers; its call of pip may have been cut. *)
RegisteredBare(n, r) == [res |-> r, libs |-> {}]
Registered(n, r) == [res |-> r, libs |-> pip[n]]
LibRegister(n, r) ==
    /\ restarts < Restarts /\ restarts' = restarts + 1
    /\ latest' = [latest EXCEPT ![n] = r]
    /\ table' = [table EXCEPT ![n] = Registered(n, r)]
    /\ raced' = IF Copied(n) THEN raced \cup {n} ELSE raced
    /\ UNCHANGED <<pip, reportCopy, install, mergeCopy>>
-----------------------------------------------------------------------------
(* _resolve_targets: the nodes of a pool or of a list, and the driver unless
   one of them has its hostname. *)
AskInstall(i, p, nodes, withDriver) ==
    LET driver == IF withDriver /\ nodes \cap OnDriverHost = {} THEN {DriverItself} ELSE {}
    IN  /\ install[i] = NotCalled
        /\ install' = [install EXCEPT ![i] =
             [NotCalled EXCEPT !.package = p, !.targets = nodes \cup driver,
                !.pc = IF nodes \cup driver = {} THEN "done" ELSE "running"]]
        /\ UNCHANGED <<table, pip, latest, reportCopy, mergeCopy, raced, restarts>>

Answered(i) == install[i].ok \cup install[i].failed
Asked(i, t) ==
    /\ install[i].pc = "running" /\ t \in install[i].targets \ Answered(i)
    /\ t \in LibNode => mergeCopy[i][t] = NoCopy

(* pip succeeds; an agent's answer leads to the merge of its tag. *)
PipInstalls(i, t) ==
    /\ Asked(i, t)
    /\ pip' = [pip EXCEPT ![t] = @ \cup {install[i].package}]
    /\ IF t = DriverItself
       THEN /\ install' = [install EXCEPT ![i].ok = @ \cup {t}]
            /\ UNCHANGED mergeCopy
       ELSE /\ mergeCopy' = [mergeCopy EXCEPT ![i][t] =
                 [table[t] EXCEPT !.libs = @ \cup {install[i].package}]]
            /\ UNCHANGED install
    /\ UNCHANGED <<table, latest, reportCopy, raced, restarts>>

(* pip fails, or the call does: it may have installed the package. *)
InstallFails(i, t, installed) ==
    /\ Asked(i, t) /\ (installed => t # DriverItself)
    /\ pip' = IF installed THEN [pip EXCEPT ![t] = @ \cup {install[i].package}] ELSE pip
    /\ install' = [install EXCEPT ![i].failed = @ \cup {t}]
    /\ UNCHANGED <<table, latest, reportCopy, mergeCopy, raced, restarts>>

(* _merge_library_tag replaces the tag in the entry it has read. *)
MergeWrite(i, n) ==
    /\ mergeCopy[i][n] # NoCopy
    /\ table' = [table EXCEPT ![n] = mergeCopy[i][n]]
    /\ mergeCopy' = [mergeCopy EXCEPT ![i][n] = NoCopy]
    /\ raced' = IF OthersCopied(i, n) THEN raced \cup {n} ELSE raced
    /\ install' = [install EXCEPT ![i].ok = @ \cup {n}]
    /\ UNCHANGED <<pip, latest, reportCopy, restarts>>

(* as_completed has seen every target. *)
AllAnswered(i) == Answered(i) = install[i].targets
AllOk(i) == install[i].ok = install[i].targets
Summary(i) ==
    /\ install[i].pc = "running" /\ AllAnswered(i)
    /\ install' = [install EXCEPT ![i].pc = "done", ![i].all = AllOk(i)]
    /\ UNCHANGED <<table, pip, latest, reportCopy, mergeCopy, raced, restarts>>

LibNext ==
    \/ \E n \in LibNode :
         \/ \E r \in Snapshot : ReportRead(n, r) \/ LibRegister(n, r)
         \/ ReportWrite(n)
    \/ \E i \in Install :
         \/ \E p \in Package, nodes \in SUBSET LibNode, withDriver \in BOOLEAN :
              AskInstall(i, p, nodes, withDriver)
         \/ \E t \in Target :
              \/ PipInstalls(i, t)
              \/ \E installed \in BOOLEAN : InstallFails(i, t, installed)
         \/ \E n \in LibNode : MergeWrite(i, n)
         \/ Summary(i)

LibSpec == LibInit /\ [][LibNext]_libVars
-----------------------------------------------------------------------------
LibEntry == [res : Snapshot \cup {"none"}, libs : SUBSET Package]

(* Every variable stays in its type. *)
LibTypeOK ==
    /\ table \in [LibNode -> LibEntry] /\ pip \in [Target -> SUBSET Package]
    /\ latest \in [LibNode -> Snapshot] /\ reportCopy \in [LibNode -> LibEntry]
    /\ mergeCopy \in [Install -> [LibNode -> LibEntry]]
    /\ install \in [Install -> [pc : {"none", "running", "done"}, ok : SUBSET Target,
         package : Package \cup {"none"}, targets : SUBSET Target,
         failed : SUBSET Target, all : BOOLEAN]]
    /\ raced \subseteq LibNode /\ restarts \in 0..Restarts

(* An entry that nobody is replacing tells the resources reported last, and
   lists every package whose installation on the node succeeded, across
   restarts of the agent, unless two replacements of it crossed. *)
EntryCurrent ==
    \A n \in LibNode \ raced :
        /\ ~Copied(n) => table[n].res = latest[n]
        /\ \A i \in Install : n \in install[i].ok => install[i].package \in table[n].libs

(* "Installed on n/n targets" is said only when pip has the package on every
   target, and every package an entry lists is there. *)
InstallTruthful ==
    /\ \A i \in Install : install[i].pc = "done" /\ install[i].all =>
         \A t \in install[i].targets : install[i].package \in pip[t]
    /\ \A n \in LibNode : table[n].libs \subseteq pip[n]
=============================================================================
