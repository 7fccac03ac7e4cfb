-------------------------------- MODULE Notebook --------------------------------
(***************************************************************************)
(* Notebook cells (mesh/notebook/runner.py, notebook_execute in              *)
(* mesh/api/app.py, submit_notebook_cell in mesh/driver/job_manager.py).     *)
(* A cell is sent to an agent first; whatever goes wrong there, it is run in *)
(* the driver, by the thread of its request, with sys.stdout redirected.     *)
(* sys.stdout is one variable of the process, and so is sys.stderr, which    *)
(* behaves alike.                                                            *)
(***************************************************************************)
EXTENDS Naturals, FiniteSets

CONSTANTS
    Cell,           \* requests to execute a cell
    Terminal,       \* the real standard output of the driver
    Prints          \* bound: print calls of a cell

ASSUME TerminalAssumption == Terminal \notin Cell /\ Prints \in Nat

VARIABLES
    stdout,     \* sys.stdout of the driver: the terminal, or the buffer of a cell
    cell,       \* a request: pc, the stdout it saved, and its print calls so far
    outputs,   \* who printed how often into which output
    nbJob,      \* the job of a cell: its state, and what its agent does
    ran,        \* history: how often the code of a cell was started
    beside,     \* history: cells that ran in the driver beside another one
    nbCrossed   \* history: cells did not end in the opposite order of their start

nbVars == <<stdout, cell, outputs, nbJob, ran, beside, nbCrossed>>

Redirected(c) == cell[c].pc = "inside"

NbInit ==
    /\ stdout = Terminal
    /\ cell = [c \in Cell |-> [pc |-> "called", saved |-> Terminal, printed |-> 0]]
    /\ outputs = [o \in Cell \cup {Terminal} |-> [c \in Cell |-> 0]]
    /\ nbJob = [c \in Cell |-> [state |-> "none", agent |-> "none"]]
    /\ ran = [c \in Cell |-> 0] /\ beside = {} /\ nbCrossed = FALSE
-----------------------------------------------------------------------------
(* notebook_execute: mode local, or no node with an agent to run it. *)
RunsHere(c) ==
    /\ cell[c].pc = "called"
    /\ cell' = [cell EXCEPT ![c].pc = "local"]
    /\ UNCHANGED <<stdout, outputs, nbJob, ran, beside, nbCrossed>>

(* submit_notebook_cell: the task is placed and dispatched, or the call of the
   agent fails; without a node it raises. *)
Submits(c, placed) ==
    /\ cell[c].pc = "called"
    /\ cell' = [cell EXCEPT ![c].pc = IF placed THEN "wait" ELSE "local"]
    /\ nbJob' = [nbJob EXCEPT ![c] = IF placed THEN [state |-> "RUNNING", agent |-> "assigned"]
                                               ELSE [state |-> "PENDING", agent |-> "none"]]
    /\ UNCHANGED <<stdout, outputs, ran, beside, nbCrossed>>

(* notebook.exec on the agent reads ctx.state_data, which a context does not
   have: it raises before it runs anything.  The report may be lost. *)
AgentExecutes(c) == [code |-> 1, state |-> "COMPLETED"]
AgentRaises(c) == [code |-> 0, state |-> "FAILED"]
AgentRuns(c, lost) ==
    /\ nbJob[c].agent = "assigned"
    /\ ran' = [ran EXCEPT ![c] = @ + AgentRaises(c).code]
    /\ nbJob' = [nbJob EXCEPT ![c] =
         [state |-> IF lost THEN @.state ELSE AgentRaises(c).state, agent |-> "ended"]]
    /\ UNCHANGED <<stdout, cell, outputs, beside, nbCrossed>>

(* wait_for_job returns the result of the job, or raises, or times out; and
   the cell is run here. *)
WaitEnds(c, timedOut) ==
    /\ cell[c].pc = "wait"
    /\ ~timedOut => nbJob[c].state \in {"COMPLETED", "FAILED"}
    /\ cell' = [cell EXCEPT ![c].pc =
         IF ~timedOut /\ nbJob[c].state = "COMPLETED" THEN "answered" ELSE "local"]
    /\ UNCHANGED <<stdout, outputs, nbJob, ran, beside, nbCrossed>>
-----------------------------------------------------------------------------
(* execute_code in the driver: redirect_stdout saves and sets sys.stdout. *)
EnterRedirect(c) ==
    /\ cell[c].pc = "local"
    /\ cell' = [cell EXCEPT ![c].pc = "inside", ![c].saved = stdout]
    /\ stdout' = c
    /\ ran' = [ran EXCEPT ![c] = @ + 1]
    /\ beside' = IF \E b \in Cell : Redirected(b)
                 THEN beside \cup {c} \cup {b \in Cell : Redirected(b)} ELSE beside
    /\ UNCHANGED <<outputs, nbJob, nbCrossed>>

CellPrints(c) ==
    /\ Redirected(c) /\ cell[c].printed < Prints
    /\ cell' = [cell EXCEPT ![c].printed = @ + 1]
    /\ outputs' = [outputs EXCEPT ![stdout][c] = @ + 1]
    /\ UNCHANGED <<stdout, nbJob, ran, beside, nbCrossed>>

(* The code ends or raises; sys.stdout is what the cell has saved. *)
NotRestored(c) == stdout
RestoredOutput(c) == cell[c].saved
ExitRedirect(c) ==
    /\ Redirected(c)
    /\ stdout' = RestoredOutput(c)
    /\ nbCrossed' = (nbCrossed \/ stdout # c)
    /\ cell' = [cell EXCEPT ![c].pc = "answered"]
    /\ UNCHANGED <<outputs, nbJob, ran, beside>>

NbNext ==
    \E c \in Cell :
       \/ RunsHere(c) \/ EnterRedirect(c) \/ CellPrints(c) \/ ExitRedirect(c)
       \/ \E placed \in BOOLEAN : Submits(c, placed)
       \/ \E lost \in BOOLEAN : AgentRuns(c, lost)
       \/ \E timedOut \in BOOLEAN : WaitEnds(c, timedOut)

NbSpec == NbInit /\ [][NbNext]_nbVars
-----------------------------------------------------------------------------
(* Every variable stays in its type. *)
NbTypeOK ==
    /\ stdout \in Cell \cup {Terminal}
    /\ cell \in [Cell -> [pc : {"called", "wait", "local", "inside", "answered"},
                          saved : Cell \cup {Terminal}, printed : 0..Prints]]
    /\ outputs \in [Cell \cup {Terminal} -> [Cell -> 0..Prints]]
    /\ nbJob \in [Cell -> [state : {"none", "PENDING", "RUNNING", "COMPLETED", "FAILED"},
                           agent : {"none", "assigned", "ended"}]]
    /\ ran \in [Cell -> Nat] /\ beside \subseteq Cell /\ nbCrossed \in BOOLEAN

(* The code of a cell runs once, although a cell that fails or is late on its
   agent is run again in the driver. *)
CellRunsOnce ==
    \A c \in Cell : ran[c] <= 1 /\ (cell[c].pc = "answered" => ran[c] = 1)

(* The answer to a cell holds all it has printed and nothing else, unless
   another cell ran beside it; and when none runs, sys.stdout is the terminal
   again, unless two cells crossed, after which it stays a dead buffer. *)
CellsIsolated ==
    /\ \A c \in Cell \ beside :
         /\ outputs[c][c] = cell[c].printed
         /\ \A b \in Cell \ {c} : outputs[c][b] = 0
    /\ ~nbCrossed /\ (\A c \in Cell : ~Redirected(c)) => stdout = Terminal
=============================================================================
