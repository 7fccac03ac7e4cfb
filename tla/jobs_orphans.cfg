CONSTANTS
    n1 = n1
    n2 = n2
    j1 = j1
    t1 = t1
    t2 = t2
    d1 = d1
    c1 = c1
    c2 = c2
    c3 = c3
    Node = {n1, n2}
    Simulated = {}
    Job = {j1}
    Task = {t1}
    JobOf <- OneJob
    Spare = {}
    Copy = {c1, c2}
    Health = health
    Preemptor = {}
    Platform = platform
    None = None
    Cancellable = {}
    MaxFaults = 2
    MaxMoves = 0
SPECIFICATION Spec
SYMMETRY CopySymmetry
CHECK_DEADLOCK FALSE
INVARIANTS OrphansResent
