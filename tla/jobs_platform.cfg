CONSTANTS
    n1 = n1
    n2 = n2
    j1 = j1
    t1 = t1
    t2 = t2
    d1 = d1
    c1 = c1
    c2 = c2
    c3 = c3
    Node = {n1, n2}
    Simulated = {n2}
    Job = {j1}
    Task = {t1, t2, d1}
    JobOf <- OneJob
    Spare = {d1}
    Copy = {c1, c2, c3}
    Health = health
    Preemptor = {}
    Platform = platform
    None = None
    Cancellable = {}
    MaxFaults = 0
    MaxMoves = 0
SPECIFICATION Spec
SYMMETRY CopySymmetry
CHECK_DEADLOCK FALSE
INVARIANTS NoFalseCompletion EntriesBacked
