\* Two nodes, the health loop and one API thread; DEAD after 2 intervals of 2 ticks.
CONSTANTS
    n1 = n1
    n2 = n2
    health = health
    api = api
    None = None
    Node = {n1, n2}
    HealthLoop = health
    Poller = {api}
    Interval = 2
    SuspectedMisses = 1
    DeadMisses = 2
SPECIFICATION Spec
SYMMETRY NodeSymmetry
INVARIANTS TypeOK  PunctualNodeKept
