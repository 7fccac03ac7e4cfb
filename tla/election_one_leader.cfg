CONSTANTS
    d1 = d1
    d2 = d2
    d3 = d3
    None = None
    Driver = {d1,d2}
    Lease = 3
    Renew = 2
    MaxTerm = 3
SPECIFICATION Spec
SYMMETRY DriverSymmetry
CHECK_DEADLOCK FALSE
INVARIANTS OneLeader
