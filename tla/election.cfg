CONSTANTS
    d1 = d1
    d2 = d2
    d3 = d3
    None = None
    Driver = {d1,d2,d3}
    Lease = 3
    Renew = 2
    MaxTerm = 4
SPECIFICATION Spec
SYMMETRY DriverSymmetry
CHECK_DEADLOCK FALSE
INVARIANTS TypeOK OwnerCanRenew  VacancyBounded
