CONSTANTS
    d1 = d1  d2 = d2  a1 = a1  c1 = c1  c2 = c2  j1 = j1  j2 = j2  t1 = t1  t2 = t2
    Driver = {d1, d2}
    Agent = {a1}
    Caller = {c1, c2}
    Job = {j1, j2}
    Task = {t1, t2}
    None = None
    Here = Here
    Workload <- MCWorkload
SYMMETRY Identities
SPECIFICATION Spec
INVARIANTS TypeOK AnswerIsDurable KeyHonoured KeyKnown
PROPERTY Promise
CHECK_DEADLOCK FALSE
