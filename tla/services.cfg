SPECIFICATION ServicesSpec
CONSTANTS
    BeatInterval = 8  ReportInterval = 4  SampleInterval = 4  Triggers = 2
    CallTime = 3  LocalTime = 1  Preemptible = TRUE
    CpAgent = {b1, b2}  InDriver = driver  Work = 2  CpExecutions = 3  CpFaults = 1
    Emitter = {m1, m2}  Stream = {w1}  Events = 3  MaxEvents = 2
    LibNode = {l1}  OnDriverHost = {}  DriverItself = driver  Install = {i1, i2}
    Package = {p1, p2}  Snapshot = {r1, r2}  Restarts = 1
    MemNode = {g1, g2}  MemCall = {c1, c2}  MaxFree = 2  MaxSize = 2  MaxReports = 1
    Cell = {n1, n2}  Terminal = terminal  Prints = 2
    PlNode = {1, 2, 3}  PlHour = {8, 18}  PlUnits = 2
    PlReport <- MCPlReport  PlJob <- MCPlJob
    Connection = {v1}  MaxBytes = 2
    SimNode = {s1, s2, s3}  SimTasks = 3  SimWork = 2
INVARIANTS
    TypeOK
    HeartbeatGap
    StreamInOrder
    
    InstallTruthful
    BooksBalance
    AllocationSound
    
    CellsIsolated
    
    
    EofMeansAll
PROPERTIES
    AckedWorkKept
    ResumesWhole
    StreamComplete
    BothPipesEnd
    
CHECK_DEADLOCK FALSE
