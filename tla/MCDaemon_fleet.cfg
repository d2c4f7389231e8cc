SPECIFICATION Spec
CONSTANTS
    Task = {t1}
    Agent = {a1}
    Worker = {d1, d2}
    Goroutine = {g1, g2}
    NoAgent = NoAgent
    NoWorker = NoWorker
    NoGoroutine = NoGoroutine
    NoTask = NoTask
    MaxConcurrent <- TwoSlots
    PriorityInput = {2}
    Faults = {"lost", "applied"}
    TimelyHeartbeats = TRUE
    PatientRestart = FALSE
    MaxBoots = 3
CHECK_DEADLOCK FALSE
SYMMETRY TaskSymmetry
INVARIANT OneExecutionPerTask
INVARIANT HolderOwnsRow
PROPERTY ImplementsLease
