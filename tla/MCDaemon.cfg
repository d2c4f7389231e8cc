SPECIFICATION Spec
CONSTANTS
    Task = {t1, t2}
    Agent = {a1, a2}
    Worker = {d1}
    Goroutine = {g1, g2}
    NoAgent = NoAgent
    NoWorker = NoWorker
    NoGoroutine = NoGoroutine
    NoTask = NoTask
    MaxConcurrent <- OneSlot
    PriorityInput = {0, 3}
    Faults = {"lost", "applied"}
    TimelyHeartbeats = TRUE
    PatientRestart = FALSE
    MaxBoots = 2
CHECK_DEADLOCK FALSE
SYMMETRY TaskSymmetry
INVARIANT TypeOK
INVARIANT SlotAccounting
INVARIANT ManagerAgrees
INVARIANT NeverOvertaken
INVARIANT CancelHasCause
PROPERTY TerminalIsFinal
CONSTRAINT Bound
