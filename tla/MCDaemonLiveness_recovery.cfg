SPECIFICATION FairSpec
CONSTANTS
    Task = {t1}
    Agent = {a1}
    Worker = {d1}
    Goroutine = {g1}
    NoAgent = NoAgent
    NoWorker = NoWorker
    NoGoroutine = NoGoroutine
    NoTask = NoTask
    MaxConcurrent <- OneSlot
    PriorityInput = {2}
    Faults = {"lost", "applied"}
    TimelyHeartbeats = FALSE
    PatientRestart = TRUE
    MaxBoots = 3
CHECK_DEADLOCK FALSE
PROPERTY EveryTaskEnds
PROPERTY CancelEndsExecution
PROPERTY ShutdownCompletes
