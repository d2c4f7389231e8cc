SPECIFICATION FairSpec
CONSTANTS
    Task = {t1, t2}
    Agent = {a1}
    Worker = {d1}
    Goroutine = {g1}
    NoAgent = NoAgent
    NoWorker = NoWorker
    NoGoroutine = NoGoroutine
    NoTask = NoTask
    MaxConcurrent <- OneSlot
    PriorityInput = {2}
    Faults = {}
    TimelyHeartbeats = FALSE
    PatientRestart = TRUE
    MaxBoots = 1
CHECK_DEADLOCK FALSE
PROPERTY EveryCancelEndsTask
