SPECIFICATION Spec
CONSTANTS
    Task = {t1}
    Agent = {a1}
    Worker = {d1, d2}
    Goroutine = {g1, g2}
    NoAgent = NoAgent
    NoWorker = NoWorker
    NoGoroutine = NoGoroutine
    NoTask = NoTask
    MaxConcurrent <- OneSlot
    PriorityInput = {2}
    Faults = {}
    TimelyHeartbeats = FALSE
    PatientRestart = FALSE
    MaxBoots = 2
CHECK_DEADLOCK FALSE
PROPERTY TerminalIsFinal
