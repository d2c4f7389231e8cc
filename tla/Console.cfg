SPECIFICATION FairSpec
CONSTANTS
    Task = {t1}
    Page = {p1}
    Connection = {c1, c2}
    NoConnection = NoConnection
    Capacity = 1
    Window = 1
    MaxChunks = 1
    Ending = {"completed"}
CHECK_DEADLOCK FALSE
INVARIANT TypeOK
INVARIANT StaleHasCause
PROPERTY DaemonNeverWaits
