SPECIFICATION FairSpec
CONSTANTS
    Capacity = 1
    LongLines = TRUE
    MaxLines = 2
CHECK_DEADLOCK FALSE
PROPERTY DrainingPreventsBlocking
