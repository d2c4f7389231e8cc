SPECIFICATION FairSpec
CONSTANTS
    Capacity = 1
    LongLines = TRUE
    MaxLines = 2
CHECK_DEADLOCK FALSE
INVARIANT TypeOK
INVARIANT NothingLost
INVARIANT TruthfulOutcome
PROPERTY CancelEndsChild
PROPERTY RunReturns
PROPERTY CancelReturns
