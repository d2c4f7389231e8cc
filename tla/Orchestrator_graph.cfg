SPECIFICATION Spec
CONSTANTS
    SubtaskId = {s1, s2}
    NoSubtask = NoSubtask
    MAX_PLANNING_CONSULTATIONS = 3
    GUARD_RETRY_LIMIT = 1
    MaxGuardRetries = 2
    MaxRollbacks = 2
CHECK_DEADLOCK FALSE
INVARIANT TypeOK
INVARIANT RetryReachesItsSubagent
INVARIANT ConsultationHasQuestion
INVARIANT LoopSeesItsOwnResults
INVARIANT ReviewsComplete
INVARIANT ShownClaimIsCurrent
PROPERTY ImplementsLadder
PROPERTY UserIsAsked
