SPECIFICATION Spec
CONSTANTS
    SubtaskId = {s1}
    NoSubtask = NoSubtask
    MAX_PLANNING_CONSULTATIONS = 3
    GUARD_RETRY_LIMIT = 1
    MaxGuardRetries = 2
    MaxRollbacks = 0
CHECK_DEADLOCK FALSE
PROPERTY BlockedOnlyAfterRetry
