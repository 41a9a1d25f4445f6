SPECIFICATION Spec
CONSTANTS
    Waiters = {w1, w2}
    Terminal = {"success"}
    MaxCodes = 2
    OutCap = 1
    Nobody = Nobody
INVARIANT AwakeAfterDeadline
CHECK_DEADLOCK FALSE
