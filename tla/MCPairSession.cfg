SPECIFICATION FairSpec
CONSTANTS
    Waiters = {w1, w2}
    Terminal = {"success"}
    MaxCodes = 2
    OutCap = 1
    Nobody = Nobody
INVARIANTS
    TypeOK
    NoSleepThroughEvent
    OutcomeVisible
PROPERTIES
    WaitReturns
    FlowEnds
    ImplementsCell
CHECK_DEADLOCK FALSE
