SPECIFICATION Spec
CONSTANTS
    Call = {c1}
    Worker = {w1}
    DaysToPublishLock = 1
    DaysToSuspend = 2
    DaysToCancel = 3
    MaxDay = 3
    MaxEvents = 2
    MaxFaults = 0
INVARIANT CanceledIsResumed
CHECK_DEADLOCK FALSE
