SPECIFICATION FairSpec
CONSTANTS
    Call = {c1, c2}
    Worker = {w1}
    DaysToPublishLock = 1
    DaysToSuspend = 1
    DaysToCancel = 1
    MaxDay = 0
    MaxEvents = 2
    MaxFaults = 2
INVARIANTS AckedWasProcessed OneHandlerPerEvent
PROPERTY EventsAreAcked
CHECK_DEADLOCK FALSE
