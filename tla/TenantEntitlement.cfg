SPECIFICATION Spec
CONSTANTS
    Call = {c1}
    Worker = {w1, w2}
    DaysToPublishLock = 1
    DaysToSuspend = 2
    DaysToCancel = 3
    MaxDay = 3
    MaxEvents = 4
    MaxFaults = 0
SYMMETRY Symmetry
INVARIANTS TypeOK GraceHonoured IInv
 
CHECK_DEADLOCK FALSE
