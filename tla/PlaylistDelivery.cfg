SPECIFICATION Spec
CONSTANTS
    Socket = {s1, s2}
    None = None
    MaxAssign = 2
    MaxRequests = 1
    MaxFailures = 1
    MaxFaults = 1
SYMMETRY Symmetry
INVARIANTS TypeOK IInv NothingLost OvertakenStaysOut
CHECK_DEADLOCK FALSE
