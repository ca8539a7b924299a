SPECIFICATION FairSpec
CONSTANTS
    Socket = {s1, s2}
    None = None
    MaxFaults = 1
INVARIANTS TypeOK IInv ConnectedIsNotAlarmed AwayIsAlarmed
PROPERTY AlarmIsSettled
CHECK_DEADLOCK FALSE
