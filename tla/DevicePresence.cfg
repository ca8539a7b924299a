SPECIFICATION FairSpec
CONSTANTS
    Socket = {s1, s2}
    None = None
    Worker = {w1, w2}
    MaxFaults = 2
INVARIANT TypeOK
PROPERTIES ConnectedIsOnline AwayIsOffline
CHECK_DEADLOCK FALSE
