SPECIFICATION FairSpec
CONSTANTS
    Socket = {s1, s2}
    None = None
    MaxAssign = 1
    MaxRequests = 2
    MaxFailures = 1
    MaxFaults = 1
PROPERTY ReconnectRereads
CHECK_DEADLOCK FALSE
