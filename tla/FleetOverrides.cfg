SPECIFICATION Spec
CONSTANTS
    Socket = {s1, s2}
    None = None
    Replay = {r1, r2}
    MaxPush = 1
    MaxFailures = 1
    MaxFaults = 2
INVARIANTS TypeOK IInv ClearedStaysCleared ShownCanBeCleared
PROPERTIES KeepsPromise
CHECK_DEADLOCK FALSE
