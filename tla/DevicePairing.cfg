SPECIFICATION Spec
CONSTANTS
    Device = {d1, d2}
    Org = {o1}
    Completer = {p1, p2}
    None = None
    Orphan = Orphan
    Quota <- OneEach
    MaxCodes = 2
    MaxTokens = 3
    MaxFaults = 1
    MaxOps = 0
SYMMETRY Interchangeable
INVARIANTS TypeOK IInv QuotaHolds LockedOutHasCause OneCompletionAtATime
CHECK_DEADLOCK FALSE
