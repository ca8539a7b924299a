SPECIFICATION FairSpec
CONSTANTS
    Device = {d1}
    Org = {o1, o2}
    Completer = {p1, p2}
    None = None
    Orphan = Orphan
    Quota <- OneEach
    MaxCodes = 2
    MaxTokens = 2
    MaxFaults = 0
    MaxOps = 1
PROPERTIES TenantKept HandoffArrives
CHECK_DEADLOCK FALSE
