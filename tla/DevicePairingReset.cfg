SPECIFICATION FairSpec
CONSTANTS
    Device = {d1}
    Org = {o1}
    Completer = {p1}
    None = None
    Orphan = Orphan
    Quota <- OneEach
    MaxCodes = 3
    MaxTokens = 2
    MaxFaults = 0
    MaxOps = 0
PROPERTY ResetLetsDeviceBack
CHECK_DEADLOCK FALSE
