SPECIFICATION FairSpec
CONSTANTS
    Socket = {s1, s2}
    None = None
    MaxTokens = 3
    MaxFaults = 1
    MaxOps = 1
INVARIANTS TypeOK IInv NoRevival SurvivesLostRefresh OneRotationAtATime GoodJwtIsLetIn
PROPERTY FirstRefreshArrives
CHECK_DEADLOCK FALSE
