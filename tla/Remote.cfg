SPECIFICATION MCSpec
CONSTANTS
    Streams = {s1}
    MaxRemoteLog = 2
    MaxRev = 2
    TailAttempts = 1
    LagConfirms = 2
    MaxHostRev = 2
    MaxBoots = 2
    MaxFaults = 1
    FrameDepth = 2
    InputDepth = 2
    AckWindow = 2
    Spots = {a, b}
    MaxMoves = 2
    Viewers = {v1, v2}
    UsageTtl = 1
    MaxUsageNow = 2
    MaxPlans = 2
INVARIANTS
    RemoteTypesOK
    HostSafe
PROPERTIES
    RemoteStreamFeeds
    RemoteRecovers
    
    PlanIsShown
    
CHECK_DEADLOCK FALSE
