SPECIFICATION MCSpec
CONSTANTS
    Procs = {proc1, proc2, proc3}
    Attempts = 2
    Peers = {peer1}
    Capacity = 2
    Window = 2
    Ttl = 1
    MaxClock = 3
    MaxTokens = 2
    MaxDrops = 1
    BHosts = {h1, h2}
    Slugs = {w1}
    MacPorts = {1, 2}
    BOps = {o1, o2, o3}
    MaxDest = 2
    MaxLives = 2
    MaxMasterDrops = 1
    Provisions = {p1, p2}
    MaxStarts = 4
    MaxFailures = 2
    CfgSessions = {s1, s2}
    UserServers = {u1}
    MaxUserEdits = 1
    MaxLaunchFaults = 2
    MaxLaunches = 3
    MaxScripts = 2
    MaxGone = 1
    MaxSteps = 1
    MaxBinChanges = 1
    SshCmds = {sc1, sc2, sc3}
    MaxStageFails = 1
    DbOpeners = {db1, db2}
    LogOpeners = {lg1}
    CreateRetries = 8
    MaxSwaps = 1
INVARIANTS
    HostTypeOK
    StartsDoNotCollide
    LaunchIsSettled
    SignInHolds
PROPERTIES
    RollbackSparesOthers
CHECK_DEADLOCK FALSE
