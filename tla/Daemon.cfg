SPECIFICATION MCSpec
CONSTANTS
    Clients = {k1}
    Conns = {c1, c2}
    Sizes = {1}
    MaxLog = 2
    MaxOpens = 2
    MaxKeys = 1
    TailSlots = 2
    BackfillBytes = 1
    GoalCard = goal
    FeatureCards = {card1}
    BoardSessions = {bs1, bs2}
    Patches = {patch1}
    BusSlots = 2
    MaxCalls = 4
    OrchClients = {q1, q2}
    OrchHandles = {oh1, oh2}
    MaxTasks = 3
    MaxMail = 1
    MaxOrchCalls = 5
    Polls = {poll1, poll2}
    Blocks <- MCBlocks
    MaxLines = 2
    MaxInodes = 2
    MaxResets = 1
    MaxPolls = 2
    DeskTrees = {d1}
    SessTrees = {i1}
    WtClients = {wc1, wc2}
    MaxWtCalls = 3
    MaxWrites = 2
    Files = {f, g}
    MaxContent = 2
    MaxGitCalls = 2
    MaxAgent = 2
INVARIANTS
    DaemonTypeOK
    ShowsWhatIsThere
    
PROPERTIES
    WorkIsKept
    LocalStreamFeeds
CHECK_DEADLOCK FALSE
