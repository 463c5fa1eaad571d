SPECIFICATION MCSpec
CONSTANTS
    BusRoom = 2
    MaxShows = 2
    MaxDials = 2
    MaxTyped = 1
    TuiSessions = {1, 2}
    MaxOut = 1
    ChannelRoom = 1
    MaxKeyPresses = 3
    FormHosts = {h1}
    MaxOps = 3
    MaxForms = 2
    MaxEdits = 1
    LocalDirs = {"a", "b"}
    RemoteDirs = {"r"}
    MaxWidth = 2
    MaxTtl = 2
    DlgSessions = {s1, s2}
    MaxErrorLog = 1
    MaxDlgOps = 1
    TreeSessions <- MCTreeSessions
    Names = {1, 2}
    MaxTreeChanges = 2
    ClipAgents = {a1}
    Pastes = {v1, v2}
    ClipSessions = {c1}
    ClipRoom = 1
    ScreenSizes <- MCScreenSizes
    TreeWidths = {10, 60}
    GitWidths = {30, 60, 200}
    Percents = {10, 50, 80}
    Frames <- MCFrames
    Scrollback = 2
    WheelLines = 1
    PageLines = 2
INVARIANTS
    UiTypeOK
    
    AnswersFindTheirRequest
    ScreenIsCoherent
PROPERTIES
    RefreshKeepsPlace
CHECK_DEADLOCK FALSE
