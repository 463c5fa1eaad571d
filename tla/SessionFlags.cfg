SPECIFICATION Spec
CONSTANTS
    sess = sess
    host = host
    Sessions = {sess}
    Hosts = {host}
    HostOf <- MCHostOf
    SshHosts = {}
    McpSessions = {sess}
    Names = {n1}
    UserName = user
    Users = {u1}
    Boot = boot
    NoProc = noproc
    NoTarget = notarget
    MaxRequests = 2
    MaxLaunches = 5
    MaxSurprises = 0
    FlagEdits = {"keep", "drop"}
INVARIANTS UserPaneNeverKilled
