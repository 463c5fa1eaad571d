SPECIFICATION Spec
CONSTANTS
    sess = sess
    host = host
    Sessions = {sess}
    Hosts = {host}
    HostOf <- MCHostOf
    SshHosts = {host}
    McpSessions = {sess}
    Names = {n1}
    UserName = user
    Users = {u1}
    Boot = boot
    NoProc = noproc
    NoTarget = notarget
    MaxRequests = 2
    MaxLaunches = 4
    MaxSurprises = 1
    FlagEdits = {"keep", "drop"}
 
PROPERTIES DestroysOnlyOwned
