SPECIFICATION Spec
CONSTANTS
    Commands = {"query", "status", "rcmd", "cont", "step", "contfrom", "stepfrom", "go", "badrun", "ext", "kill", "restart", "detach"}
    CloseIn = {"idle", "ack", "reply"}
    MaxRequests = 3
    MaxFaults = 1
    MayBeRogue = TRUE
    FaultsOnRun = TRUE
    MaxSessions = 2
    FailIn = {"socket", "bind", "accept"}
    MaxFails = 1
    MaxConsole = 1
INVARIANTS TypeOK ServesStoppedCpu StatusIsCurrent CpuReleased SocketsClean OnlyAcksLeftOver RepliesOfThisSession
CHECK_DEADLOCK FALSE
