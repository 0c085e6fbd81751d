SPECIFICATION FairSpec
CONSTANTS
    Commands = {"query", "status", "rcmd", "cont", "step", "ext", "kill", "restart", "detach"}
    CloseIn = {"idle"}
    MaxRequests = 4
    MaxFaults = 2
    MayBeRogue = FALSE
    FaultsOnRun = FALSE
    MaxSessions = 2
    FailIn = {}
    MaxFails = 0
    MaxConsole = 2
INVARIANTS RepliesMatch NoRequestLost
PROPERTIES CallOrder RequestAnswered InterruptStops WaitsForNext
CHECK_DEADLOCK FALSE
