SPECIFICATION FairSpec
CONSTANTS
    Commands = {"query", "detach"}
    CloseIn = {"reply"}
    MaxRequests = 1
    MaxFaults = 0
    MayBeRogue = FALSE
    FaultsOnRun = TRUE
    MaxSessions = 1
    FailIn = {}
    MaxFails = 0
    MaxConsole = 0
PROPERTIES WaitsForNext
CHECK_DEADLOCK FALSE
