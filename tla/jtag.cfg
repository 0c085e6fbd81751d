SPECIFICATION Spec
CONSTANTS
    OutSize = 480
    UsedKinds = {"bitbang", "mpsse", "lpt", "usb", "usb_single"}
    Ids <- MCIds
    ChipIds <- MCChipIds
    ResetRetry = 2
    Pcs <- MCPcs
    ReadSpans <- MCReads
    WriteSpans <- MCWrites
    BlockWords = 4
    ProgramWords = 1
    PageWords = 2
    MaxCalls = 4
    MaxPolls = 2
INVARIANTS TypeOK BuffersHold CopyAgrees
PROPERTIES ClosedLetsGo ImplementsWordPort
CHECK_DEADLOCK FALSE
