SPECIFICATION Spec
CONSTANTS
    OutSize = 480
    UsedKinds = {"mpsse"}
    Ids <- MCIds
    ChipIds <- MCChipIds
    ResetRetry = 2
    Pcs <- MCPcs
    ReadSpans <- MCReads
    WriteSpans <- MCWrites
    BlockWords = 4
    ProgramWords = 1
    PageWords = 2
    MaxCalls = 3
    MaxPolls = 2
PROPERTIES DetachLetsGo
CHECK_DEADLOCK FALSE
