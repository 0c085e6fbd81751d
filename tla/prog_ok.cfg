SPECIFICATION Spec
CONSTANTS
    Bits = {b1}
    N = 8
    Sector = 4
    Page = 2
    MaxWeak = 4
    MaxImage = 6
    Segment = 4
    DEFAULT_ADDR = 16
    Rounds = {0, 1, 3, 4, 6, 7}
    BLOCKSZ = 2
    Buffer = 1
    Signals = 2
    CommandLines <- AllLines
CHECK_DEADLOCK FALSE
INVARIANTS TypeOK DoneMeansProgrammed RewritesSuffice ReportsAreTrue ReleasedAtEnd
PROPERTIES OnlyImageChanges Terminates
