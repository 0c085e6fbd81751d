SPECIFICATION Spec
CONSTANTS
    Bits = {b1}
    N = 8
    Sector = 4
    Page = 2
    MaxWeak = 4
    MaxImage = 6
    Segment = 4
    DEFAULT_ADDR = 16
    Rounds = {1}
    BLOCKSZ = 2
    Buffer = 1
    Signals = 2
    CommandLines <- HalfLines
CHECK_DEADLOCK FALSE
PROPERTIES OnlyImageChanges
