SPECIFICATION Spec
CONSTANTS
    Addrs = {a1, a2, a3}
    Types = {0, 1, 2, 3, 4}
    MaxBreaks = 2
INVARIANTS TypeOK HalvesMatch LoneBreakTriggers
