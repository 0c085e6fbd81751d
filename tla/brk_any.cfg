SPECIFICATION Spec
CONSTANTS
    Addrs = {a1, a2}
    Types = {1}
    MaxBreaks = 2
INVARIANTS EveryBreakTriggers
