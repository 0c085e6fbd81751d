SPECIFICATION Spec
CONSTANTS
    Top = 11
    Limit = 7
    NumRegs = 3
    Fp0 = 2
    Requests <- MCRequests
    Addrs = {0, 1, 3, 6, 11, 12}
    Lens = {0, 1, 2, 5, 8, 12}
    Shifts = {0}
    Spoiling = {35, 48, 125}
    MaxRequests = 2
    MaxFaults = 1
INVARIANTS TypeOK TwoRepeatsSuffice
PROPERTIES ImplementsByteMemory
CHECK_DEADLOCK FALSE
