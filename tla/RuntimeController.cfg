SPECIFICATION RuntimeFairSpec
CONSTANTS
    Configs <- MCConfigs
    MaxSwitches = 2
    MaxKeys = 3
    MaxFaults = 1
CHECK_DEADLOCK FALSE
INVARIANTS
    RuntimeTypeOK
    CellIsCurrent
    NeverBelowTen
    LastChangeCounts
PROPERTIES
    NothingAfterStop
    StopReturns
