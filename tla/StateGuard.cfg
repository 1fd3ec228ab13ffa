SPECIFICATION GuardFairSpec
CONSTANTS
    width = width
    height = height
    other = other
    cn = cn
    global = global
    d1 = d1
    d2 = d2
    Settings <- MCSettings
    Roots <- MCRoots
    RootOf <- MCRootOf
    Data <- MCData
    Absent = Absent
    Unsaved = Unsaved
    MaxWrites = 2
    MaxFaults = 1
CHECK_DEADLOCK FALSE
INVARIANTS
    GuardTypeOK
    NoLostWake
PROPERTIES
    ImplementsSnapBack
    ChangeIsAnswered
    GuardComesToRest
