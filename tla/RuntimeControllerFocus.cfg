SPECIFICATION RuntimeSpec
CONSTANTS
    Configs <- PowerSaveOnly
    MaxSwitches = 2
    MaxKeys = 0
    MaxFaults = 0
CHECK_DEADLOCK FALSE
INVARIANT
    FocusIsFollowed
