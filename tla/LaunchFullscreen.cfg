SPECIFICATION Spec
CONSTANTS
    Wild = Wild
    Bad = Bad
    Base = 4
    FieldWidth = 1
    Chunk = 2
    MaxSection = 12
    MinInt <- MCMinInt
    MaxInt = 9
    Worlds <- MCWorlds
CHECK_DEADLOCK FALSE
INVARIANT DisplayChangesAreGuarded
