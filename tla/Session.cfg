SPECIFICATION FairSpec
CONSTANTS
    width = width
    height = height
    other = other
    cn = cn
    global = global
    p1 = p1
    p2 = p2
    g1 = g1
    g2 = g2
    d1 = d1
    d2 = d2
    Settings <- TwoSettings
    Roots <- MCRoots
    RootOf <- TwoRootOf
    Data <- MCData
    Absent = Absent
    Unsaved = Unsaved
    Launchers <- MCLaunchers
    Pids <- MCPids
    NoPid = NoPid
    NoJournal = NoJournal
    Nobody = Nobody
    Faults <- FaultKinds
    MaxFaults = 2
ACTION_CONSTRAINT HarmlessProbe
INVARIANTS
    TypeOK
    PendingRestoreIsRecorded
    RunningGameIsNamed
    RestoreOnlyWhenStopped
    SnapshotIsTheUsers
PROPERTIES
    ClearedOnlyWhenSettled
    ImplementsUndoLog
    JournalEventuallyCleared
