SPECIFICATION Spec
CONSTANTS
    width = width
    height = height
    other = other
    cn = cn
    global = global
    p1 = p1
    p2 = p2
    g1 = g1
    g2 = g2
    d1 = d1
    d2 = d2
    Settings <- MCSettings
    Roots <- MCRoots
    RootOf <- MCRootOf
    Data <- MCData
    Absent = Absent
    Unsaved = Unsaved
    Launchers <- MCLaunchers
    Pids <- MCPids
    NoPid = NoPid
    NoJournal = NoJournal
    Nobody = Nobody
    Faults <- CrashAndProbe
    MaxFaults = 2
INVARIANT
    PendingRestoreIsRecorded
