SPECIFICATION PatchSpec
CONSTANTS
    disp = disp
    beside = beside
    entry = entry
    old = old
    new = new
    page1 = page1
    page2 = page2
    page3 = page3
    page4 = page4
    Cells <- MCCells
    Bytes <- MCBytes
    Pages <- MCPages
    NoPage = NoPage
    Anything = Anything
    Plans <- MCPlans
    MaxFaults = 2
SYMMETRY SymmetricPages
CHECK_DEADLOCK FALSE
INVARIANTS
    PatchTypeOK
    NoDangling
    RollbackIsExact
    AppliedIsThePlan
