SPECIFICATION MCSpec
CONSTANTS
    p1 = p1
    p2 = p2
    o1 = o1
    o2 = o2
    n1 = n1
    n2 = n2
    bad = bad
    def = def
    j1 = j1
    j2 = j2
    Launchers <- MCLaunchers
    Docs <- MCDocs
    OldDocs <- MCOldDocs
    BadDocs <- MCBadDocs
    Convert <- MCConvert
    Default = def
    Journals <- MCJournals
    BadJournal = BadJournal
    NoFile = NoFile
    Keep = FALSE
    MaxStops = 1
    MaxEdits = 1
SYMMETRY SymmetricLaunchers
INVARIANTS
    MigrationTypeOK
    SettingsInEffect
    OriginalIsKept
    JournalIsPassedOn
    ResumeIsAccepted
PROPERTIES
    ConversionIsReversible
