SPECIFICATION MCSpec
CONSTANTS
    plain = plain
    tuned = tuned
    broken = broken
    Configs <- MCConfigs
    Launchable <- MCLaunchable
    Details <- MCDetails
    Failures <- FailureKinds
    MaxFailures = 2
    MaxEdits = 1
    Transient = 6
    DrainTimeout = 7
    ShutdownWait = 1
    NoteFaults <- NoteFaultKinds
    MaxNoteFaults = 1
    MaxLag = 1
CHECK_DEADLOCK FALSE
INVARIANTS
    ElevatedTypeOK
    OutcomeAgrees
    FailureLeavesNoChild
    ConfirmedConfigRuns
    NoIconLeftBehind
PROPERTIES
    ShownForItsTime
    BothEnd
