SPECIFICATION Spec
CONSTANTS
    MaxPushers = 2
    MaxResumes = 1
    MaxSwitches = 0
    Samplerates = 2
INVARIANTS
    CameraAssertionsHold
    CloseReleasesAll
    CrashHasCause
    DeafOnlyAfterRetry
CHECK_DEADLOCK FALSE
