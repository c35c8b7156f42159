SPECIFICATION FairSpec
CONSTANTS
    MaxPushers = 1
    MaxResumes = 1
    MaxSwitches = 2
    Samplerates = 1
INVARIANTS
    VideoEncoderFollowsPreview
PROPERTIES
    ErrorCloses
CHECK_DEADLOCK FALSE
