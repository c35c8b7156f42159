SPECIFICATION FairSpec
CONSTANTS
    InputSize = 2
    FeedSizes = {1, 2, 3}
    PtsIncr = 7
    Samplerate = 3
    MaxFeeds = 4
INVARIANTS
    NoSleepOnInput
    StuckOnlyBySignalLost
    FaultOnlyAfterOverlap
    PtsExact
PROPERTIES
    CloseReturns
CHECK_DEADLOCK FALSE
