SPECIFICATION FairSpec
CONSTANTS
    MaxFrames = 6
INVARIANTS
    NoSleepOnWork
    SingleOwner
    EncoderOpenWhenUsed
    LeakedAtClose
PROPERTIES
    CloseReturns
CHECK_DEADLOCK FALSE
