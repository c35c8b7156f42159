SPECIFICATION Spec
CONSTANTS
    Threshold = 1
    ShiftLimit = 2
    U32 = 32
    W24 = 16
    MaxDelta = 2
    Wrap = 1024
    MaxPackets = 7
    MaxTs = 3
    MaxRestarts = 1
INVARIANTS
    ConfigBeforeData
    VideoNeverFarBack
    WrapsOnlyAfterBackShift
    FileHasStreamTimes
CHECK_DEADLOCK FALSE
