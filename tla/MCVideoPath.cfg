SPECIFICATION MCSpec
CONSTANTS
    Rates = {4, 7, 10, 15, 20, 24, 30}
    Scale = 1000000
    Reach = 10
    INT_MAX = 255
    MaxFed = 26
    MaxLate = 2
    Slack = 2
    MaxSize = 4
    MaxCalls = 3
    Threshold = 1
    ShiftLimit = 4
    MaxTs = 4
    MaxRestarts = 1
    Sps <- MCSps
    Pps <- MCPps
    Sei <- MCSei
    Slice <- MCSlice
    MaxSlices = 2
    VIDEO_PAYLOAD_OFFSET = 1
    VIDEO_BODY_HEADER_LENGTH = 2
    JustInCase = 1
INVARIANTS
    RateKept
    DropsBounded
    MisuseNeedsOverlap
    CapacityTrueUnlessTwoGrow
    FrameFaithful
    
PROPERTIES
    FarBackNeedsOverlap
    
CHECK_DEADLOCK FALSE
