SPECIFICATION Spec
CONSTANTS
    Stream = {audio, video}
    audio = audio
    video = video
    Pts <- MCPts
    MaxDelta = 1
    Wrap = 16
    MaxPackets = 5
INVARIANTS
    PointersConsistent
    InOrderUntilForced
    BoundedHold
PROPERTIES
    ImplementsPacketMerge
CHECK_DEADLOCK FALSE
