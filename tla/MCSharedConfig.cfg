SPECIFICATION Spec
CONSTANTS
    Stream = {audio, video}
    audio = audio
    video = video
    NoThread = NoThread
    Pts <- MCPts
    MaxDelta = 1
    Wrap = 16
    MaxPackets = 4
    CfgPending = {audio, video}
INVARIANTS
    AssertionHolds
CHECK_DEADLOCK FALSE
