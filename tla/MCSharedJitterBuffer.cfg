SPECIFICATION Spec
CONSTANTS
    Stream = {audio, video}
    audio = audio
    video = video
    NoThread = NoThread
    Pts = {0, 2}
    MaxDelta = 1
    Wrap = 16
    MaxPackets = 4
    CfgPending = {audio, video}
INVARIANTS
    FaultNeedsOverlap
    OverlapNeedsConfig
PROPERTIES
    ImplementsJitterBuffer
CHECK_DEADLOCK FALSE
