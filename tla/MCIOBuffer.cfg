SPECIFICATION BufferSpec
CONSTANTS
    MinChunk = 2
    MaxChunk = 5
    MaxError = 6
    MaxAlloc = 20
    U32 = 64
    MaxBytes = 22
INVARIANTS
    FaultExactlyByMisread
PROPERTIES
    ImplementsByteQueue
CHECK_DEADLOCK FALSE
