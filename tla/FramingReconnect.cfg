SPECIFICATION Spec
CONSTANTS
    Bytes <- SomeBytes
    PacketLen = 6
    MaxChunk = 2
    MaxBytes = 10
PROPERTIES FrameIsFresh
CHECK_DEADLOCK FALSE
