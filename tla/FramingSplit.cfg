SPECIFICATION FairSpec
CONSTANTS
    Bytes <- SomeBytes
    PacketLen = 6
    MaxChunk = 2
    MaxBytes = 10
INVARIANTS TypeOK BufferIsTail FramesOfStream
PROPERTIES FeedReturns ScansStream FrameEndsFresh
CHECK_DEADLOCK FALSE
