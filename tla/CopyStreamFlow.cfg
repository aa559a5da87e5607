SPECIFICATION FairSpec
CONSTANTS
    Buffers <- MCBuffers
    BufferCount = 2
    SizeImage = 2
    BufLen <- MCBufLen
    WireCap = 2
    FrameLimit = 3
    RawSizes <- MCRawSizes
    SenderFaults = TRUE
    Sdls = {TRUE, FALSE}
    ReceiverFaults = TRUE
INVARIANTS
    TypeOK
    StreamInStep
    NeverRefused
    NothingLost
PROPERTIES
    ImplementsStream
    BothFinish
