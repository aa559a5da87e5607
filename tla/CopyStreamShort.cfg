SPECIFICATION Spec
CONSTANTS
    Buffers <- MCBuffers
    BufferCount = 2
    SizeImage = 2
    BufLen <- MCBufLen
    WireCap = 2
    FrameLimit = 3
    RawSizes <- MCRawSizes
    SenderFaults = FALSE
    Sdls = {TRUE}
    ReceiverFaults = FALSE
INVARIANT ShownFramesWhole
