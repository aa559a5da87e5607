SPECIFICATION FairSpec
CONSTANTS
    Buffers = {b1, b2}
    AckUnits = 2
    FrameCap = 1
    AckCap = 1
    RecvBuf = 2
    FrameLimit = 3
    AckTimeoutMs = 0
    RawSizes = {1, 3}
    BufLen = 3
    ImportLen = 2
    SenderFaults = TRUE
    RecvLimit = 2
    Sdl = TRUE
    ReceiverFaults = TRUE
PROPERTIES
    SenderFinishes
    ExitPropagates
