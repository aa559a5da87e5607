SPECIFICATION HungReceiverSpec
CONSTANTS
    Buffers = {b1, b2}
    AckUnits = 2
    FrameCap = 3
    AckCap = 2
    RecvBuf = 2
    FrameLimit = 3
    AckTimeoutMs = 2000
    RawSizes = {1}
    BufLen = 2
    ImportLen = 2
    SenderFaults = FALSE
    RecvLimit <- NoLimit
    Sdl = FALSE
    ReceiverFaults = FALSE
PROPERTIES
    SenderFinishes
