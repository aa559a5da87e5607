SPECIFICATION IdleCameraSpec
CONSTANTS
    Buffers = {b1, b2}
    AckUnits = 1
    FrameCap = 1
    AckCap = 1
    RecvBuf = 1
    FrameLimit = 2
    AckTimeoutMs = 0
    RawSizes = {1}
    BufLen = 2
    ImportLen = 2
    SenderFaults = FALSE
    RecvLimit <- NoLimit
    Sdl = TRUE
    ReceiverFaults = FALSE
PROPERTIES
    QuitIsHandled
