SPECIFICATION Spec
CONSTANTS
    Buffers = {b1, b2}
    AckUnits = 1
    FrameCap = 2
    AckCap = 1
    RecvBuf = 1
    FrameLimit = 3
    AckTimeoutMs = 2000
    RawSizes = {1}
    BufLen = 2
    ImportLen = 2
    SenderFaults = FALSE
    RecvLimit <- NoLimit
    Sdl = FALSE
    ReceiverFaults = FALSE
INVARIANTS
    RequeueAfterAck
