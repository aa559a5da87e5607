SPECIFICATION Spec
CONSTANTS
    Buffers = {b1, b2}
    AckUnits = 2
    FrameCap = 1
    AckCap = 1
    RecvBuf = 2
    FrameLimit = 4
    AckTimeoutMs = 2000
    RawSizes = {1, 3}
    BufLen = 2
    ImportLen = 2
    SenderFaults = TRUE
    RecvLimit <- NoLimit
    Sdl = TRUE
    ReceiverFaults = TRUE
INVARIANTS
    TypeOK
    HandoverInv
    OneBufferInHand
    OwnershipUntilWarning
    OrderlyExitDeliversAll
    AcksMatchUntilTimeout
    BacklogNeverDrains
    NeverMutualBlock
    ShownAsAnnounced
    ClampPreventsRejection
PROPERTIES
    FramesInOrder
    ImplementsHandover
