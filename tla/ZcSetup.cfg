SPECIFICATION FairSpec
CONSTANTS
    h1 = h1
    h2 = h2
    h3 = h3
    Handles <- MCHandles
    GrefCounts <- MCCounts
    MaxGrefs = 1
    WireCap = 2
    Grants <- MCGrants
    Display = TRUE
    FirstCap = 1
INVARIANTS
    TypeOK
    TablesAgree
    NoPacketRefused
    EntryInBounds
    SenderGivesBack
    ReceiverGivesBack
PROPERTIES
    SetupResolves
    PeerFollows
CHECK_DEADLOCK FALSE
