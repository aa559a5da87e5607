SPECIFICATION FairSpec
CONSTANTS
    Requested = 2
    Grants <- MCGrants
    Modes <- MCModes
    SizeImages <- MCSizes
    Programs <- MCPrograms
INVARIANTS
    TypeOK
    SenderAccounts
    ReceiverAccounts
    StreamingBacked
    PoolsFit
PROPERTIES
    SetupEnds
CHECK_DEADLOCK FALSE
