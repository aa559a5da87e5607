SPECIFICATION FairSpec
CONSTANTS
    Byte <- MCByte
    W = 4
    MaxGrefs = 1
    Scripts <- MCScripts
    WireCap = 2
INVARIANTS
    TypeOK
    BytesInTransit
    OrderlyEndLosesNothing
PROPERTIES
    ImplementsPipe
    BothLoopsEnd
