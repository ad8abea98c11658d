SPECIFICATION ReaderSpec
CONSTANTS
    a = a
    b = b
    long = long
    Contexts <- MCContexts
    CtxHash <- MCCtxHash
    BloomBits <- MCBloomBits
    Snapshots <- MCSnapshots
INVARIANT
    ReaderInside
PROPERTY
    LookupEnds
CHECK_DEADLOCK FALSE
