SPECIFICATION MCSpec
CONSTANTS
    Byte <- MCByte
    Depth = 2
    Contexts <- MCContexts
    CtxHash <- MCCtxHash
    KeyHash <- MCKeyHash
    BloomBits <- MCBloomBits
    Builds <- MCBuilds
    MaxTrained = 5
    WindowsSet <- MCWindowsSet
INVARIANTS
    BtTypeOK
    TotalsExact
    TotalsBound
    SlotsFree
    SavedOpens
    OnOneChain
PROPERTY
    CountsKept
CHECK_DEADLOCK FALSE
