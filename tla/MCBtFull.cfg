SPECIFICATION Spec
CONSTANTS
    Byte <- MCByte
    Depth = 2
    Contexts <- MCContexts
    CtxHash <- MCCtxHash
    KeyHash <- MCKeyHash
    BloomBits <- MCBloomBits
    Builds <- MCFailing
    MaxTrained = 4
    WindowsSet <- MCWindowsSet
INVARIANT
    SlotsNeverFull
CHECK_DEADLOCK FALSE
