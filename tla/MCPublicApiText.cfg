SPECIFICATION Spec
CONSTANTS
    NVal = 3
    Depth = 2
    Slots = 2
    Hash <- MCHash
    PerMsgClear = {TRUE, FALSE}
    GenMod = 3
    Priors <- MCTexts
    Messages <- MCStrings
    Crc <- MCCrc
    Switches = {}
    MaxBlobs = 2
INVARIANTS
    Lossless
    InStep
    CacheCoherent
    CacheCleared
CHECK_DEADLOCK FALSE
