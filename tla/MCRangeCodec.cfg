SPECIFICATION Spec
CONSTANTS
    Quarter = 16
    NSym = 3
    Tables <- MCTables
    Tails <- MCTails
    Payloads <- MCPayloads
    Wants = {0, 2}
    MaxLen = 3
    MaxTotal = 16
INVARIANTS
    EncTypeOK
    EncInterval
    EncBound
    DecTypeOK
    DecContained
    DecBracket
    NoDivExact
PROPERTIES
    EncNested
    EncCallsReturn
    ChannelSpec
    DecFinishes
CHECK_DEADLOCK FALSE
