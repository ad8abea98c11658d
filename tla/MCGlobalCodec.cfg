SPECIFICATION Spec
CONSTANTS
    NVal = 3
    Depth = 3
    FractionBits = 8
    PRES = 64
    ExpBits = 6
    WSCALE = 256
    PSCALE = 256
    LOG2_E = 369
    LEVELS <- MCLevels
    Char <- MCChar
    PMAX = 2
    A_DEN = 65536
    LM_BACKOFF_W = 4
    Scale = 1024
    Corpora <- MCCorpora
    Combos <- MCCombos
    LmLength = 2
    LmCount = 2
    RecordSizes = {1, 2}
    MaxCoded = 3
INVARIANTS
    InStep
    DistUsable
    TablesSound
    ShortcutExact
CHECK_DEADLOCK FALSE
