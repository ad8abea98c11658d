SPECIFICATION Spec
CONSTANTS
    NVal = 3
    Depth = 2
    Slots = 2
    Hash <- MCHash
    PerMsgClear = {FALSE}
    GenMod = 3
    Priors <- MCSchemas
    Messages <- MCRecords
    Crc <- MCCrc
    Switches = {"checksum", "prior_id"}
    MaxBlobs = 2
INVARIANTS
    TypeOK
    Lossless
CHECK_DEADLOCK FALSE
