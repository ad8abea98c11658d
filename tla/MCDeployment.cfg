SPECIFICATION MCSpec
CONSTANTS
    Models = {m1, m2}
    MaxSaves = 2
    MaxFaults = 2
    Threads = {t1, t2}
    Encoders = {e1, e2}
    ThePrior = ThePrior
SYMMETRY Symmetry
INVARIANTS
    TypeOK
    Reported
    TablesOwnUnlessRefused
    CallsLive
    NothingLeaked
    HeldSound
CHECK_DEADLOCK FALSE
