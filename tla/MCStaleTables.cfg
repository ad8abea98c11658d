SPECIFICATION MCSpec
CONSTANTS
    Models = {m1, m2}
    MaxSaves = 2
    MaxFaults = 1
    Threads = {t1, t2}
    Encoders = {e1, e2}
    ThePrior = ThePrior
SYMMETRY Symmetry
INVARIANT
    TablesOwn
CHECK_DEADLOCK FALSE
