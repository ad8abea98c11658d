SPECIFICATION Spec
CONSTANTS
    Priors = {p1}
    Workers = {w1, w2}
    Main = main
    Buffers = {b1, b2, b3}
    NoPrior = noPrior
    OwnModel = ownModel
    Null = null
SYMMETRY Symmetry
INVARIANTS
    TablesReady
    NoTableLost
    AllReturned
    GlobalNotDangling
