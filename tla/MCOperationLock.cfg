SPECIFICATION Spec
CONSTANTS
    Windows = {w1, w2, w3}
    NoWindow = NoWindow
    Tokens = {t1, t2, t3, t4, t5}
    NoLock = NoLock
    RenameOverEmpty = TRUE
    DeathsInterleave = FALSE
SYMMETRY Symmetry
CHECK_DEADLOCK FALSE
INVARIANTS
    MutualExclusion
PROPERTIES
    LiveLocksStay
