SPECIFICATION Spec
CONSTANTS
    Windows = {w1, w2, w3}
    NoWindow = NoWindow
    Tokens = {t1, t2, t3, t4}
    NoLock = NoLock
    RenameOverEmpty = FALSE
    DeathsInterleave = TRUE
SYMMETRY Symmetry
CHECK_DEADLOCK FALSE
PROPERTIES
    LiveLocksStay
