SPECIFICATION Spec
CONSTANTS
    Runs = {1, 2, 3}
    Starts = {1}
    Ends = {1, 2}
    Limits = {1, 2}
    Clients = {c1, c2}
    NoTarget = NoTarget
    MaxVersion = 2
SYMMETRY ClientSymmetry
INVARIANTS
    TypeOK
    RetentionBound
    ToldSurvives
    PruneIsDeterministic
PROPERTIES
    RemovalJustified
    LedgerSpec
