SPECIFICATION Spec
CONSTANTS
    Ports = {p1, p2}
    NoPort = NoPort
    NoConfig = NoConfig
    NoContainer = NoContainer
    NoCommand = NoCommand
    NoOrigin = NoOrigin
    MaxVersion = 2
SYMMETRY Symmetry
INVARIANTS
    TypeOK
    KnownCanStart
    ManagedOriginStays
PROPERTIES
    SuccessIsConfirmed
