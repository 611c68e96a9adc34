SPECIFICATION Spec
CONSTANTS
    Ports = {p1, p2}
    NoPort = NoPort
    NoConfig = NoConfig
    NoContainer = NoContainer
    NoCommand = NoCommand
    NoOrigin = NoOrigin
    MaxVersion = 1
SYMMETRY Symmetry
PROPERTIES
    ConflictIsOfChosenPort
