SPECIFICATION Spec
CONSTANTS
    Runs = {r1, r2}
    NoRun = NoRun
    MaxVersion = 2
    MaxRequests = 2
SYMMETRY Symmetry
INVARIANTS
    TypeOK
    PageIsOfOneRun
    PanelIsOfView
PROPERTIES
    TraceNeverGoesBack
