SPECIFICATION Spec
CONSTANTS
    Windows = {w1}
    NoWindow = NoWindow
    Sources = {s1}
    NoSource = NoSource
    Revisions = {a, b}
    NoRevision = NoRevision
    First = a
    Runs = {r1}
    NoRun = NoRun
    Recorded = {r1}
    MaxVersion = 3
    Creators = {}
    Attended = {w1}
    MaxPuts = 2
CHECK_DEADLOCK FALSE
PROPERTIES
    ImportsMoveForward
