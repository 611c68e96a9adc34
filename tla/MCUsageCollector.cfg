SPECIFICATION Spec
CONSTANTS
    Windows = {w1, w2}
    NoWindow = NoWindow
    Sources = {s1}
    NoSource = NoSource
    Revisions = {a, b}
    NoRevision = NoRevision
    First = a
    Runs = {r1}
    NoRun = NoRun
    Recorded = {}
    MaxVersion = 3
    Creators = {w1}
    Attended = {w1}
    MaxPuts = 2
CHECK_DEADLOCK FALSE
INVARIANTS
    TypeOK
    CompletedRunIsImported
PROPERTIES
    OnlyReturnsGoBack
    CompletedRunStays
    QuietAfterStop
    PollingCatchesUp
