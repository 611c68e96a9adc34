CONSTANTS
    Tasks = {t1, t2}
    NoTask = NoTask
    Spans = {}
    NoSpan = NoSpan
    Counts = {n1}
    NoCount = NoCount
    Observations = {}
    Origins = {}
    NoOrigin = NoOrigin
    Revisions = {}
    NoRevision = NoRevision
    MaximumObservations = 1
    Clients = {c1, c2}
    NoClient = NoClient
    Events <- TaskEvents
    Exports <- None
    MaxEvents = 3
SPECIFICATION Spec
SYMMETRY Symmetry
INVARIANTS
    AttributionIsCurrent
    CurrentTaskIsMostRecentlyStarted
PROPERTIES
    LogSpec
