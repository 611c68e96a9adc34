CONSTANTS
    Tasks = {}
    NoTask = NoTask
    Spans = {s1, s2}
    NoSpan = NoSpan
    Counts = {n1}
    NoCount = NoCount
    Observations = {}
    Origins = {}
    NoOrigin = NoOrigin
    Revisions = {}
    NoRevision = NoRevision
    MaximumObservations = 1
    Clients = {c1, c2}
    NoClient = NoClient
    Events <- ExportEvents
    Exports <- SpanBatches
    MaxEvents = 3
SPECIFICATION Spec
SYMMETRY Symmetry
INVARIANTS
    AckedSpansCommitted
