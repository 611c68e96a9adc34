CONSTANTS
    Tasks = {}
    NoTask = NoTask
    Spans = {s1, s2}
    NoSpan = NoSpan
    Counts = {n1}
    NoCount = NoCount
    Observations = {1, 2, 3}
    Origins = {x1, x2}
    NoOrigin = NoOrigin
    Revisions = {r1, r2}
    NoRevision = NoRevision
    MaximumObservations = 2
    Clients = {c1, c2}
    NoClient = NoClient
    Events <- RecordingEvents
    Exports <- SpanBatches
    MaxEvents = 3
SPECIFICATION Spec
SYMMETRY Symmetry
INVARIANTS
    TypeOK
    StoredRunDecodes
    ImportsMirrorSnapshot
    SpanRecordedOnce
    AckedSpansKept
PROPERTIES
    EventsAreStable
    LogSpec
