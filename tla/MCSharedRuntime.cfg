SPECIFICATION Spec
CONSTANTS
    t1 = t1
    e1 = e1
    e2 = e2
    e3 = e3
    e4 = e4
    c1 = c1
    c2 = c2
    Sessions = {t1}
    EventIds = {e1, e2, e3, e4}
    Calls = {c1, c2}
    NoCall = NoCall
    CallOf <- MCCallOf
    EventsOf <- MCEventsOf
    MaxPending = 2
    MaxEvents = 2
CHECK_DEADLOCK FALSE
INVARIANTS
    TypeOK
    RecordedOnce
    NoSilentLoss
    GoodTurnIsComplete
    EndedRunClosesTask
    NoStrayClient
PROPERTIES
    TurnsEnd
