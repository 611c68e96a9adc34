-------------------------------- MODULE RunLog --------------------------------
(***************************************************************************)
(* What the recorder promises to whoever reads one run, free of requests,  *)
(* batches, retries, transactions and crashes: a log that is written at    *)
(* once by each accepted request, to which events are only added, and      *)
(* whose imported part shows one snapshot of one usage source.  Recorder   *)
(* implements it.                                                          *)
(***************************************************************************)
EXTENDS RunContent

VARIABLES status,  \* "none" before the run is started, "open", "ended", "gone"
          log,     \* the events
          cursor   \* the usage source the run is bound to

logVars == <<status, log, cursor>>

Kept == status \in {"open", "ended"}

Added == (Len(log) + 1)..Len(log')

Init ==
    /\ status = "none"
    /\ log = <<>>
    /\ cursor = NoCursor

Open ==
    /\ status = "none"
    /\ status' = "open"
    /\ UNCHANGED <<log, cursor>>

Complete ==
    /\ Kept
    /\ status' = "ended"
    /\ UNCHANGED <<log, cursor>>

\* An event that is recorded after the events before it.
Admissible(before, event) ==
    /\ ~ IsImport(event)
    /\ event.id \notin Ids(before)
    /\ event.parent # NoEvent => event.parent \in Ids(before)
    /\ event.source = "otlp" /\ event.span # NoSpan => event.span \notin SpansIn(before)
    /\ cursor # NoCursor => event.item.native = NoCount
    /\ event.parentTask # NoTask => event.task # NoTask
    /\ event.inherits => event.task = MostRecentlyStarted(before)

\* Some events are added, each fit for its place.
Record ==
    /\ Kept
    /\ UNCHANGED <<status, cursor>>
    /\ Len(log) <= Len(log')
    /\ \A i \in 1..Len(log) : log'[i] = log[i]
    /\ \A i \in Added : Admissible(SubSeq(log', 1, i - 1), log'[i])

\* What a snapshot says of an observation, or that it withdrew it.
Shown(snapshot, observation) ==
    IF observation \in DOMAIN snapshot THEN snapshot[observation] ELSE Unavailable

\* A snapshot takes the place of the one before: of the earlier events only
\* the counters of imports change, and what is new follows in order.
Import ==
    /\ Kept
    /\ UNCHANGED status
    /\ ~ Metered(log)
    /\ cursor' \in Cursor
    /\ cursor # NoCursor => cursor'.origin = cursor.origin
    /\ cursor'.revision # cursor.revision
    /\ Len(log) <= Len(log')
    /\ \A i \in 1..Len(log) :
          log'[i] = IF IsImport(log[i])
                    THEN [log[i] EXCEPT !.item = Shown(cursor'.snapshot, log[i].observation)]
                    ELSE log[i]
    /\ \A i \in Added :
          LET observation == log'[i].observation
          IN /\ observation \in DOMAIN cursor'.snapshot \ ObservationsIn(log)
             /\ log'[i].id \notin Ids(SubSeq(log', 1, i - 1))
             /\ log'[i] = ImportEvent(log'[i].id, cursor'.origin, observation,
                                      cursor'.snapshot[observation])
             /\ \A j \in Added : j < i => log'[j].observation < observation
    /\ DOMAIN cursor'.snapshot \subseteq ObservationsIn(log')
    /\ Cardinality(Imports(log')) <= MaximumObservations

\* The run is removed with everything in it.
Drop ==
    /\ Kept
    /\ status' = "gone"
    /\ log' = <<>>
    /\ cursor' = NoCursor

Next == Open \/ Complete \/ Record \/ Import \/ Drop

Spec == Init /\ [][Next]_logVars
=============================================================================
