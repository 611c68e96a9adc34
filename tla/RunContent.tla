------------------------------ MODULE RunContent ------------------------------
(***************************************************************************)
(* The content of one recorded run: its events, the cursor of the usage    *)
(* source bound to it, and the pure functions the recorder service and the *)
(* store compute from them.                                                *)
(*                                                                         *)
(* Of an event the model keeps what these functions look at: identity and  *)
(* parent, where it came from, its trace span, its task, and whether its   *)
(* counters are native ("measured"), estimated, or missing.  All native    *)
(* counters (tokens, cost, cache counts) share the field native.           *)
(***************************************************************************)
EXTENDS Integers, FiniteSets, FiniteSetsExt, Sequences, SequencesExt

CONSTANTS Tasks, NoTask,          \* task ids
          Spans, NoSpan,          \* pairs of an OTLP trace id and span id
          Counts, NoCount,        \* values a usage counter can hold
          Observations,           \* observation ids of a usage source, ordered
          Origins, NoOrigin,      \* triples of source id, source kind and format
          Revisions, NoRevision,  \* opaque revisions of a usage source
          MaximumObservations     \* observation ids one run can retain

ASSUME ObservationsAssumption == Observations \subseteq Nat \ {0}
ASSUME NonesAssumption ==
    /\ NoTask \notin Tasks
    /\ NoSpan \notin Spans
    /\ NoCount \notin Counts
    /\ NoOrigin \notin Origins
    /\ NoRevision \notin Revisions
ASSUME MaximumAssumption == MaximumObservations \in Nat \ {0}

NoEvent == 0
NoObservation == 0

Qualities == {"measured", "estimated", "unavailable"}

\* What one observation of a usage source says; "none" is the quality of what
\* other events carry.
Item == [quality: Qualities \cup {"none"}, native: Counts \cup {NoCount}, estimate: Counts \cup {NoCount}]

\* Quality must match the counters (ValidateObservation).
QualityMatches(item) ==
    \/ item.quality = "measured" /\ item.native # NoCount /\ item.estimate = NoCount
    \/ item.quality = "estimated" /\ item.native = NoCount /\ item.estimate # NoCount
    \/ item.quality = "unavailable" /\ item.native = NoCount /\ item.estimate = NoCount

\* The snapshots a request can carry (Validate): some observations, each once.
Snapshots ==
    UNION {[observed -> {item \in Item : QualityMatches(item)}] :
               observed \in {S \in SUBSET Observations :
                                /\ S # {} /\ IsFiniteSet(S)
                                /\ Cardinality(S) <= MaximumObservations}}

Unavailable == [quality |-> "unavailable", native |-> NoCount, estimate |-> NoCount]

\* inherits is a ghost: the recorder chose the task, not the caller.
Event == [id: Nat \ {NoEvent}, parent: Nat, source: {"client", "otlp", "import"},
          span: Spans \cup {NoSpan}, item: Item, origin: Origins \cup {NoOrigin},
          observation: Observations \cup {NoObservation}, task: Tasks \cup {NoTask},
          parentTask: Tasks \cup {NoTask},
          lifecycle: {"none", "start", "complete"}, inherits: BOOLEAN]

Cursor == [origin: Origins, revision: Revisions, snapshot: Snapshots]
NoCursor == [revision |-> NoRevision]

\* A request to record one event.
Request == [parent: Nat, source: {"client", "otlp"}, span: Spans \cup {NoSpan},
            native: Counts \cup {NoCount}, task: Tasks \cup {NoTask},
            parentTask: Tasks \cup {NoTask}, lifecycle: {"none", "start", "complete"}]

IsImport(event) == event.source = "import"
Ids(events) == {events[i].id : i \in DOMAIN events}
\* Mutant of SpansIn: events without a span count as one span.
SpansAndNone(events) == {events[i].span : i \in DOMAIN events}

SpansIn(events) == {events[i].span : i \in DOMAIN events} \ {NoSpan}
Imports(events) == {i \in DOMAIN events : IsImport(events[i])}
ObservationsIn(events) == {events[i].observation : i \in Imports(events)}

\* Guid.NewGuid(): an id no event of the run has.
FreshId(events) == Len(events) + 1

\* Some event other than an import carries native counters.
Metered(events) ==
    \E i \in DOMAIN events : ~ IsImport(events[i]) /\ events[i].item.native # NoCount

-----------------------------------------------------------------------------
(* Task context.                                                           *)

\* Mutant of Advance: a start of an active task pushes it again.
AdvanceAlways(stack, event) ==
    LET task == event.task
    IN IF event.lifecycle = "start" /\ task # NoTask
       THEN Append(stack, task)
       ELSE IF event.lifecycle = "complete" /\ Contains(stack, task)
       THEN RemoveAt(stack, SelectLastInSeq(stack, LAMBDA t : t = task))
       ELSE stack

\* One event of TaskContext's loop over the stack of active tasks.
Advance(stack, event) ==
    LET task == event.task
    IN IF event.lifecycle = "start" /\ task # NoTask /\ ~ Contains(stack, task)
       THEN Append(stack, task)
       ELSE IF event.lifecycle = "complete" /\ Contains(stack, task)
       THEN RemoveAt(stack, SelectLastInSeq(stack, LAMBDA t : t = task))
       ELSE stack

ActiveTasks(events) == FoldLeft(Advance, <<>>, events)

\* Mutant of CurrentTask: the outermost active task.
OutermostTask(events) ==
    IF ActiveTasks(events) = <<>> THEN NoTask ELSE Head(ActiveTasks(events))

CurrentTask(events) ==
    IF ActiveTasks(events) = <<>> THEN NoTask ELSE Last(ActiveTasks(events))

\* The parent a task had on the first event that named it.
ParentOf(events, task) ==
    LET named == SelectInSeq(events, LAMBDA event : event.task = task)
    IN IF task = NoTask \/ named = 0 THEN NoTask ELSE events[named].parentTask

\* A reference for CurrentTask, without a stack.  A task is active since its
\* first start that no completion of it follows.
ActiveSince(events, task) ==
    {i \in DOMAIN events :
        /\ events[i].task = task
        /\ events[i].lifecycle = "start"
        /\ \A j \in DOMAIN events :
              j > i /\ events[j].task = task => events[j].lifecycle # "complete"}

MostRecentlyStarted(events) ==
    LET active == {task \in Tasks : ActiveSince(events, task) # {}}
    IN IF active = {} THEN NoTask
       ELSE CHOOSE task \in active : \A other \in active :
                Min(ActiveSince(events, other)) <= Min(ActiveSince(events, task))

-----------------------------------------------------------------------------
(* Recording.                                                              *)

\* Mutant of WellFormed: requests are not validated.
NeverRefused(request) == TRUE

\* Validation of a request by itself.  A parent task without a task stands
\* for every request that is refused whatever the run holds.
WellFormed(request) == request.parentTask # NoTask => request.task # NoTask

\* Mutant of Duplicate: retries are not recognised.
NeverDuplicate(events, request) == FALSE

\* An OTLP span that is already recorded, by a retry or by another client.
Duplicate(events, request) ==
    /\ request.source = "otlp"
    /\ request.span # NoSpan
    /\ request.span \in SpansIn(events)

\* Mutant of Ambiguous: metering is accepted beside imported usage.
NeverAmbiguous(cursor, request) == FALSE

\* Usage of this run is imported, and the request is metered.
Ambiguous(cursor, request) == cursor # NoCursor /\ request.native # NoCount

\* Mutant of ParentKnown: the parent may still be to come.
AnyParent(events, request) == TRUE

ParentKnown(events, request) ==
    request.parent # NoEvent => request.parent \in Ids(events)

\* The event a request becomes.
EventFor(events, request) ==
    LET task == IF request.task # NoTask THEN request.task ELSE CurrentTask(events)
    IN [id |-> FreshId(events), parent |-> request.parent, source |-> request.source,
        span |-> request.span, origin |-> NoOrigin,
        item |-> [quality |-> "none", native |-> request.native, estimate |-> NoCount],
        observation |-> NoObservation, task |-> task,
        parentTask |-> IF request.parentTask # NoTask THEN request.parentTask
                       ELSE ParentOf(events, task),
        lifecycle |-> request.lifecycle, inherits |-> request.task = NoTask]

-----------------------------------------------------------------------------
(* Importing.                                                              *)

\* A snapshot's event for an observation, when it is first seen.
ImportEvent(id, origin, observation, item) ==
    [id |-> id, parent |-> NoEvent, source |-> "import", span |-> NoSpan,
     item |-> item, origin |-> origin, observation |-> observation, task |-> NoTask,
     parentTask |-> NoTask, lifecycle |-> "none", inherits |-> FALSE]

\* Mutant of Reimported: what a snapshot withdraws keeps its counters.
ReimportedSeen(event, origin, snapshot) ==
    IF event.observation \in DOMAIN snapshot
    THEN [event EXCEPT !.origin = origin, !.item = snapshot[event.observation]]
    ELSE event

\* An earlier import keeps its place and id, and takes over what the snapshot
\* says of its observation: nothing, when the snapshot no longer has it.
Reimported(event, origin, snapshot) ==
    IF event.observation \in DOMAIN snapshot
    THEN [event EXCEPT !.origin = origin, !.item = snapshot[event.observation]]
    ELSE [event EXCEPT !.item = Unavailable]

\* Mutant of Additions: the new observations in any order.
UnsortedAdditions(events, snapshot) ==
    LET fresh == DOMAIN snapshot \ ObservationsIn(events)
    IN {additions \in [1..Cardinality(fresh) -> fresh] : IsInjective(additions)}

\* The new observations of a snapshot, in the order of their ids.
Additions(events, snapshot) ==
    LET fresh == DOMAIN snapshot \ ObservationsIn(events)
    IN {additions \in [1..Cardinality(fresh) -> fresh] :
           \A i, j \in DOMAIN additions : i < j => additions[i] < additions[j]}

\* The run's events after an import that brings additions.
Imported(events, origin, snapshot, additions) ==
    [i \in 1..(Len(events) + Len(additions)) |->
        IF i > Len(events)
        THEN ImportEvent(i, origin, additions[i - Len(events)],
                         snapshot[additions[i - Len(events)]])
        ELSE IF IsImport(events[i]) THEN Reimported(events[i], origin, snapshot)
        ELSE events[i]]

-----------------------------------------------------------------------------
(* What the store accepts when it reads a row back (Decode).               *)

EventsDecode(events) ==
    \A i \in DOMAIN events :
        /\ \A j \in 1..(i - 1) : events[j].id # events[i].id
        /\ events[i].parent # NoEvent =>
              \E j \in 1..(i - 1) : events[j].id = events[i].parent
        /\ events[i].parentTask # NoTask => events[i].task # NoTask

\* ValidateUsageImports, for a run bound to a usage source and for one that
\* is not.
ImportsDecode(events, cursor) ==
    IF cursor = NoCursor
    THEN Imports(events) = {}
    ELSE /\ Imports(events) # {}
         /\ Cardinality(Imports(events)) <= MaximumObservations
         /\ ~ Metered(events)
         /\ \A i, j \in Imports(events) :
               events[i].observation = events[j].observation => i = j
         /\ \A i \in Imports(events) :
               /\ events[i].origin = cursor.origin
               /\ events[i].observation # NoObservation
               /\ QualityMatches(events[i].item)

Decodes(events, cursor) == EventsDecode(events) /\ ImportsDecode(events, cursor)
=============================================================================
