------------------------------- MODULE Recorder -------------------------------
(***************************************************************************)
(* FlightRecorderService and the endpoints that read a run before they     *)
(* write it, for one run: recording batches of events, OTLP export, the    *)
(* MCP task tools, usage imports, completion and retention.                *)
(*                                                                         *)
(* Every change of the run happens inside store.Update, which TraceStore   *)
(* shows to be a serial rewrite of the latest version.  The loop of        *)
(* RecordEvents is kept as steps on a private candidate, so that readers   *)
(* and crashes can fall between them.                                      *)
(***************************************************************************)
EXTENDS RunContent

CONSTANTS Clients,    \* concurrent requests
          NoClient,
          Events,     \* requests that POST one event (REST, MCP, SDK adapter)
          Exports,    \* batches of spans one OTLP export carries
          MaxEvents   \* bound of the model: events the run can hold

ASSUME RequestsAssumption ==
    /\ Events \subseteq Request
    /\ Exports \subseteq Seq({request \in Request : request.source = "otlp"})
ASSUME MaxEventsAssumption == MaxEvents \in Nat
ASSUME NoClientAssumption == NoClient \notin Clients

VARIABLES status,     \* "none" before StartRun, "open", "ended", "gone" once pruned
          events,     \* the committed events
          cursor,     \* the usage source the run is bound to
          batch,      \* the RecordEvents transaction that holds the write lock
          calls,      \* requests on their way through the recorder
          acked,      \* history: spans whose export was answered 200
          committed   \* history: spans that were ever committed

vars == <<status, events, cursor, batch, calls, acked, committed>>
run == <<status, events, cursor, committed>>

NoBatch == [client |-> NoClient, rest |-> <<>>, candidate |-> <<>>]
Batch == [client: Clients \cup {NoClient}, rest: Seq(Request), candidate: Seq(Event)]

NoCall == [kind |-> "none", phase |-> "idle", requests |-> <<>>]
Call == [kind: {"none", "export", "event", "tool"}, phase: {"idle", "waiting", "done"},
         requests: Seq(Request)]

Kept == status \in {"open", "ended"}
\* Mutant of Unlocked: updates do not wait for one another.
NeverLocked == TRUE

Unlocked == batch = NoBatch

SpansOf(requests) == {requests[i].span : i \in DOMAIN requests} \ {NoSpan}

Init ==
    /\ status = "none"
    /\ events = <<>>
    /\ cursor = NoCursor
    /\ batch = NoBatch
    /\ calls = [c \in Clients |-> NoCall]
    /\ acked = {}
    /\ committed = {}

-----------------------------------------------------------------------------
(* The life of the run.                                                    *)

StartRun ==
    /\ status = "none"
    /\ status' = "open"
    /\ UNCHANGED <<events, cursor, batch, calls, acked, committed>>

\* What Update leaves of the run it wrote: an ended run that Prune finds
\* outside the newest ones is deleted in the same transaction.
Store(newStatus, newEvents, newCursor) ==
    /\ committed' = committed \cup SpansIn(newEvents)
    /\ \/ /\ status' = newStatus
          /\ events' = newEvents
          /\ cursor' = newCursor
       \/ /\ newStatus = "ended"
          /\ status' = "gone"
          /\ events' = <<>>
          /\ cursor' = NoCursor

CompleteRun ==
    /\ Kept
    /\ Unlocked
    /\ Store("ended", events, cursor)
    /\ UNCHANGED <<batch, calls, acked>>

\* A transaction about another run, or a start, prunes this one.
Prune ==
    /\ status = "ended"
    /\ Unlocked
    /\ status' = "gone"
    /\ events' = <<>>
    /\ cursor' = NoCursor
    /\ UNCHANGED <<batch, calls, acked, committed>>

\* The process dies: open transactions and requests are lost.
Crash ==
    /\ batch' = NoBatch
    /\ calls' = [c \in Clients |-> NoCall]
    /\ UNCHANGED <<run, acked>>

-----------------------------------------------------------------------------
(* Requests that record events.  Each first waits for the write lock.      *)

Submit(c, kind, requests) ==
    /\ calls[c] = NoCall
    /\ calls' = [calls EXCEPT ![c] =
                    [kind |-> kind, phase |-> "waiting", requests |-> requests]]
    /\ UNCHANGED <<run, batch, acked>>

\* POST events: straight to RecordEvents.
PostEvent(c, request) == Submit(c, "event", <<request>>)

\* POST v1/traces: 404 unless the run is found unfinished, 400 unless every
\* span is valid; only then RecordEvents.
Export(c, requests) ==
    /\ status = "open"
    /\ \A i \in DOMAIN requests : WellFormed(requests[i])
    /\ Submit(c, "export", requests)

ToolRequest(task, parentTask, lifecycle, span) ==
    [parent |-> NoEvent, source |-> "client", span |-> span, native |-> NoCount,
     task |-> task, parentTask |-> parentTask, lifecycle |-> lifecycle]

\* start_flight_subtask: the parent defaults to the task that is current now.
StartSubtask(c, task, parentTask) ==
    LET parent == IF parentTask # NoTask THEN parentTask ELSE CurrentTask(events)
    IN /\ Kept
       /\ Submit(c, "tool", <<ToolRequest(task, parent, "start", NoSpan)>>)

\* complete_current_flight_task and assign_current_chat_turn_to_flight_task:
\* an event about the task that is current now.
AboutCurrentTask(c, lifecycle, span) ==
    LET task == CurrentTask(events)
    IN /\ Kept
       /\ task # NoTask
       /\ Submit(c, "tool", <<ToolRequest(task, ParentOf(events, task), lifecycle, span)>>)

CompleteCurrentTask(c) == AboutCurrentTask(c, "complete", NoSpan)

AssignCurrentChatTurn(c, span) == AboutCurrentTask(c, "none", span)

-----------------------------------------------------------------------------
(* RecordEvents.                                                           *)

Begin(c) ==
    /\ calls[c].phase = "waiting"
    /\ Kept
    /\ Unlocked
    /\ batch' = [client |-> c, rest |-> calls[c].requests, candidate |-> events]
    /\ UNCHANGED <<run, calls, acked>>

\* Update finds no row: RecordEvents returns null, which export ignores.
RunMissing(c) ==
    /\ calls[c].phase = "waiting"
    /\ ~ Kept
    /\ Unlocked
    /\ calls' = [calls EXCEPT ![c].phase = "done"]
    /\ UNCHANGED <<run, batch, acked>>

\* A span the candidate already has is answered with the event it has.
SkipDuplicate(c) ==
    /\ batch.client = c
    /\ batch.rest # <<>>
    /\ WellFormed(Head(batch.rest))
    /\ Duplicate(batch.candidate, Head(batch.rest))
    /\ batch' = [batch EXCEPT !.rest = Tail(@)]
    /\ UNCHANGED <<run, calls, acked>>

AppendEvent(c) ==
    /\ batch.client = c
    /\ batch.rest # <<>>
    /\ LET request == Head(batch.rest)
       IN /\ WellFormed(request)
          /\ ~ Duplicate(batch.candidate, request)
          /\ ~ Ambiguous(cursor, request)
          /\ ParentKnown(batch.candidate, request)
          /\ Len(batch.candidate) < MaxEvents
          /\ batch' = [batch EXCEPT
                          !.rest = Tail(@),
                          !.candidate = Append(@, EventFor(@, request))]
    /\ UNCHANGED <<run, calls, acked>>

\* The lock is not free within 5 s, a request of the batch is refused, or
\* SQLite fails: what the transaction did is rolled back and the caller gets
\* an error.
Abort(c) ==
    /\ calls[c].phase = "waiting"
    /\ batch' = IF batch.client = c THEN NoBatch ELSE batch
    /\ calls' = [calls EXCEPT ![c] = NoCall]
    /\ UNCHANGED <<run, acked>>

\* Mutant of Commit: each event of a batch is committed and answered alone.
CommitPartly(c) ==
    /\ batch.client = c
    /\ Store(status, batch.candidate, cursor)
    /\ batch' = NoBatch
    /\ calls' = [calls EXCEPT ![c].phase = "done"]
    /\ UNCHANGED acked

\* Update writes nothing when the candidate is still the run it was given.
Commit(c) ==
    /\ batch.client = c
    /\ batch.rest = <<>>
    /\ IF batch.candidate = events
       THEN UNCHANGED run
       ELSE Store(status, batch.candidate, cursor)
    /\ batch' = NoBatch
    /\ calls' = [calls EXCEPT ![c].phase = "done"]
    /\ UNCHANGED acked

\* The response reaches its caller.
Answer(c) ==
    /\ calls[c].phase = "done"
    /\ acked' = IF calls[c].kind = "export" THEN acked \cup SpansOf(calls[c].requests)
                ELSE acked
    /\ calls' = [calls EXCEPT ![c] = NoCall]
    /\ UNCHANGED <<run, batch>>

-----------------------------------------------------------------------------
(* ImportUsage.  A PUT that repeats the revision the cursor has, with the  *)
(* same snapshot, is answered "unchanged": a stutter.                      *)

ImportUsage(origin, revision, expected, snapshot) ==
    /\ Kept
    /\ Unlocked
    /\ cursor # NoCursor => cursor.origin = origin
    /\ ~ Metered(events)
    /\ revision # cursor.revision
    /\ expected = cursor.revision
    /\ Cardinality(ObservationsIn(events) \cup DOMAIN snapshot) <= MaximumObservations
    /\ \E additions \in Additions(events, snapshot) :
          /\ Len(events) + Len(additions) <= MaxEvents
          /\ Store(status, Imported(events, origin, snapshot, additions),
                   [origin |-> origin, revision |-> revision, snapshot |-> snapshot])
    /\ UNCHANGED <<batch, calls, acked>>

-----------------------------------------------------------------------------

ClientStep(c) ==
    \/ \E request \in Events : PostEvent(c, request)
    \/ \E requests \in Exports : Export(c, requests)
    \/ \E task \in Tasks, parentTask \in Tasks \cup {NoTask} :
          StartSubtask(c, task, parentTask)
    \/ CompleteCurrentTask(c)
    \/ \E span \in Spans \cup {NoSpan} : AssignCurrentChatTurn(c, span)
    \/ Begin(c)
    \/ RunMissing(c)
    \/ SkipDuplicate(c)
    \/ AppendEvent(c)
    \/ Abort(c)
    \/ Commit(c)
    \/ Answer(c)

Next ==
    \/ StartRun
    \/ CompleteRun
    \/ Prune
    \/ Crash
    \/ \E c \in Clients : ClientStep(c)
    \/ \E origin \in Origins, revision \in Revisions,
          expected \in Revisions \cup {NoRevision}, snapshot \in Snapshots :
          ImportUsage(origin, revision, expected, snapshot)

Spec == Init /\ [][Next]_vars

-----------------------------------------------------------------------------
(* Properties.                                                             *)

TypeOK ==
    /\ status \in {"none", "open", "ended", "gone"}
    /\ events \in Seq(Event)
    /\ cursor \in Cursor \cup {NoCursor}
    /\ batch \in Batch
    /\ calls \in [Clients -> Call]
    /\ acked \subseteq Spans
    /\ committed \subseteq Spans

\* The service never commits a run that the store would refuse to read back:
\* across batches, retries, imports, corrections and withdrawals, parents
\* precede children, an imported run is not metered by hand as well, belongs
\* to one source, and shows each observation once with matching counters.
StoredRunDecodes == Decodes(events, cursor)

\* The imported usage of a run is exactly the snapshot its cursor stands for:
\* one event per observation ever seen, with the counters the last accepted
\* snapshot gives it, and none where that snapshot withdrew it.
ImportsMirrorSnapshot ==
    cursor # NoCursor =>
        /\ DOMAIN cursor.snapshot \subseteq ObservationsIn(events)
        /\ \A i \in Imports(events) :
              LET observation == events[i].observation
              IN events[i].item = IF observation \in DOMAIN cursor.snapshot
                                  THEN cursor.snapshot[observation] ELSE Unavailable

\* However often and by whomever a span is exported, the run holds it once.
SpanRecordedOnce ==
    \A i, j \in DOMAIN events :
        /\ events[i].source = "otlp" /\ events[j].source = "otlp"
        /\ events[i].span = events[j].span /\ events[i].span # NoSpan
        => i = j

\* As long as the run is kept, every span of every export that was answered
\* 200 is in it: a batch is committed as a whole, and nothing removes it.
AckedSpansKept == Kept => acked \subseteq SpansIn(events)

\* The stack of TaskContext yields the most recently started active task.
CurrentTaskIsMostRecentlyStarted == CurrentTask(events) = MostRecentlyStarted(events)

\* An event that named no task belongs to the task that was current when it
\* was committed, not to the one that was current when it was sent.
AttributionIsCurrent ==
    \A i \in DOMAIN events :
        events[i].inherits =>
            events[i].task = MostRecentlyStarted(SubSeq(events, 1, i - 1))

\* While the run is kept, its events are only added to: each keeps its place,
\* id, parent and task, and an event that was not imported never changes.
EventsAreStable ==
    [][Kept' => \A i \in DOMAIN events :
          /\ i \in DOMAIN events'
          /\ events'[i] = [events[i] EXCEPT !.item = events'[i].item]
          /\ ~ IsImport(events[i]) => events'[i] = events[i]]_vars

\* A 200 of POST v1/traces means that its spans were committed.
AckedSpansCommitted == acked \subseteq committed

\* To a reader of the run, whatever loops, retries, conflicts and crashes went
\* on inside, each request took effect at once or not at all: the recorder
\* implements the log.
Log == INSTANCE RunLog WITH log <- events
LogSpec == Log!Spec
=============================================================================
