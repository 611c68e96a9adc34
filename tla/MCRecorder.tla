------------------------------ MODULE MCRecorder ------------------------------
(***************************************************************************)
(* Small instances of Recorder: one about usage imports and OTLP exports   *)
(* into the same runs, one about tasks.                                    *)
(***************************************************************************)
EXTENDS Recorder

None == {}

\* A request of a client that names no task.
Plain(parent, native) ==
    [parent |-> parent, source |-> "client", span |-> NoSpan, native |-> native,
     task |-> NoTask, parentTask |-> NoTask, lifecycle |-> "none"]

SpanRequest(span, parent) ==
    [parent |-> parent, source |-> "otlp", span |-> span,
     native |-> CHOOSE n \in Counts : TRUE,
     task |-> NoTask, parentTask |-> NoTask, lifecycle |-> "none"]

TaskRequest(task, parentTask, lifecycle) ==
    [Plain(NoEvent, NoCount) EXCEPT
        !.task = task, !.parentTask = parentTask, !.lifecycle = lifecycle]

\* Imports meet events with and without counters.
ImportEvents == {Plain(NoEvent, NoCount)} \cup {Plain(NoEvent, n) : n \in Counts}

\* Exports of one and of two spans, one batch repeating a span, one whose
\* second span has the first event as its parent.
SpanBatches ==
    {<<SpanRequest(s, NoEvent)>> : s \in Spans}
    \cup {<<SpanRequest(s, NoEvent), SpanRequest(t, NoEvent)>> : s, t \in Spans}
    \cup {<<SpanRequest(s, NoEvent), SpanRequest(t, 1)>> : s, t \in Spans}

\* Posted beside them: a root, and a child of the second event.
ExportEvents == {Plain(NoEvent, NoCount), Plain(2, NoCount)}

RecordingEvents == ImportEvents \cup ExportEvents

\* Events that start or complete a task, one that inherits its task, and
\* ill-formed ones that name a parent task but no task.
TaskEvents ==
    {TaskRequest(t, NoTask, l) : t \in Tasks, l \in {"start", "complete"}}
    \cup {Plain(NoEvent, NoCount)}
    \cup {TaskRequest(NoTask, t, "none") : t \in Tasks}

\* None of these is ordered, or has a part of its own in a definition.
Symmetry ==
    Permutations(Clients) \cup Permutations(Tasks) \cup Permutations(Spans)
    \cup Permutations(Origins) \cup Permutations(Revisions)
=============================================================================
