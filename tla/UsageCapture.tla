----------------------------- MODULE UsageCapture -----------------------------
(***************************************************************************)
(* attachCopilotUsage: the adapter that posts the usage a Copilot SDK      *)
(* session reports to the recorder, one event after the other and never    *)
(* twice.  A post that was not answered in time may still arrive.          *)
(*                                                                         *)
(* The adapter is modelled as shared-runtime.cjs attaches it: no onError   *)
(* observer, and flush only as the second half of detach.                  *)
(***************************************************************************)
EXTENDS Naturals, Sequences, FiniteSets, SequencesExt

CONSTANTS Sessions,
          EventIds,          \* ids of assistant.usage events
          Calls, NoCall,
          CallOf,            \* the model call an event reports, if it names one
          EventsOf,          \* bound of the model: what each session reports
          MaxPending, MaxEvents

ASSUME CallsAssumption == CallOf \in [EventIds -> Calls \cup {NoCall}] /\ NoCall \notin Calls
ASSUME EventsAssumption == EventsOf \in [Sessions -> SUBSET EventIds]
ASSUME LimitsAssumption == MaxPending \in Nat \ {0} /\ MaxEvents \in Nat \ {0}

VARIABLES capture,     \* "none", "active" or "stopped"
          failed,      \* failures is not empty
          seenEvents, seenCalls,
          queue,       \* events whose posts have not settled, in order
          posting,     \* the post of the first one is out
          answer,      \* what came back for it: "none", "accepted", "rejected"
          inflight,    \* posts the recorder has not handled
          recorded,    \* what the recorder has of each session, in order
          reported     \* history: events a session reported while attached

captureVars == <<capture, failed, seenEvents, seenCalls, queue, posting, answer,
                 inflight, recorded, reported>>

CaptureInit ==
    /\ capture = [s \in Sessions |-> "none"]
    /\ failed = [s \in Sessions |-> FALSE]
    /\ seenEvents = [s \in Sessions |-> {}]
    /\ seenCalls = [s \in Sessions |-> {}]
    /\ queue = [s \in Sessions |-> <<>>]
    /\ posting = [s \in Sessions |-> FALSE]
    /\ answer = [s \in Sessions |-> "none"]
    /\ inflight = [s \in Sessions |-> {}]
    /\ recorded = [s \in Sessions |-> <<>>]
    /\ reported = [s \in Sessions |-> {}]

\* Two events report one call.
SameCall(d, e) == d = e \/ (CallOf[d] # NoCall /\ CallOf[d] = CallOf[e])

-----------------------------------------------------------------------------
(* Intake: the handler of assistant.usage.                                 *)

Attach(s) ==
    /\ capture[s] = "none"
    /\ capture' = [capture EXCEPT ![s] = "active"]
    /\ UNCHANGED <<failed, seenEvents, seenCalls, queue, posting, answer, inflight,
                   recorded, reported>>

\* Mutant of Seen: a call reported under a second event id counts again.
SeenById(s, e) == e \in seenEvents[s]

Seen(s, e) == e \in seenEvents[s] \/ CallOf[e] \in seenCalls[s]

\* Mutant of Full: off by one.
FullTooLate(s) == Len(queue[s]) > MaxPending \/ Cardinality(seenEvents[s]) > MaxEvents

Full(s) == Len(queue[s]) >= MaxPending \/ Cardinality(seenEvents[s]) >= MaxEvents

\* An event the session reports while the adapter listens to it.
Report(s, e) ==
    /\ capture[s] = "active"
    /\ e \in EventsOf[s]
    /\ reported' = [reported EXCEPT ![s] = @ \cup {e}]

Enqueue(s, e) ==
    /\ Report(s, e)
    /\ ~ Seen(s, e)
    /\ ~ Full(s)
    /\ seenEvents' = [seenEvents EXCEPT ![s] = @ \cup {e}]
    /\ seenCalls' = [seenCalls EXCEPT ![s] = @ \cup ({CallOf[e]} \ {NoCall})]
    /\ queue' = [queue EXCEPT ![s] = Append(@, e)]
    /\ UNCHANGED <<capture, failed, posting, answer, inflight, recorded>>

Repeat(s, e) ==
    /\ Report(s, e)
    /\ Seen(s, e)
    /\ UNCHANGED <<capture, failed, seenEvents, seenCalls, queue, posting, answer,
                   inflight, recorded>>

\* Mutant of Refuse: an event beyond the limits is dropped without a word.
DropSilently(s, e) ==
    /\ Report(s, e)
    /\ ~ Seen(s, e)
    /\ Full(s)
    /\ UNCHANGED <<capture, failed, seenEvents, seenCalls, queue, posting, answer,
                   inflight, recorded>>

\* The limits are reached, or no payload can be made of the event: capture fails
\* and stops for good.
Refuse(s, e) ==
    /\ Report(s, e)
    /\ e \notin seenEvents[s]
    /\ failed' = [failed EXCEPT ![s] = TRUE]
    /\ capture' = [capture EXCEPT ![s] = "stopped"]
    /\ UNCHANGED <<seenEvents, seenCalls, queue, posting, answer, inflight, recorded>>

-----------------------------------------------------------------------------
(* Delivery: the promise chain `tail`, and the recorder at its other end.  *)

Send(s) ==
    /\ queue[s] # <<>>
    /\ ~ posting[s]
    /\ posting' = [posting EXCEPT ![s] = TRUE]
    /\ inflight' = [inflight EXCEPT ![s] = @ \cup {Head(queue[s])}]
    /\ UNCHANGED <<capture, failed, seenEvents, seenCalls, queue, answer, recorded, reported>>

\* The answer to a post nobody waits for any more is lost.
Answer(s, e, what) ==
    answer' = [answer EXCEPT ![s] = IF posting[s] /\ Head(queue[s]) = e THEN what ELSE @]

Record(s, e) ==
    /\ e \in inflight[s]
    /\ inflight' = [inflight EXCEPT ![s] = @ \ {e}]
    /\ recorded' = [recorded EXCEPT ![s] = Append(@, e)]
    /\ Answer(s, e, "accepted")
    /\ UNCHANGED <<capture, failed, seenEvents, seenCalls, queue, posting, reported>>

Reject(s, e) ==
    /\ e \in inflight[s]
    /\ inflight' = [inflight EXCEPT ![s] = @ \ {e}]
    /\ Answer(s, e, "rejected")
    /\ UNCHANGED <<capture, failed, seenEvents, seenCalls, queue, posting, recorded, reported>>

Settled(s) ==
    /\ posting[s]
    /\ posting' = [posting EXCEPT ![s] = FALSE]
    /\ queue' = [queue EXCEPT ![s] = Tail(@)]
    /\ answer' = [answer EXCEPT ![s] = "none"]

Acknowledge(s) ==
    /\ Settled(s)
    /\ answer[s] = "accepted"
    /\ UNCHANGED <<capture, failed, seenEvents, seenCalls, inflight, recorded, reported>>

\* Mutant of PostFails: a post without an answer is sent again.
PostRetried(s) ==
    /\ posting[s]
    /\ posting' = [posting EXCEPT ![s] = FALSE]
    /\ answer' = [answer EXCEPT ![s] = "none"]
    /\ UNCHANGED <<capture, failed, seenEvents, seenCalls, queue, inflight, recorded,
                   reported>>

\* Mutant of PostFails: without the timer, only an answer ends a post.
PostRefused(s) ==
    /\ Settled(s)
    /\ answer[s] = "rejected"
    /\ failed' = [failed EXCEPT ![s] = TRUE]
    /\ capture' = [capture EXCEPT ![s] = "stopped"]
    /\ UNCHANGED <<seenEvents, seenCalls, inflight, recorded, reported>>

\* The post was refused, its answer cannot be read, or it timed out: delivery is
\* unknown, nothing is sent again, and what is queued behind it is still posted.
PostFails(s) ==
    /\ Settled(s)
    /\ failed' = [failed EXCEPT ![s] = TRUE]
    /\ capture' = [capture EXCEPT ![s] = "stopped"]
    /\ UNCHANGED <<seenEvents, seenCalls, inflight, recorded, reported>>

-----------------------------------------------------------------------------
(* detach: stop, then flush.                                               *)

\* Removing the listener may fail; capture then counts as incomplete.
Stop(s) ==
    /\ capture[s] # "none"
    /\ capture' = [capture EXCEPT ![s] = "stopped"]
    /\ \E throws \in {FALSE, capture[s] = "active"} : failed' = [failed EXCEPT ![s] = @ \/ throws]
    /\ UNCHANGED <<seenEvents, seenCalls, queue, posting, answer, inflight, recorded, reported>>

\* Mutant of Flushed: flush waits for the post that is out, not for the queue.
PostSettled(s) == ~ posting[s]

\* The tail that flush awaits has settled and is still the tail.
Flushed(s) == queue[s] = <<>>

DetachFulfils(s) == Flushed(s) /\ ~ failed[s]

DetachRejects(s) == Flushed(s) /\ failed[s]

Intake(s) == \E e \in EventIds : Enqueue(s, e) \/ Repeat(s, e) \/ Refuse(s, e)

Delivery(s) == Send(s) \/ Acknowledge(s) \/ PostFails(s)

-----------------------------------------------------------------------------
(* Properties.                                                             *)

CaptureTypeOK ==
    /\ capture \in [Sessions -> {"none", "active", "stopped"}]
    /\ failed \in [Sessions -> BOOLEAN]
    /\ seenEvents \in [Sessions -> SUBSET EventIds]
    /\ seenCalls \in [Sessions -> SUBSET Calls]
    /\ queue \in [Sessions -> Seq(EventIds)]
    /\ \A s \in Sessions : Len(queue[s]) <= MaxPending
    /\ posting \in [Sessions -> BOOLEAN]
    /\ answer \in [Sessions -> {"none", "accepted", "rejected"}]
    /\ inflight \in [Sessions -> SUBSET EventIds]
    /\ recorded \in [Sessions -> Seq(EventIds)]
    /\ reported \in [Sessions -> SUBSET EventIds]

\* The recorder never holds a call twice, though the session repeats events and
\* posts are lost, late and overtaken by the next.
RecordedOnce ==
    \A s \in Sessions : \A i, j \in 1..Len(recorded[s]) :
        SameCall(recorded[s][i], recorded[s][j]) => i = j

\* A call that a session reported and the recorder does not have is still
\* queued, or the capture has failed: nothing is lost in silence.
NoSilentLoss ==
    \A s \in Sessions : ~ failed[s] =>
        \A e \in reported[s] :
            \E d \in ToSet(queue[s]) \cup ToSet(recorded[s]) : SameCall(d, e)
=============================================================================
