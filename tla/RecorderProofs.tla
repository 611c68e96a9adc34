---------------------------- MODULE RecorderProofs ----------------------------
(***************************************************************************)
(* What TLAPS proves of the recorder for every number of clients, tasks,   *)
(* events, spans, observations and snapshots.                              *)
(***************************************************************************)
EXTENDS Recorder, TaskContextProofs

USE ObservationsAssumption, NonesAssumption, MaximumAssumption, NoClientAssumption

-----------------------------------------------------------------------------
(* The inductive invariant.                                                *)

\* TypeOK, except for the histories, which nothing depends on.
Shape ==
    /\ status \in {"none", "open", "ended", "gone"}
    /\ events \in Seq(Event)
    /\ cursor \in Cursor \cup {NoCursor}
    /\ batch \in Batch
    /\ calls \in [Clients -> Call]

Histories == acked \subseteq Spans /\ committed \subseteq Spans

\* Ids are places, parents come before their children.
Orderly(evs) ==
    \A i \in DOMAIN evs :
        /\ evs[i].id = i
        /\ evs[i].parent < i
        /\ evs[i].parentTask # NoTask => evs[i].task # NoTask
        /\ IsImport(evs[i]) => evs[i].observation # NoObservation /\ QualityMatches(evs[i].item)

\* An exported span is one that no earlier event has, whatever recorded that event.
SpansOnce(evs) ==
    \A i \in DOMAIN evs :
        evs[i].source = "otlp" /\ evs[i].span # NoSpan =>
            \A j \in DOMAIN evs : j < i => evs[j].span # evs[i].span

Mirrors(evs, cur) ==
    cur # NoCursor =>
        /\ DOMAIN cur.snapshot \subseteq ObservationsIn(evs)
        /\ \A i \in Imports(evs) :
              LET observation == evs[i].observation
              IN evs[i].item = IF observation \in DOMAIN cur.snapshot
                               THEN cur.snapshot[observation] ELSE Unavailable

Sound(evs, cur) ==
    /\ Orderly(evs)
    /\ SpansOnce(evs)
    /\ ImportsDecode(evs, cur)
    /\ Mirrors(evs, cur)
    /\ Attributed(evs)

\* The events of old, and recorded ones after them.
Continues(evs, old) ==
    /\ Len(old) <= Len(evs)
    /\ \A i \in 1..Len(old) : evs[i] = old[i]
    /\ \A i \in (Len(old) + 1)..Len(evs) : ~ IsImport(evs[i])

\* The candidate of the open transaction is the run, and what it has appended.
BatchInOrder ==
    batch # NoBatch =>
        /\ Kept
        /\ batch.client \in Clients
        /\ calls[batch.client].phase = "waiting"
        /\ Sound(batch.candidate, cursor)
        /\ Continues(batch.candidate, events)
        /\ SpansOf(calls[batch.client].requests)
              \subseteq SpansIn(batch.candidate) \cup SpansOf(batch.rest)

\* What is answered 200 is in the run.
AnswersInOrder ==
    /\ \A c \in Clients :
          calls[c].kind = "export" =>
              /\ status # "none"
              /\ calls[c].phase = "done" /\ Kept => SpansOf(calls[c].requests) \subseteq SpansIn(events)
    /\ status = "none" => acked = {}
    /\ AckedSpansKept

Core ==
    /\ Sound(events, cursor)
    /\ BatchInOrder
    /\ AnswersInOrder

IInv == Core /\ Shape /\ Histories

-----------------------------------------------------------------------------
(* Appending an event.                                                     *)

LEMMA EventForType ==
    ASSUME NEW evs \in Seq(Event), NEW request \in Request
    PROVE  EventFor(evs, request) \in Event
<1> DEFINE e == EventFor(evs, request)
<1>1. Len(evs) + 1 \in Nat \ {NoEvent}
  BY LenProperties DEF NoEvent
<1>2. [quality |-> "none", native |-> request.native, estimate |-> NoCount] \in Item
  BY DEF Item, Request
<1>3. e.task \in Tasks \cup {NoTask}
  BY CurrentIsMostRecent DEF EventFor, Request
<1>4. e.parentTask \in Tasks \cup {NoTask}
  BY ParentOfType DEF EventFor, Request
<1> QED
  BY <1>1, <1>2, <1>3, <1>4 DEF EventFor, FreshId, Event, Request, NoObservation

LEMMA EventForFields ==
    ASSUME NEW evs, NEW request
    PROVE  LET event == EventFor(evs, request)
           IN /\ event.id = Len(evs) + 1
              /\ event.parent = request.parent
              /\ event.source = request.source
              /\ event.span = request.span
              /\ event.item.native = request.native
              /\ event.inherits => event.task = CurrentTask(evs)
              /\ WellFormed(request) /\ event.parentTask # NoTask => event.task # NoTask
  BY DEF EventFor, FreshId, ParentOf, WellFormed

LEMMA Appended ==
    ASSUME NEW evs \in Seq(Event), NEW e \in Event
    PROVE  /\ Append(evs, e) \in Seq(Event)
           /\ Len(evs) \in Nat
           /\ Len(Append(evs, e)) = Len(evs) + 1
           /\ DOMAIN evs = 1..Len(evs)
           /\ DOMAIN Append(evs, e) = 1..(Len(evs) + 1)
           /\ \A i \in 1..Len(evs) : Append(evs, e)[i] = evs[i]
           /\ Append(evs, e)[Len(evs) + 1] = e
  BY AppendProperties, LenProperties

LEMMA AppendedSpans ==
    ASSUME NEW evs \in Seq(Event), NEW e \in Event
    PROVE  SpansIn(Append(evs, e)) = SpansIn(evs) \cup ({e.span} \ {NoSpan})
<1>1. DOMAIN Append(evs, e) = DOMAIN evs \cup {Len(evs) + 1}
  BY Appended
<1> QED
  BY <1>1, Appended DEF SpansIn

LEMMA AppendedImports ==
    ASSUME NEW evs \in Seq(Event), NEW e \in Event, ~ IsImport(e)
    PROVE  /\ Imports(Append(evs, e)) = Imports(evs)
           /\ ObservationsIn(Append(evs, e)) = ObservationsIn(evs)
           /\ \A i \in Imports(evs) : Append(evs, e)[i] = evs[i]
<1>1. DOMAIN Append(evs, e) = DOMAIN evs \cup {Len(evs) + 1}
  BY Appended
<1>2. Imports(Append(evs, e)) = Imports(evs) /\ \A i \in Imports(evs) : Append(evs, e)[i] = evs[i]
  BY <1>1, Appended DEF Imports
<1> QED
  BY <1>2 DEF ObservationsIn

LEMMA AppendSound ==
    ASSUME NEW evs \in Seq(Event), NEW cur, Sound(evs, cur),
           NEW request \in Request,
           WellFormed(request), ~ Duplicate(evs, request), ~ Ambiguous(cur, request),
           ParentKnown(evs, request)
    PROVE  Sound(Append(evs, EventFor(evs, request)), cur)
<1> DEFINE e == EventFor(evs, request)
           new == Append(evs, e)
<1>1. ~ IsImport(e) /\ e \in Event
  BY EventForType, EventForFields DEF IsImport, Request
<1>2. /\ Len(evs) \in Nat /\ DOMAIN evs = 1..Len(evs) /\ DOMAIN new = 1..(Len(evs) + 1)
      /\ \A i \in 1..Len(evs) : new[i] = evs[i]
      /\ new[Len(evs) + 1] = e
  BY Appended
<1>3. Orderly(new)
  <2>1. e.parent < Len(evs) + 1
    <3>1. CASE request.parent = NoEvent
      BY <1>2, <3>1, EventForFields DEF NoEvent
    <3>2. CASE request.parent # NoEvent
      <4>1. PICK i \in DOMAIN evs : evs[i].id = request.parent
        BY <3>2 DEF ParentKnown, Ids
      <4>2. request.parent = i
        BY <4>1 DEF Sound, Orderly
      <4> QED
        BY <1>2, <4>2, EventForFields
    <3> QED
      BY <3>1, <3>2
  <2>2. e.id = Len(evs) + 1 /\ (e.parentTask # NoTask => e.task # NoTask)
    BY EventForFields
  <2>3. \A i \in DOMAIN new : i \in DOMAIN evs \/ i = Len(evs) + 1
    BY <1>2
  <2> HIDE DEF e, new
  <2> QED
    BY <1>1, <1>2, <2>1, <2>2, <2>3 DEF Sound, Orderly
<1>4. SpansOnce(new)
  <2>1. e.source = "otlp" /\ e.span # NoSpan => \A i \in DOMAIN evs : evs[i].span # e.span
    BY EventForFields DEF Duplicate, SpansIn
  <2>2. \A i \in DOMAIN new : i \in DOMAIN evs \/ i = Len(evs) + 1
    BY <1>2
  <2>3. \A i \in DOMAIN evs : ~ Len(evs) + 1 < i
    BY <1>2
  <2> HIDE DEF e, new
  <2> QED
    BY <1>2, <2>1, <2>2, <2>3 DEF Sound, SpansOnce
<1>5. /\ Imports(new) = Imports(evs) /\ ObservationsIn(new) = ObservationsIn(evs)
      /\ \A i \in Imports(evs) : new[i] = evs[i]
  BY <1>1, AppendedImports
<1>6. cur # NoCursor /\ ~ Metered(evs) => ~ Metered(new)
  <2>1. cur # NoCursor => e.item.native = NoCount
    BY EventForFields DEF Ambiguous
  <2>2. \A i \in DOMAIN new : i \in DOMAIN evs \/ i = Len(evs) + 1
    BY <1>2
  <2> HIDE DEF e, new
  <2> QED
    BY <1>2, <2>1, <2>2 DEF Metered
<1>7. ImportsDecode(new, cur)
  <2> HIDE DEF e, new
  <2> QED
    BY <1>5, <1>6 DEF Sound, ImportsDecode
<1>8. Mirrors(new, cur)
  <2> HIDE DEF e, new
  <2> QED
    BY <1>5 DEF Sound, Mirrors
<1>9. Attributed(new)
  BY <1>1, EventForFields, AttributedAppend DEF Sound
<1> QED
  BY <1>3, <1>4, <1>7, <1>8, <1>9 DEF Sound

\* A candidate that gets one more recorded event still continues the run.
LEMMA AppendContinues ==
    ASSUME NEW evs \in Seq(Event), NEW old \in Seq(Event), Continues(evs, old),
           NEW e \in Event, ~ IsImport(e)
    PROVE  Continues(Append(evs, e), old)
<1> DEFINE new == Append(evs, e)
<1>1. /\ Len(old) \in Nat /\ Len(evs) \in Nat /\ Len(new) = Len(evs) + 1
      /\ new[Len(evs) + 1] = e /\ \A i \in 1..Len(evs) : new[i] = evs[i]
  BY Appended, LenProperties
<1> HIDE DEF new
<1>2. Len(old) <= Len(new) /\ \A i \in 1..Len(old) : new[i] = old[i]
  BY <1>1 DEF Continues
<1>3. ASSUME NEW i \in (Len(old) + 1)..Len(new)
      PROVE  ~ IsImport(new[i])
  <2>1. i = Len(evs) + 1 \/ (i \in 1..Len(evs) /\ i \in (Len(old) + 1)..Len(evs))
    BY <1>1
  <2> QED
    BY <1>1, <2>1 DEF Continues
<1> QED
  BY <1>2, <1>3 DEF Continues, new

-----------------------------------------------------------------------------
(* Importing a snapshot.                                                   *)

LEMMA SnapshotFacts ==
    ASSUME NEW snapshot \in Snapshots
    PROVE  /\ DOMAIN snapshot \subseteq Observations
           /\ DOMAIN snapshot # {}
           /\ IsFiniteSet(DOMAIN snapshot)
           /\ \A o \in DOMAIN snapshot : snapshot[o] \in Item /\ QualityMatches(snapshot[o])
<1>1. PICK observed \in {S \in SUBSET Observations :
                            /\ S # {} /\ IsFiniteSet(S)
                            /\ Cardinality(S) <= MaximumObservations} :
            snapshot \in [observed -> {item \in Item : QualityMatches(item)}]
  BY DEF Snapshots
<1>2. DOMAIN snapshot = observed /\ \A o \in observed : snapshot[o] \in {item \in Item : QualityMatches(item)}
  BY <1>1
<1> QED
  BY <1>1, <1>2

LEMMA UnavailableItem == Unavailable \in Item /\ QualityMatches(Unavailable)
  BY DEF Unavailable, Item, Qualities, QualityMatches

\* The additions are the new observations, each once.
LEMMA AdditionsFacts ==
    ASSUME NEW evs, NEW snapshot \in Snapshots, NEW additions \in Additions(evs, snapshot)
    PROVE  LET fresh == DOMAIN snapshot \ ObservationsIn(evs)
           IN /\ Len(additions) \in Nat
              /\ DOMAIN additions = 1..Len(additions)
              /\ \A i \in 1..Len(additions) : additions[i] \in fresh
              /\ \A i, j \in 1..Len(additions) : additions[i] = additions[j] => i = j
              /\ \A o \in fresh : \E i \in 1..Len(additions) : additions[i] = o
<1> DEFINE fresh == DOMAIN snapshot \ ObservationsIn(evs)
           n == Cardinality(fresh)
<1>1. fresh \subseteq Observations /\ IsFiniteSet(fresh)
  BY SnapshotFacts, FS_Subset
<1>2. n \in Nat
  BY <1>1, FS_CardinalityType
<1>3. additions \in [1..n -> fresh] /\ \A i, j \in 1..n : i < j => additions[i] < additions[j]
  BY DEF Additions
<1>4. additions \in Seq(fresh) /\ Len(additions) = n /\ DOMAIN additions = 1..n
  <2>1. additions \in Seq(fresh)
    <3> HIDE DEF n, fresh
    <3> QED
      BY <1>2, <1>3, SeqDef
  <2>2. DOMAIN additions = 1..Len(additions) /\ Len(additions) \in Nat
    BY <2>1, LenProperties
  <2>3. DOMAIN additions = 1..n
    BY <1>3
  <2> QED
    BY <1>2, <2>1, <2>2, <2>3
<1>5. \A i, j \in 1..n : additions[i] = additions[j] => i = j
  <2>1. \A i \in 1..n : additions[i] \in Nat
    BY <1>1, <1>3
  <2>2. \A i, j \in 1..n : i < j \/ j < i \/ i = j
    BY <1>2
  <2> HIDE DEF n, fresh
  <2>3. \A i, j \in 1..n : i < j => additions[i] # additions[j]
    <3> SUFFICES ASSUME NEW i \in 1..n, NEW j \in 1..n, i < j
                 PROVE  additions[i] # additions[j]
      OBVIOUS
    <3>1. additions[i] < additions[j] /\ additions[i] \in Nat
      BY <1>3, <2>1
    <3> QED
      BY <3>1
  <2> QED
    BY <2>2, <2>3
<1>6. \A o \in fresh : \E i \in 1..n : additions[i] = o
  <2>1. additions \in Injection(1..n, fresh)
    BY <1>3, <1>5 DEF Injection, IsInjective
  <2>2. Cardinality(1..n) = Cardinality(fresh)
    BY <1>2, FS_Interval
  <2>3. additions \in Surjection(1..n, fresh)
    BY <1>1, <2>1, <2>2, FS_Injection
  <2> QED
    BY <2>3 DEF Surjection
<1> QED
  BY <1>2, <1>3, <1>4, <1>5, <1>6

LEMMA ImportedFields ==
    ASSUME NEW evs \in Seq(Event), NEW origin \in Origins, NEW snapshot \in Snapshots,
           NEW additions \in Additions(evs, snapshot)
    PROVE  LET new == Imported(evs, origin, snapshot, additions)
           IN /\ Len(evs) \in Nat /\ DOMAIN evs = 1..Len(evs)
              /\ DOMAIN new = 1..(Len(evs) + Len(additions))
              /\ \A i \in 1..Len(evs) :
                    new[i] = IF IsImport(evs[i]) THEN Reimported(evs[i], origin, snapshot) ELSE evs[i]
              /\ \A i \in 1..Len(additions) :
                    new[Len(evs) + i] = ImportEvent(Len(evs) + i, origin, additions[i],
                                                   snapshot[additions[i]])
<1> DEFINE new == Imported(evs, origin, snapshot, additions)
<1>1. Len(evs) \in Nat /\ DOMAIN evs = 1..Len(evs) /\ Len(additions) \in Nat
  BY LenProperties, AdditionsFacts
<1>2. DOMAIN new = 1..(Len(evs) + Len(additions))
  BY DEF Imported
<1>3. \A i \in 1..Len(evs) : i \in DOMAIN new /\ ~ i > Len(evs)
  BY <1>1, <1>2
<1>4. \A i \in 1..Len(evs) :
        new[i] = IF IsImport(evs[i]) THEN Reimported(evs[i], origin, snapshot) ELSE evs[i]
  BY <1>2, <1>3 DEF Imported
<1>5. \A i \in 1..Len(additions) :
        Len(evs) + i \in 1..(Len(evs) + Len(additions)) /\ Len(evs) + i > Len(evs)
            /\ (Len(evs) + i) - Len(evs) = i
  BY <1>1
<1>6. \A i \in 1..Len(additions) :
        new[Len(evs) + i] = ImportEvent(Len(evs) + i, origin, additions[i], snapshot[additions[i]])
  BY <1>5 DEF Imported
<1> QED
  BY <1>1, <1>2, <1>4, <1>6

\* Nothing but the item of an event is replaced.
Amended(new, event) == new = [event EXCEPT !.item = new.item]

LEMMA AmendedFields ==
    ASSUME NEW event \in Event, NEW new \in Event
    PROVE  /\ Amended(event, event)
           /\ Amended(new, event) =>
                 /\ new.id = event.id /\ new.parent = event.parent /\ new.source = event.source
                 /\ new.span = event.span /\ new.origin = event.origin
                 /\ new.observation = event.observation
                 /\ new.task = event.task /\ new.parentTask = event.parentTask
                 /\ new.lifecycle = event.lifecycle /\ new.inherits = event.inherits
  BY DEF Event, Amended

LEMMA ReimportedFields ==
    ASSUME NEW event \in Event, NEW snapshot \in Snapshots,
           NEW new, new = Reimported(event, event.origin, snapshot)
    PROVE  /\ new \in Event
           /\ Amended(new, event)
           /\ new.item = IF event.observation \in DOMAIN snapshot
                         THEN snapshot[event.observation] ELSE Unavailable
           /\ QualityMatches(new.item)
<1>1. CASE event.observation \in DOMAIN snapshot
  <2>1. snapshot[event.observation] \in Item /\ QualityMatches(snapshot[event.observation])
    BY <1>1, SnapshotFacts
  <2>2. new = [event EXCEPT !.origin = event.origin, !.item = snapshot[event.observation]]
    BY <1>1 DEF Reimported
  <2>3. new = [event EXCEPT !.item = snapshot[event.observation]]
    BY <2>2 DEF Event
  <2>4. new \in Event /\ new.item = snapshot[event.observation]
    BY <2>1, <2>3 DEF Event
  <2> QED
    BY <1>1, <2>1, <2>3, <2>4 DEF Amended
<1>2. CASE event.observation \notin DOMAIN snapshot
  <2>1. new = [event EXCEPT !.item = Unavailable]
    BY <1>2 DEF Reimported
  <2>2. new \in Event /\ new.item = Unavailable
    BY <2>1, UnavailableItem DEF Event
  <2> QED
    BY <1>2, <2>1, <2>2, UnavailableItem DEF Amended
<1> QED
  BY <1>1, <1>2

\* What the steps of an import are given.
ImportOf(evs, cur, origin, snapshot, additions, new) ==
    /\ evs \in Seq(Event)
    /\ cur \in Cursor \cup {NoCursor}
    /\ Sound(evs, cur)
    /\ origin \in Origins
    /\ snapshot \in Snapshots
    /\ additions \in Additions(evs, snapshot)
    /\ cur # NoCursor => cur.origin = origin
    /\ ~ Metered(evs)
    /\ Cardinality(ObservationsIn(evs) \cup DOMAIN snapshot) <= MaximumObservations
    /\ new = Imported(evs, origin, snapshot, additions)

\* An event that is there keeps everything but its item.
LEMMA ImportKeeps ==
    ASSUME NEW evs, NEW cur, NEW origin, NEW snapshot, NEW additions,
           NEW new, ImportOf(evs, cur, origin, snapshot, additions, new), NEW i \in 1..Len(evs)
    PROVE  /\ evs[i] \in Event
           /\ new[i] \in Event
           /\ Amended(new[i], evs[i])
           /\ ~ IsImport(evs[i]) => new[i] = evs[i]
           /\ IsImport(evs[i]) =>
                 /\ new[i].origin = origin
                 /\ QualityMatches(new[i].item)
                 /\ new[i].item = IF evs[i].observation \in DOMAIN snapshot
                                  THEN snapshot[evs[i].observation] ELSE Unavailable
<1>1. evs[i] \in Event /\ i \in DOMAIN evs
  BY LenProperties, ElementOfSeq DEF ImportOf
<1>2. new[i] = IF IsImport(evs[i]) THEN Reimported(evs[i], origin, snapshot) ELSE evs[i]
  BY ImportedFields DEF ImportOf
<1>3. CASE ~ IsImport(evs[i])
  BY <1>1, <1>2, <1>3, AmendedFields
<1>4. CASE IsImport(evs[i])
  <2>1. i \in Imports(evs)
    BY <1>1, <1>4 DEF Imports
  <2>2. cur # NoCursor /\ evs[i].origin = cur.origin
    BY <2>1 DEF ImportOf, Sound, ImportsDecode
  <2>3. evs[i].origin = origin
    BY <2>2 DEF ImportOf
  <2>4. new[i] = Reimported(evs[i], evs[i].origin, snapshot) /\ snapshot \in Snapshots
    BY <1>2, <1>4, <2>3 DEF ImportOf
  <2>5. /\ new[i] \in Event
        /\ Amended(new[i], evs[i])
        /\ new[i].item = IF evs[i].observation \in DOMAIN snapshot
                         THEN snapshot[evs[i].observation] ELSE Unavailable
        /\ QualityMatches(new[i].item)
    BY <1>1, <2>4, ReimportedFields
  <2>6. new[i].origin = origin
    BY <1>1, <2>3, <2>5, AmendedFields
  <2> QED
    BY <1>1, <1>4, <2>5, <2>6
<1> QED
  BY <1>3, <1>4

LEMMA ImportAdds ==
    ASSUME NEW evs, NEW cur, NEW origin, NEW snapshot, NEW additions,
           NEW new, ImportOf(evs, cur, origin, snapshot, additions, new), NEW i \in 1..Len(additions)
    PROVE  LET e == new[Len(evs) + i]
           IN /\ e \in Event
              /\ e.id = Len(evs) + i /\ e.parent = NoEvent
              /\ IsImport(e) /\ e.span = NoSpan /\ e.parentTask = NoTask /\ ~ e.inherits
              /\ e.origin = origin
              /\ e.observation = additions[i] /\ e.observation # NoObservation
              /\ e.item = snapshot[additions[i]] /\ QualityMatches(e.item)
<1>1. /\ Len(evs) \in Nat
      /\ new[Len(evs) + i] = ImportEvent(Len(evs) + i, origin, additions[i], snapshot[additions[i]])
  BY ImportedFields DEF ImportOf
<1>2. additions[i] \in DOMAIN snapshot
  BY AdditionsFacts DEF ImportOf
<1>3. /\ additions[i] \in Observations
      /\ snapshot[additions[i]] \in Item /\ QualityMatches(snapshot[additions[i]])
  BY <1>2, SnapshotFacts DEF ImportOf
<1>4. Len(evs) + i \in Nat \ {NoEvent} /\ additions[i] # NoObservation
  <2>1. i \in Nat /\ i > 0
    BY AdditionsFacts DEF ImportOf
  <2> QED
    BY <1>1, <1>3, <2>1 DEF NoEvent, NoObservation
<1> QED
  BY <1>1, <1>3, <1>4 DEF ImportEvent, Event, IsImport, NoEvent, ImportOf

LEMMA ImportPlaces ==
    ASSUME NEW evs, NEW cur, NEW origin, NEW snapshot, NEW additions,
           NEW new, ImportOf(evs, cur, origin, snapshot, additions, new)
    PROVE  /\ Len(evs) \in Nat /\ DOMAIN evs = 1..Len(evs)
           /\ Len(additions) \in Nat
           /\ DOMAIN new = 1..(Len(evs) + Len(additions))
           /\ \A k \in DOMAIN new : k \in 1..Len(evs)
                    \/ \E i \in 1..Len(additions) : k = Len(evs) + i
<1>1. Len(evs) \in Nat /\ DOMAIN evs = 1..Len(evs)
  BY ImportedFields DEF ImportOf
<1>2. Len(additions) \in Nat
  BY AdditionsFacts DEF ImportOf
<1>3. DOMAIN new = 1..(Len(evs) + Len(additions))
  BY ImportedFields DEF ImportOf
<1>4. \A k \in 1..(Len(evs) + Len(additions)) : k \in 1..Len(evs) \/ k - Len(evs) \in 1..Len(additions)
  BY <1>1, <1>2
<1>5. \A k \in 1..(Len(evs) + Len(additions)) : k = Len(evs) + (k - Len(evs))
  BY <1>1, <1>2
<1> QED
  BY <1>1, <1>2, <1>3, <1>4, <1>5

LEMMA ImportSeq ==
    ASSUME NEW evs, NEW cur, NEW origin, NEW snapshot, NEW additions,
           NEW new, ImportOf(evs, cur, origin, snapshot, additions, new)
    PROVE  new \in Seq(Event) /\ Len(new) = Len(evs) + Len(additions)
<1> DEFINE n == Len(evs) + Len(additions)
<1>1. n \in Nat /\ DOMAIN new = 1..n
  BY ImportPlaces
<1>2. ASSUME NEW k \in 1..n
      PROVE  new[k] \in Event
  <2>1. CASE k \in 1..Len(evs)
    BY <2>1, ImportKeeps
  <2>2. ASSUME NEW i \in 1..Len(additions), k = Len(evs) + i
        PROVE  new[k] \in Event
    BY <2>2, ImportAdds
  <2> QED
    BY <1>1, <2>1, <2>2, ImportPlaces
<1>3. new = [k \in 1..n |-> new[k]]
  BY DEF ImportOf, Imported
<1> HIDE DEF n
<1>4. new \in [1..n -> Event]
  BY <1>2, <1>3
<1>5. new \in Seq(Event)
  BY <1>1, <1>4, SeqDef
<1>6. Len(new) = n
  <2>1. DOMAIN new = 1..Len(new) /\ Len(new) \in Nat
    BY <1>5, LenProperties
  <2> QED
    BY <1>1, <2>1
<1> QED
  BY <1>5, <1>6 DEF n

\* The imports of a run are its earlier ones and the additions.
LEMMA ImportImports ==
    ASSUME NEW evs, NEW cur, NEW origin, NEW snapshot, NEW additions,
           NEW new, ImportOf(evs, cur, origin, snapshot, additions, new)
    PROVE  /\ \A k \in Imports(evs) : k \in Imports(new) /\ new[k].observation = evs[k].observation
           /\ \A k \in Imports(new) :
                 \/ k \in Imports(evs) /\ new[k].observation = evs[k].observation
                 \/ \E i \in 1..Len(additions) :
                       k = Len(evs) + i /\ new[k].observation = additions[i]
           /\ \A i \in 1..Len(additions) :
                 Len(evs) + i \in Imports(new) /\ new[Len(evs) + i].observation = additions[i]
<1>1. ASSUME NEW k \in 1..Len(evs)
      PROVE  /\ k \in Imports(new) <=> k \in Imports(evs)
             /\ new[k].observation = evs[k].observation
  <2>1. k \in DOMAIN evs /\ k \in DOMAIN new
    BY ImportPlaces
  <2>2. new[k].source = evs[k].source /\ new[k].observation = evs[k].observation
    BY ImportKeeps, AmendedFields
  <2> QED
    BY <2>1, <2>2 DEF Imports, IsImport
<1>2. ASSUME NEW i \in 1..Len(additions)
      PROVE  Len(evs) + i \in Imports(new) /\ new[Len(evs) + i].observation = additions[i]
  <2>1. Len(evs) + i \in DOMAIN new
    BY ImportPlaces
  <2> QED
    BY <2>1, ImportAdds DEF Imports
<1>3. \A k \in Imports(evs) : k \in 1..Len(evs)
  BY ImportPlaces DEF Imports
<1>4. \A k \in Imports(new) : k \in 1..Len(evs) \/ \E i \in 1..Len(additions) : k = Len(evs) + i
  BY ImportPlaces DEF Imports
<1> QED
  BY <1>1, <1>2, <1>3, <1>4

LEMMA ImportObservesOnce ==
    ASSUME NEW evs, NEW cur, NEW origin, NEW snapshot, NEW additions,
           NEW new, ImportOf(evs, cur, origin, snapshot, additions, new)
    PROVE  /\ \A k, l \in Imports(new) : new[k].observation = new[l].observation => k = l
           /\ ObservationsIn(new) = ObservationsIn(evs) \cup DOMAIN snapshot
<1>1. \A k, l \in Imports(evs) : evs[k].observation = evs[l].observation => k = l
  BY DEF ImportOf, Sound, ImportsDecode
<1>2. /\ \A i \in 1..Len(additions) : additions[i] \in DOMAIN snapshot \ ObservationsIn(evs)
      /\ \A i, j \in 1..Len(additions) : additions[i] = additions[j] => i = j
      /\ \A o \in DOMAIN snapshot \ ObservationsIn(evs) : \E i \in 1..Len(additions) : additions[i] = o
  BY AdditionsFacts DEF ImportOf
<1>3. \A k \in Imports(evs) : evs[k].observation \in ObservationsIn(evs)
  BY DEF ObservationsIn
<1>4. ASSUME NEW k \in Imports(new), NEW l \in Imports(new),
             new[k].observation = new[l].observation
      PROVE  k = l
  <2>1. \A m \in Imports(new) : m \in Imports(evs) <=> new[m].observation \in ObservationsIn(evs)
    BY <1>2, <1>3, ImportImports
  <2>2. CASE k \in Imports(evs)
    BY <1>1, <1>4, <2>1, <2>2, ImportImports
  <2>3. CASE k \notin Imports(evs)
    <3>1. PICK i \in 1..Len(additions) : k = Len(evs) + i /\ new[k].observation = additions[i]
      BY <2>3, ImportImports
    <3>2. PICK j \in 1..Len(additions) : l = Len(evs) + j /\ new[l].observation = additions[j]
      BY <1>4, <2>1, <2>3, ImportImports
    <3> QED
      BY <1>2, <1>4, <3>1, <3>2
  <2> QED
    BY <2>2, <2>3
<1>5. ObservationsIn(new) \subseteq ObservationsIn(evs) \cup DOMAIN snapshot
  BY <1>2, <1>3, ImportImports DEF ObservationsIn
<1>6. ObservationsIn(evs) \subseteq ObservationsIn(new)
  BY ImportImports DEF ObservationsIn
<1>7. ASSUME NEW o \in DOMAIN snapshot \ ObservationsIn(evs)
      PROVE  o \in ObservationsIn(new)
  <2>1. PICK i \in 1..Len(additions) : additions[i] = o
    BY <1>2
  <2>2. Len(evs) + i \in Imports(new) /\ new[Len(evs) + i].observation = o
    BY <2>1, ImportImports
  <2> QED
    BY <2>2 DEF ObservationsIn
<1> QED
  BY <1>4, <1>5, <1>6, <1>7

\* An injection of the imports into a set bounds their number.
LEMMA ImportsCounted ==
    ASSUME NEW evs, NEW S, IsFiniteSet(S), ObservationsIn(evs) \subseteq S,
           \A k, l \in Imports(evs) : evs[k].observation = evs[l].observation => k = l
    PROVE  Cardinality(Imports(evs)) <= Cardinality(S)
<1> DEFINE f == [k \in Imports(evs) |-> evs[k].observation]
<1>1. \A k \in Imports(evs) : f[k] \in S
  BY DEF ObservationsIn
<1>2. f \in Injection(Imports(evs), S)
  BY <1>1 DEF Injection, IsInjective
<1> QED
  BY <1>2, FS_Injection

LEMMA ObservationsFinite ==
    ASSUME NEW evs \in Seq(Event)
    PROVE  IsFiniteSet(ObservationsIn(evs))
<1> DEFINE f == [k \in Imports(evs) |-> evs[k].observation]
<1>1. IsFiniteSet(1..Len(evs)) /\ Imports(evs) \subseteq 1..Len(evs)
  <2>1. Len(evs) \in Nat /\ DOMAIN evs = 1..Len(evs)
    BY LenProperties
  <2>2. IsFiniteSet(1..Len(evs))
    BY <2>1, FS_Interval
  <2> QED
    BY <2>1, <2>2 DEF Imports
<1>2. IsFiniteSet(Imports(evs))
  BY <1>1, FS_Subset
<1>3. f \in Surjection(Imports(evs), ObservationsIn(evs))
  BY DEF Surjection, ObservationsIn
<1> QED
  BY <1>2, <1>3, FS_Surjection

LEMMA ImportSound ==
    ASSUME NEW evs, NEW cur, NEW origin, NEW snapshot, NEW additions,
           NEW new, ImportOf(evs, cur, origin, snapshot, additions, new),
           NEW revision \in Revisions
    PROVE  Sound(new, [origin |-> origin, revision |-> revision, snapshot |-> snapshot])
<1> DEFINE bound == [origin |-> origin, revision |-> revision, snapshot |-> snapshot]
<1>1. \A k \in DOMAIN new : k \in 1..Len(evs) \/ \E i \in 1..Len(additions) : k = Len(evs) + i
  BY ImportPlaces
<1>2. \A k \in 1..Len(evs) : k \in DOMAIN evs
  BY ImportPlaces
<1>3. Orderly(new)
  <2> SUFFICES ASSUME NEW k \in DOMAIN new
               PROVE  /\ new[k].id = k /\ new[k].parent < k
                      /\ new[k].parentTask # NoTask => new[k].task # NoTask
                      /\ IsImport(new[k]) =>
                            new[k].observation # NoObservation /\ QualityMatches(new[k].item)
    BY DEF Orderly
  <2>1. CASE k \in 1..Len(evs)
    <3>1. /\ evs[k].id = k /\ evs[k].parent < k
          /\ evs[k].parentTask # NoTask => evs[k].task # NoTask
          /\ IsImport(evs[k]) => evs[k].observation # NoObservation
      BY <1>2, <2>1 DEF ImportOf, Sound, Orderly
    <3>2. /\ new[k].id = evs[k].id /\ new[k].parent = evs[k].parent
          /\ new[k].source = evs[k].source /\ new[k].observation = evs[k].observation
          /\ new[k].task = evs[k].task /\ new[k].parentTask = evs[k].parentTask
      BY <2>1, ImportKeeps, AmendedFields
    <3>3. IsImport(evs[k]) => QualityMatches(new[k].item)
      BY <2>1, ImportKeeps
    <3> QED
      BY <3>1, <3>2, <3>3 DEF IsImport
  <2>2. ASSUME NEW i \in 1..Len(additions), k = Len(evs) + i
        PROVE  /\ new[k].id = k /\ new[k].parent < k /\ new[k].parentTask = NoTask
               /\ new[k].observation # NoObservation /\ QualityMatches(new[k].item)
    <3>1. k > 0
      BY <2>2, ImportPlaces
    <3> QED
      BY <2>2, <3>1, ImportAdds DEF NoEvent
  <2> QED
    BY <1>1, <2>1, <2>2
<1>4. SpansOnce(new)
  <2>1. \A k \in DOMAIN new : new[k].span # NoSpan =>
          k \in 1..Len(evs) /\ new[k].span = evs[k].span /\ new[k].source = evs[k].source
    BY <1>1, ImportAdds, ImportKeeps, AmendedFields
  <2> QED
    BY <1>2, <2>1 DEF ImportOf, Sound, SpansOnce
<1>5. ~ Metered(new)
  <2>1. ASSUME NEW k \in DOMAIN new, ~ IsImport(new[k])
        PROVE  new[k].item.native = NoCount
    <3>1. k \in 1..Len(evs)
      BY <1>1, <2>1, ImportAdds
    <3>2. new[k].source = evs[k].source /\ (~ IsImport(evs[k]) => new[k] = evs[k])
      BY <3>1, ImportKeeps, AmendedFields
    <3> QED
      BY <1>2, <2>1, <3>1, <3>2 DEF ImportOf, Metered, IsImport
  <2> QED
    BY <2>1 DEF Metered
<1>6. /\ \A k, l \in Imports(new) : new[k].observation = new[l].observation => k = l
      /\ ObservationsIn(new) = ObservationsIn(evs) \cup DOMAIN snapshot
  BY ImportObservesOnce
<1>7. Imports(new) # {}
  BY <1>6, SnapshotFacts DEF ImportOf, ObservationsIn
<1>8. Cardinality(Imports(new)) <= MaximumObservations
  <2>1. IsFiniteSet(ObservationsIn(evs) \cup DOMAIN snapshot)
    BY ObservationsFinite, SnapshotFacts, FS_Union DEF ImportOf
  <2>2. Cardinality(Imports(new)) <= Cardinality(ObservationsIn(evs) \cup DOMAIN snapshot)
    BY <1>6, <2>1, ImportsCounted
  <2>3. IsFiniteSet(Imports(new))
    <3>1. IsFiniteSet(DOMAIN new)
      BY ImportPlaces, FS_Interval
    <3> QED
      BY <3>1, FS_Subset DEF Imports
  <2>4. /\ Cardinality(Imports(new)) \in Nat
        /\ Cardinality(ObservationsIn(evs) \cup DOMAIN snapshot) \in Nat
    BY <2>1, <2>3, FS_CardinalityType
  <2> QED
    BY <2>2, <2>4 DEF ImportOf
<1>9. \A k \in Imports(new) : new[k].origin = origin
  BY <1>1, ImportKeeps, ImportAdds, AmendedFields DEF Imports, IsImport
<1>10. ImportsDecode(new, bound)
  <2>1. \A k \in Imports(new) : new[k].observation # NoObservation /\ QualityMatches(new[k].item)
    BY <1>3 DEF Orderly, Imports
  <2>2. bound # NoCursor /\ bound.origin = origin
    BY DEF NoCursor
  <2> HIDE DEF bound
  <2> QED
    BY <1>5, <1>6, <1>7, <1>8, <1>9, <2>1, <2>2 DEF ImportsDecode
<1>11. Mirrors(new, bound)
  <2>1. ASSUME NEW k \in Imports(new)
        PROVE  new[k].item = IF new[k].observation \in DOMAIN snapshot
                             THEN snapshot[new[k].observation] ELSE Unavailable
    <3>1. CASE k \in 1..Len(evs)
      <4>1. IsImport(evs[k]) /\ new[k].observation = evs[k].observation
        BY <3>1, ImportKeeps, AmendedFields DEF Imports, IsImport
      <4> QED
        BY <3>1, <4>1, ImportKeeps
    <3>2. ASSUME NEW i \in 1..Len(additions), k = Len(evs) + i
          PROVE  new[k].observation \in DOMAIN snapshot
                    /\ new[k].item = snapshot[new[k].observation]
      <4>1. new[k].observation = additions[i] /\ new[k].item = snapshot[additions[i]]
        BY <3>2, ImportAdds
      <4>2. additions[i] \in DOMAIN snapshot
        BY AdditionsFacts DEF ImportOf
      <4> QED
        BY <4>1, <4>2
    <3> QED
      BY <1>1, <3>1, <3>2 DEF Imports
  <2>2. bound.snapshot = snapshot
    OBVIOUS
  <2> HIDE DEF bound
  <2> QED
    BY <1>6, <2>1, <2>2 DEF Mirrors
<1>12. Attributed(new)
  <2>1. new \in Seq(Event) /\ Len(new) = Len(evs) + Len(additions)
    BY ImportSeq
  <2>2. evs \in Seq(Event) /\ Attributed(evs) /\ Len(evs) \in Nat /\ Len(additions) \in Nat
    BY ImportPlaces DEF ImportOf, Sound
  <2>3. \A i \in 1..Len(evs) : /\ new[i].task = evs[i].task
                               /\ new[i].lifecycle = evs[i].lifecycle
                               /\ new[i].inherits = evs[i].inherits
    BY ImportKeeps, AmendedFields
  <2>4. ASSUME NEW i \in (Len(evs) + 1)..Len(new)
        PROVE  ~ new[i].inherits
    <3>1. i - Len(evs) \in 1..Len(additions) /\ Len(evs) + (i - Len(evs)) = i
      BY <2>1, <2>2
    <3> QED
      BY <3>1, ImportAdds
  <2>5. Len(evs) <= Len(new)
    BY <2>1, <2>2
  <2> QED
    BY <2>1, <2>2, <2>3, <2>4, <2>5, AttributedGrows
<1> QED
  BY <1>3, <1>4, <1>10, <1>11, <1>12 DEF Sound

\* What an import leaves of the events that were there.
LEMMA ImportStable ==
    ASSUME NEW evs, NEW cur, NEW origin, NEW snapshot, NEW additions,
           NEW new, ImportOf(evs, cur, origin, snapshot, additions, new)
    PROVE  /\ SpansIn(evs) \subseteq SpansIn(new)
           /\ \A i \in DOMAIN evs :
                 /\ i \in DOMAIN new
                 /\ Amended(new[i], evs[i])
                 /\ ~ IsImport(evs[i]) => new[i] = evs[i]
<1>1. ASSUME NEW i \in DOMAIN evs
      PROVE  i \in 1..Len(evs) /\ i \in DOMAIN new
  BY ImportPlaces
<1>2. \A i \in DOMAIN evs : new[i].span = evs[i].span
  BY <1>1, ImportKeeps, AmendedFields
<1> QED
  BY <1>1, <1>2, ImportKeeps DEF SpansIn

-----------------------------------------------------------------------------
(* Requests.                                                               *)

LEMMA RequestsOfClients ==
    /\ Events \subseteq Request
    /\ Exports \subseteq Seq(Request)
<1>1. {request \in Request : request.source = "otlp"} \subseteq Request
  OBVIOUS
<1>2. \A requests \in Exports : requests \in Seq(Request)
  BY <1>1, RequestsAssumption, SeqMonotonic
<1> QED
  BY <1>2, RequestsAssumption

LEMMA SpansOfTail ==
    ASSUME NEW rest \in Seq(Request), rest # <<>>
    PROVE  /\ SpansOf(rest) = SpansOf(Tail(rest)) \cup ({Head(rest).span} \ {NoSpan})
           /\ Head(rest) \in Request
           /\ Tail(rest) \in Seq(Request)
<1>1. /\ Len(rest) \in Nat \ {0} /\ DOMAIN rest = 1..Len(rest) /\ Head(rest) = rest[1]
      /\ Head(rest) \in Request
      /\ Tail(rest) \in Seq(Request) /\ Len(Tail(rest)) = Len(rest) - 1
      /\ \A i \in 1..Len(Tail(rest)) : Tail(rest)[i] = rest[i + 1]
  BY EmptySeq, LenProperties, HeadTailProperties
<1>2. DOMAIN Tail(rest) = 1..(Len(rest) - 1)
  BY <1>1, LenProperties
<1>3. \A i \in DOMAIN rest : i = 1 \/ (i - 1 \in DOMAIN Tail(rest) /\ rest[i] = Tail(rest)[i - 1])
  BY <1>1, <1>2
<1>4. \A i \in DOMAIN Tail(rest) : i + 1 \in DOMAIN rest /\ Tail(rest)[i] = rest[i + 1]
  BY <1>1, <1>2
<1>5. 1 \in DOMAIN rest
  BY <1>1
<1> QED
  BY <1>1, <1>3, <1>4, <1>5 DEF SpansOf

LEMMA NoBatchFacts ==
    /\ NoBatch.client = NoClient /\ NoBatch.client \notin Clients
    /\ NoBatch \in Batch
<1>1. \A S : <<>> \in Seq(S)
  BY EmptySeq
<1> QED
  BY <1>1 DEF NoBatch, Batch

LEMMA NoCallFacts ==
    /\ NoCall.kind = "none" /\ NoCall.phase = "idle"
    /\ NoCall \in Call
<1>1. \A S : <<>> \in Seq(S)
  BY EmptySeq
<1> QED
  BY <1>1 DEF NoCall, Call

\* Another client's call, or the end of one, does not disturb the open transaction.
LEMMA SubmitStep ==
    ASSUME Shape, Core, NEW c \in Clients, NEW kind \in {"export", "event", "tool"},
           NEW requests \in Seq(Request), kind = "export" => status = "open",
           Submit(c, kind, requests)
    PROVE  Core' /\ Shape'
<1>1. /\ calls[c] = NoCall
      /\ calls' = [calls EXCEPT ![c] = [kind |-> kind, phase |-> "waiting", requests |-> requests]]
      /\ UNCHANGED <<run, batch, acked>>
  BY DEF Submit
<1>2. Shape'
  BY <1>1 DEF Shape, Call, run
<1>3. Sound(events, cursor)'
  BY <1>1 DEF Core, run
<1>4. BatchInOrder'
  <2> SUFFICES ASSUME batch # NoBatch
               PROVE  BatchInOrder'
    BY <1>1 DEF BatchInOrder
  <2>1. batch.client \in Clients /\ batch.client # c
    BY <1>1, NoCallFacts DEF Core, BatchInOrder
  <2>2. calls'[batch.client] = calls[batch.client]
    BY <1>1, <2>1 DEF Shape
  <2> QED
    BY <1>1, <2>1, <2>2 DEF Core, BatchInOrder, Kept, run
<1>5. AnswersInOrder'
  <2>1. calls'[c].phase = "waiting" /\ calls'[c].kind = kind
    BY <1>1 DEF Shape
  <2>2. \A d \in Clients \ {c} : calls'[d] = calls[d]
    BY <1>1 DEF Shape
  <2> QED
    BY <1>1, <2>1, <2>2 DEF Core, AnswersInOrder, AckedSpansKept, Kept, run
<1> QED
  BY <1>2, <1>3, <1>4, <1>5 DEF Core

LEMMA BeginStep ==
    ASSUME Shape, Core, NEW c \in Clients, Begin(c)
    PROVE  Core' /\ Shape'
<1>1. /\ calls[c].phase = "waiting" /\ Kept
      /\ batch' = [client |-> c, rest |-> calls[c].requests, candidate |-> events]
      /\ UNCHANGED <<run, calls, acked>>
  BY DEF Begin
<1>2. Shape'
  BY <1>1 DEF Shape, Batch, Call, run
<1>3. Sound(events, cursor)' /\ AnswersInOrder'
  BY <1>1 DEF Core, AnswersInOrder, AckedSpansKept, Kept, run
<1>4. Continues(events, events)
  BY LenProperties DEF Continues, Shape
<1>5. BatchInOrder'
  BY <1>1, <1>4 DEF Core, BatchInOrder, Kept, run
<1> QED
  BY <1>2, <1>3, <1>5 DEF Core

\* A call ends, and no transaction is open for it.
LEMMA EndOfCall ==
    ASSUME Shape, Core, NEW c \in Clients, batch' \in {batch, NoBatch},
           batch'.client # c, NEW call \in Call,
           call.kind = "export" =>
               status # "none" /\ (call.phase = "done" /\ Kept => SpansOf(call.requests) \subseteq SpansIn(events)),
           calls' = [calls EXCEPT ![c] = call],
           UNCHANGED run, status = "none" => acked' = {}, AckedSpansKept'
    PROVE  Core' /\ Shape'
<1>1. \A d \in Clients : calls'[d] = IF d = c THEN call ELSE calls[d]
  BY DEF Shape
<1>2. Shape'
  BY NoBatchFacts DEF Shape, run
<1>3. Sound(events, cursor)'
  BY DEF Core, run
<1>4. BatchInOrder'
  <2> SUFFICES ASSUME batch' # NoBatch
               PROVE  BatchInOrder'
    BY DEF BatchInOrder
  <2>1. batch' = batch /\ batch.client \in Clients /\ batch.client # c
    BY DEF Core, BatchInOrder
  <2> QED
    BY <1>1, <2>1 DEF Core, BatchInOrder, Kept, run
<1>5. AnswersInOrder'
  BY <1>1 DEF Core, AnswersInOrder, Kept, run
<1> QED
  BY <1>2, <1>3, <1>4, <1>5 DEF Core

LEMMA MissingStep ==
    ASSUME Shape, Core, NEW c \in Clients, RunMissing(c)
    PROVE  Core' /\ Shape'
<1> DEFINE call == [calls[c] EXCEPT !.phase = "done"]
<1>1. /\ ~ Kept /\ batch = NoBatch
      /\ calls' = [calls EXCEPT ![c] = call]
      /\ UNCHANGED <<run, batch, acked>>
  BY DEF RunMissing, Unlocked, Shape
<1>2. call \in Call /\ call.kind = calls[c].kind
  BY DEF Shape, Call
<1>3. AckedSpansKept' /\ (status = "none" => acked' = {})
  BY <1>1 DEF Core, AnswersInOrder, AckedSpansKept, Kept, run
<1>4. call.kind = "export" => status # "none"
  BY <1>2 DEF Core, AnswersInOrder
<1> HIDE DEF call
<1> QED
  BY <1>1, <1>2, <1>3, <1>4, NoBatchFacts, EndOfCall

LEMMA AbortStep ==
    ASSUME Shape, Core, NEW c \in Clients, Abort(c)
    PROVE  Core' /\ Shape'
<1>1. /\ batch' = IF batch.client = c THEN NoBatch ELSE batch
      /\ calls' = [calls EXCEPT ![c] = NoCall]
      /\ UNCHANGED <<run, acked>>
  BY DEF Abort
<1>2. batch' \in {batch, NoBatch} /\ batch'.client # c
  BY <1>1, NoBatchFacts
<1>3. AckedSpansKept' /\ (status = "none" => acked' = {})
  BY <1>1 DEF Core, AnswersInOrder, AckedSpansKept, Kept, run
<1> QED
  BY <1>1, <1>2, <1>3, NoCallFacts, EndOfCall

LEMMA AnswerStep ==
    ASSUME Shape, Core, NEW c \in Clients, Answer(c)
    PROVE  Core' /\ Shape'
<1>1. /\ calls[c].phase = "done"
      /\ acked' = IF calls[c].kind = "export" THEN acked \cup SpansOf(calls[c].requests) ELSE acked
      /\ calls' = [calls EXCEPT ![c] = NoCall]
      /\ UNCHANGED <<run, batch>>
  BY DEF Answer
<1>2. batch'.client # c
  <2>1. batch # NoBatch => calls[batch.client].phase = "waiting"
    BY DEF Core, BatchInOrder
  <2> QED
    BY <1>1, <2>1, NoBatchFacts
<1>3. AckedSpansKept'
  BY <1>1 DEF Core, AnswersInOrder, AckedSpansKept, Kept, run
<1>4. status = "none" => acked' = {}
  BY <1>1 DEF Core, AnswersInOrder
<1> QED
  BY <1>1, <1>2, <1>3, <1>4, NoCallFacts, EndOfCall

-----------------------------------------------------------------------------
(* The loop of RecordEvents.                                               *)

LEMMA OpenBatch ==
    ASSUME Core, NEW c \in Clients, batch.client = c
    PROVE  /\ batch # NoBatch
           /\ Kept
           /\ calls[c].phase = "waiting"
           /\ Sound(batch.candidate, cursor)
           /\ Continues(batch.candidate, events)
           /\ SpansOf(calls[c].requests) \subseteq SpansIn(batch.candidate) \cup SpansOf(batch.rest)
  BY NoBatchFacts DEF Core, BatchInOrder

LEMMA LoopStep ==
    ASSUME Shape, Core, NEW c \in Clients, batch.client = c,
           NEW rest \in Seq(Request), NEW candidate \in Seq(Event),
           batch' = [client |-> c, rest |-> rest, candidate |-> candidate],
           UNCHANGED <<run, calls, acked>>,
           Sound(candidate, cursor), Continues(candidate, events),
           SpansOf(calls[c].requests) \subseteq SpansIn(candidate) \cup SpansOf(rest)
    PROVE  Core' /\ Shape'
<1>1. Shape'
  BY DEF Shape, Batch, Call, run
<1>2. Sound(events, cursor)' /\ AnswersInOrder'
  BY DEF Core, AnswersInOrder, AckedSpansKept, Kept, run
<1>3. BatchInOrder'
  BY OpenBatch DEF BatchInOrder, Kept, run
<1> QED
  BY <1>1, <1>2, <1>3 DEF Core

LEMMA SkipStep ==
    ASSUME Shape, Core, NEW c \in Clients, SkipDuplicate(c)
    PROVE  Core' /\ Shape'
<1>1. /\ batch.client = c /\ batch.rest # <<>>
      /\ Duplicate(batch.candidate, Head(batch.rest))
      /\ batch' = [batch EXCEPT !.rest = Tail(@)]
      /\ UNCHANGED <<run, calls, acked>>
  BY DEF SkipDuplicate
<1>2. batch.rest \in Seq(Request) /\ batch.candidate \in Seq(Event)
  BY DEF Shape, Batch
<1>3. batch' = [client |-> c, rest |-> Tail(batch.rest), candidate |-> batch.candidate]
  BY <1>1 DEF Shape, Batch
<1>4. /\ Tail(batch.rest) \in Seq(Request)
      /\ SpansOf(batch.rest) = SpansOf(Tail(batch.rest)) \cup ({Head(batch.rest).span} \ {NoSpan})
  BY <1>1, <1>2, SpansOfTail
<1>5. Head(batch.rest).span \in SpansIn(batch.candidate)
  BY <1>1 DEF Duplicate
<1>6. SpansOf(calls[c].requests) \subseteq SpansIn(batch.candidate) \cup SpansOf(Tail(batch.rest))
  BY <1>1, <1>4, <1>5, OpenBatch
<1> QED
  BY <1>1, <1>2, <1>3, <1>4, <1>6, OpenBatch, LoopStep

LEMMA AppendStep ==
    ASSUME Shape, Core, NEW c \in Clients, AppendEvent(c)
    PROVE  Core' /\ Shape'
<1> DEFINE request == Head(batch.rest)
           e == EventFor(batch.candidate, request)
<1>1. /\ batch.client = c /\ batch.rest # <<>>
      /\ WellFormed(request) /\ ~ Duplicate(batch.candidate, request)
      /\ ~ Ambiguous(cursor, request) /\ ParentKnown(batch.candidate, request)
      /\ batch' = [batch EXCEPT !.rest = Tail(@), !.candidate = Append(@, EventFor(@, request))]
      /\ UNCHANGED <<run, calls, acked>>
  BY DEF AppendEvent
<1>2. batch.rest \in Seq(Request) /\ batch.candidate \in Seq(Event)
  BY DEF Shape, Batch
<1>3. batch' = [client |-> c, rest |-> Tail(batch.rest), candidate |-> Append(batch.candidate, e)]
  BY <1>1 DEF Shape, Batch
<1>4. /\ Tail(batch.rest) \in Seq(Request) /\ request \in Request
      /\ SpansOf(batch.rest) = SpansOf(Tail(batch.rest)) \cup ({request.span} \ {NoSpan})
  BY <1>1, <1>2, SpansOfTail
<1>5. e \in Event
  BY <1>2, <1>4, EventForType
<1>6. Append(batch.candidate, e) \in Seq(Event) /\ Continues(Append(batch.candidate, e), events)
  <2>1. Append(batch.candidate, e) \in Seq(Event)
    BY <1>2, <1>5, Appended
  <2>2. Continues(batch.candidate, events)
    BY <1>1, OpenBatch
  <2>3. ~ IsImport(e)
    BY <1>4, EventForFields DEF IsImport, Request
  <2> HIDE DEF e
  <2> QED
    BY <1>2, <1>5, <2>1, <2>2, <2>3, AppendContinues DEF Shape
<1>7. Sound(Append(batch.candidate, e), cursor)
  BY <1>1, <1>2, <1>4, <1>5, OpenBatch, AppendSound
<1>8. SpansIn(Append(batch.candidate, e)) = SpansIn(batch.candidate) \cup ({request.span} \ {NoSpan})
  BY <1>2, <1>5, AppendedSpans, EventForFields
<1>9. SpansOf(calls[c].requests)
          \subseteq SpansIn(Append(batch.candidate, e)) \cup SpansOf(Tail(batch.rest))
  BY <1>1, <1>4, <1>8, OpenBatch
<1> HIDE DEF request, e
<1> QED
  BY <1>1, <1>3, <1>4, <1>6, <1>7, <1>9, LoopStep

-----------------------------------------------------------------------------
(* What is written to the store.                                           *)

LEMMA EmptySound == Sound(<<>>, NoCursor)
<1>1. DOMAIN <<>> = {} /\ Imports(<<>>) = {}
  BY DEF Imports
<1> QED
  BY <1>1 DEF Sound, Orderly, SpansOnce, ImportsDecode, Mirrors, Attributed

LEMMA NoBatchInOrder == batch' = NoBatch => BatchInOrder'
  BY DEF BatchInOrder

\* A run that is kept grows, or is pruned by the transaction that ended it.
LEMMA StoreStep ==
    ASSUME Shape, Core, Kept,
           NEW newStatus \in {status, "ended"}, NEW newEvents \in Seq(Event),
           NEW newCursor \in Cursor \cup {NoCursor},
           Store(newStatus, newEvents, newCursor), Sound(newEvents, newCursor),
           SpansIn(events) \subseteq SpansIn(newEvents),
           batch' = NoBatch, calls' \in [Clients -> Call], UNCHANGED acked,
           \A c \in Clients : calls'[c].kind = calls[c].kind,
           \A c \in Clients :
              calls'[c] # calls[c] => SpansOf(calls'[c].requests) \subseteq SpansIn(newEvents)
    PROVE  Core' /\ Shape'
<1>1. newStatus \in {"open", "ended"}
  BY DEF Kept
<1>2. CASE status' = newStatus /\ events' = newEvents /\ cursor' = newCursor
  <2>1. Shape'
    BY <1>1, <1>2, NoBatchFacts DEF Shape
  <2>2. Sound(events, cursor)' /\ Kept'
    BY <1>1, <1>2 DEF Kept
  <2>3. AckedSpansKept'
    BY <1>2 DEF Core, AnswersInOrder, AckedSpansKept
  <2>4. ASSUME NEW c \in Clients, calls'[c].kind = "export", calls'[c].phase = "done"
        PROVE  SpansOf(calls'[c].requests) \subseteq SpansIn(events')
    <3>1. CASE calls'[c] = calls[c]
      <4>1. SpansOf(calls[c].requests) \subseteq SpansIn(events)
        BY <2>4, <3>1 DEF Core, AnswersInOrder
      <4> QED
        BY <1>2, <3>1, <4>1
    <3>2. CASE calls'[c] # calls[c]
      BY <1>2, <3>2
    <3> QED
      BY <3>1, <3>2
  <2>5. AnswersInOrder'
    BY <1>1, <1>2, <2>3, <2>4 DEF AnswersInOrder
  <2> QED
    BY <2>1, <2>2, <2>5, NoBatchInOrder DEF Core
<1>3. CASE status' = "gone" /\ events' = <<>> /\ cursor' = NoCursor
  <2>1. Shape'
    <3>1. <<>> \in Seq(Event)
      BY EmptySeq
    <3> QED
      BY <1>3, <3>1, NoBatchFacts DEF Shape
  <2>2. Sound(events, cursor)'
    BY <1>3, EmptySound
  <2>3. AnswersInOrder'
    BY <1>3 DEF AnswersInOrder, AckedSpansKept, Kept
  <2> QED
    BY <2>1, <2>2, <2>3, NoBatchInOrder DEF Core
<1> QED
  BY <1>2, <1>3 DEF Store

LEMMA CompleteStep ==
    ASSUME Shape, Core, CompleteRun
    PROVE  Core' /\ Shape'
<1>1. Kept /\ batch' = NoBatch /\ Store("ended", events, cursor) /\ UNCHANGED <<calls, acked>>
  BY DEF CompleteRun, Unlocked
<1>2. /\ events \in Seq(Event) /\ cursor \in Cursor \cup {NoCursor}
      /\ calls' \in [Clients -> Call] /\ Sound(events, cursor)
  BY <1>1 DEF Shape, Core
<1> QED
  BY <1>1, <1>2, StoreStep

LEMMA CommitStep ==
    ASSUME Shape, Core, NEW c \in Clients, Commit(c)
    PROVE  Core' /\ Shape'
<1>1. /\ batch.client = c /\ batch.rest = <<>> /\ batch' = NoBatch
      /\ calls' = [calls EXCEPT ![c].phase = "done"]
      /\ UNCHANGED acked
  BY DEF Commit
<1>2. /\ \A d \in Clients : calls'[d] # calls[d] => d = c
      /\ \A d \in Clients : calls'[d].kind = calls[d].kind /\ calls'[d].requests = calls[d].requests
      /\ calls' \in [Clients -> Call]
  <2>1. calls \in [Clients -> Call]
    BY DEF Shape
  <2>2. calls' \in [Clients -> Call]
    <3>1. calls[c] \in Call
      BY <2>1
    <3>2. [calls[c] EXCEPT !.phase = "done"] \in Call
      BY <3>1 DEF Call
    <3> QED
      BY <1>1, <2>1, <3>2
  <2>3. \A d \in Clients : calls'[d] # calls[d] => d = c
    BY <1>1, <2>1
  <2>4. \A d \in Clients : calls'[d].kind = calls[d].kind /\ calls'[d].requests = calls[d].requests
    BY <1>1, <2>1 DEF Call
  <2> QED
    BY <2>2, <2>3, <2>4
<1>3. SpansOf(batch.rest) = {}
  BY <1>1 DEF SpansOf
<1>4. SpansOf(calls'[c].requests) \subseteq SpansIn(batch.candidate)
  BY <1>1, <1>2, <1>3, OpenBatch
<1>5. /\ batch.candidate \in Seq(Event) /\ events \in Seq(Event)
      /\ cursor \in Cursor \cup {NoCursor}
  BY DEF Shape, Batch
<1>6. Kept /\ Sound(batch.candidate, cursor) /\ Continues(batch.candidate, events)
  BY <1>1, OpenBatch
<1>7. CASE batch.candidate = events /\ UNCHANGED run
  <2>1. Shape'
    BY <1>1, <1>2, <1>7, NoBatchFacts DEF Shape, run
  <2>2. Sound(events, cursor)'
    BY <1>7 DEF Core, run
  <2>3. AckedSpansKept' /\ (status' = "none" => acked' = {})
    BY <1>1, <1>7 DEF Core, AnswersInOrder, AckedSpansKept, Kept, run
  <2>4. ASSUME NEW d \in Clients, calls'[d].kind = "export"
        PROVE  /\ status' # "none"
               /\ calls'[d].phase = "done" /\ Kept' =>
                     SpansOf(calls'[d].requests) \subseteq SpansIn(events')
    <3>1. CASE calls'[d] = calls[d]
      BY <1>7, <2>4, <3>1 DEF Core, AnswersInOrder, Kept, run
    <3>2. CASE d = c
      BY <1>4, <1>6, <1>7, <3>2 DEF Kept, run
    <3> QED
      BY <1>2, <3>1, <3>2
  <2>5. AnswersInOrder'
    BY <2>3, <2>4 DEF AnswersInOrder
  <2> QED
    BY <1>1, <2>1, <2>2, <2>5, NoBatchInOrder DEF Core
<1>8. CASE Store(status, batch.candidate, cursor)
  <2>1. SpansIn(events) \subseteq SpansIn(batch.candidate)
    <3>1. /\ DOMAIN events = 1..Len(events) /\ DOMAIN batch.candidate = 1..Len(batch.candidate)
          /\ Len(events) \in Nat /\ Len(batch.candidate) \in Nat
      BY <1>5, LenProperties
    <3>2. \A i \in DOMAIN events : i \in DOMAIN batch.candidate /\ batch.candidate[i] = events[i]
      BY <1>6, <3>1 DEF Continues
    <3> QED
      BY <3>2 DEF SpansIn
  <2>2. \A d \in Clients :
          calls'[d] # calls[d] => SpansOf(calls'[d].requests) \subseteq SpansIn(batch.candidate)
    BY <1>2, <1>4
  <2> QED
    BY <1>1, <1>2, <1>5, <1>6, <1>8, <2>1, <2>2, StoreStep
<1> QED
  BY <1>7, <1>8 DEF Commit

\* The additions of an import that ImportUsage makes are what the lemmas on imports ask for.
LEMMA UsageIsImport ==
    ASSUME Shape, Core, NEW origin \in Origins, NEW snapshot \in Snapshots,
           NEW additions \in Additions(events, snapshot),
           cursor # NoCursor => cursor.origin = origin, ~ Metered(events),
           Cardinality(ObservationsIn(events) \cup DOMAIN snapshot) <= MaximumObservations
    PROVE  ImportOf(events, cursor, origin, snapshot, additions,
                    Imported(events, origin, snapshot, additions))
  BY DEF ImportOf, Shape, Core

LEMMA ImportStep ==
    ASSUME Shape, Core, NEW origin \in Origins, NEW revision \in Revisions,
           NEW expected, NEW snapshot \in Snapshots,
           ImportUsage(origin, revision, expected, snapshot)
    PROVE  Core' /\ Shape'
<1>1. /\ Kept /\ batch' = NoBatch /\ UNCHANGED <<calls, acked>>
      /\ cursor # NoCursor => cursor.origin = origin
      /\ ~ Metered(events)
      /\ Cardinality(ObservationsIn(events) \cup DOMAIN snapshot) <= MaximumObservations
  BY DEF ImportUsage, Unlocked
<1> DEFINE bound == [origin |-> origin, revision |-> revision, snapshot |-> snapshot]
<1>2. PICK additions \in Additions(events, snapshot) :
          Store(status, Imported(events, origin, snapshot, additions), bound)
  BY DEF ImportUsage
<1> DEFINE new == Imported(events, origin, snapshot, additions)
<1>3. ImportOf(events, cursor, origin, snapshot, additions, new)
  BY <1>1, UsageIsImport
<1>4. bound \in Cursor \cup {NoCursor}
  BY DEF Cursor
<1> HIDE DEF new
<1>5. new \in Seq(Event) /\ Sound(new, bound) /\ SpansIn(events) \subseteq SpansIn(new)
  BY <1>3, ImportSeq, ImportSound, ImportStable
<1>6. Store(status, new, bound)
  BY <1>2 DEF new
<1>7. calls' \in [Clients -> Call] /\ \A c \in Clients : calls'[c] = calls[c]
  BY <1>1 DEF Shape
<1> HIDE DEF bound
<1> QED
  BY <1>1, <1>4, <1>5, <1>6, <1>7, StoreStep

LEMMA LifeStep ==
    ASSUME Shape, Core, StartRun \/ Prune \/ Crash
    PROVE  Core' /\ Shape'
<1>1. CASE StartRun
  <2>1. /\ status = "none" /\ status' = "open"
        /\ UNCHANGED <<events, cursor, batch, calls, acked>>
    BY <1>1 DEF StartRun
  <2>2. batch = NoBatch
    BY <2>1 DEF Core, BatchInOrder, Kept
  <2>3. Shape' /\ Sound(events, cursor)'
    BY <2>1 DEF Shape, Core
  <2>4. AnswersInOrder'
    BY <2>1 DEF Core, AnswersInOrder, AckedSpansKept
  <2> QED
    BY <2>1, <2>2, <2>3, <2>4, NoBatchInOrder DEF Core
<1>2. CASE Prune
  <2>1. /\ status' = "gone" /\ events' = <<>> /\ cursor' = NoCursor /\ batch' = NoBatch
        /\ UNCHANGED <<calls, acked>>
    BY <1>2 DEF Prune, Unlocked
  <2>2. Shape'
    <3>1. <<>> \in Seq(Event)
      BY EmptySeq
    <3> QED
      BY <2>1, <3>1, NoBatchFacts DEF Shape
  <2>3. Sound(events, cursor)' /\ AnswersInOrder'
    BY <2>1, EmptySound DEF AnswersInOrder, AckedSpansKept, Kept
  <2> QED
    BY <2>1, <2>2, <2>3, NoBatchInOrder DEF Core
<1>3. CASE Crash
  <2>1. /\ batch' = NoBatch /\ calls' = [c \in Clients |-> NoCall]
        /\ UNCHANGED <<run, acked>>
    BY <1>3 DEF Crash
  <2>2. Shape' /\ Sound(events, cursor)'
    BY <2>1, NoBatchFacts, NoCallFacts DEF Shape, Core, run
  <2>3. AnswersInOrder'
    BY <2>1, NoCallFacts DEF Core, AnswersInOrder, AckedSpansKept, Kept, run
  <2> QED
    BY <2>1, <2>2, <2>3, NoBatchInOrder DEF Core
<1> QED
  BY <1>1, <1>2, <1>3

-----------------------------------------------------------------------------
(* The requests that submit.                                               *)

LEMMA PostStep ==
    ASSUME Shape, Core, NEW c \in Clients,
           \/ \E request \in Events : PostEvent(c, request)
           \/ \E requests \in Exports : Export(c, requests)
    PROVE  Core' /\ Shape'
<1>1. Events \subseteq Request /\ Exports \subseteq Seq(Request)
  BY RequestsOfClients DEF Shape
<1>2. ASSUME NEW request \in Events, PostEvent(c, request)
      PROVE  Core' /\ Shape'
  <2>1. <<request>> \in Seq(Request)
    BY <1>1
  <2> QED
    BY <1>2, <2>1, SubmitStep DEF PostEvent
<1>3. ASSUME NEW requests \in Exports, Export(c, requests)
      PROVE  Core' /\ Shape'
  BY <1>1, <1>3, SubmitStep DEF Export
<1> QED
  BY <1>2, <1>3

LEMMA ToolStep ==
    ASSUME Shape, Core, NEW c \in Clients,
           NEW task \in Tasks \cup {NoTask}, NEW parentTask \in Tasks \cup {NoTask},
           NEW lifecycle \in {"none", "start", "complete"}, NEW span \in Spans \cup {NoSpan},
           Submit(c, "tool", <<ToolRequest(task, parentTask, lifecycle, span)>>)
    PROVE  Core' /\ Shape'
<1> DEFINE request == ToolRequest(task, parentTask, lifecycle, span)
<1>1. request \in Request
  BY DEF ToolRequest, Request, NoEvent
<1> HIDE DEF request
<1>2. <<request>> \in Seq(Request)
  BY <1>1
<1>3. Submit(c, "tool", <<request>>)
  BY DEF request
<1> QED
  BY <1>2, <1>3, SubmitStep

LEMMA ToolsStep ==
    ASSUME Shape, Core, NEW c \in Clients,
           \/ \E task \in Tasks, parentTask \in Tasks \cup {NoTask} :
                 StartSubtask(c, task, parentTask)
           \/ CompleteCurrentTask(c)
           \/ \E span \in Spans \cup {NoSpan} : AssignCurrentChatTurn(c, span)
    PROVE  Core' /\ Shape'
<1>1. /\ CurrentTask(events) \in Tasks \cup {NoTask}
      /\ \A task : ParentOf(events, task) \in Tasks \cup {NoTask}
  BY CurrentIsMostRecent, ParentOfType DEF Shape
<1>2. ASSUME NEW task \in Tasks, NEW parentTask \in Tasks \cup {NoTask},
             StartSubtask(c, task, parentTask)
      PROVE  Core' /\ Shape'
  BY <1>1, <1>2, ToolStep DEF StartSubtask
<1>3. ASSUME NEW lifecycle \in {"none", "complete"}, NEW span \in Spans \cup {NoSpan},
             AboutCurrentTask(c, lifecycle, span)
      PROVE  Core' /\ Shape'
  BY <1>1, <1>3, ToolStep DEF AboutCurrentTask
<1> QED
  BY <1>2, <1>3 DEF CompleteCurrentTask, AssignCurrentChatTurn

-----------------------------------------------------------------------------
(* The theorems.                                                           *)

LEMMA IInvInit == Init => IInv
<1> SUFFICES ASSUME Init
             PROVE  IInv
  OBVIOUS
<1>1. Shape
  <2>1. <<>> \in Seq(Event)
    BY EmptySeq
  <2> QED
    BY <2>1, NoBatchFacts, NoCallFacts DEF Init, Shape
<1>2. Sound(events, cursor)
  BY EmptySound DEF Init
<1>3. BatchInOrder /\ AnswersInOrder
  BY NoCallFacts DEF Init, BatchInOrder, AnswersInOrder, AckedSpansKept, Kept
<1> QED
  BY <1>1, <1>2, <1>3 DEF Init, IInv, Core, Histories

\* Spans are recorded from requests, and answered for requests.
LEMMA HistoriesStep == Core /\ Shape /\ Histories /\ [Next]_vars => Histories'
<1> SUFFICES ASSUME Core, Shape, Histories, [Next]_vars
             PROVE  Histories'
  OBVIOUS
<1>1. ASSUME NEW evs \in Seq(Event)
      PROVE  SpansIn(evs) \subseteq Spans
  <2>1. \A i \in DOMAIN evs : evs[i] \in Event
    BY LenProperties, ElementOfSeq
  <2>2. \A i \in DOMAIN evs : evs[i].span \in Spans \cup {NoSpan}
    BY <2>1 DEF Event
  <2> QED
    BY <2>2 DEF SpansIn
<1>2. ASSUME NEW requests \in Seq(Request)
      PROVE  SpansOf(requests) \subseteq Spans
  <2>1. \A i \in DOMAIN requests : requests[i] \in Request
    BY LenProperties, ElementOfSeq
  <2>2. \A i \in DOMAIN requests : requests[i].span \in Spans \cup {NoSpan}
    BY <2>1 DEF Request
  <2> QED
    BY <2>2 DEF SpansOf
<1>3. ASSUME NEW newStatus, NEW newEvents \in Seq(Event), NEW newCursor,
             Store(newStatus, newEvents, newCursor), UNCHANGED acked
      PROVE  Histories'
  BY <1>1, <1>3 DEF Store, Histories
<1>4. CASE UNCHANGED <<acked, committed>>
  BY <1>4 DEF Histories
<1>5. CASE CompleteRun
  BY <1>3, <1>5 DEF CompleteRun, Shape
<1>6. ASSUME NEW c \in Clients, Commit(c)
      PROVE  Histories'
  <2>1. batch.candidate \in Seq(Event)
    BY DEF Shape, Batch
  <2>2. UNCHANGED <<acked, committed>> \/ (Store(status, batch.candidate, cursor) /\ UNCHANGED acked)
    BY <1>6 DEF Commit, run
  <2> QED
    BY <1>3, <1>4, <2>1, <2>2
<1>7. ASSUME NEW c \in Clients, Answer(c)
      PROVE  Histories'
  <2>1. calls[c].requests \in Seq(Request)
    BY DEF Shape, Call
  <2>2. SpansOf(calls[c].requests) \subseteq Spans
    BY <1>2, <2>1
  <2> QED
    BY <1>7, <2>2 DEF Answer, Histories, run
<1>8. ASSUME NEW c \in Clients, ClientStep(c), ~ Commit(c), ~ Answer(c)
      PROVE  UNCHANGED <<acked, committed>>
  BY <1>8 DEF ClientStep, PostEvent, Export, StartSubtask, CompleteCurrentTask,
              AssignCurrentChatTurn, AboutCurrentTask, Submit, Begin, RunMissing,
              SkipDuplicate, AppendEvent, Abort, run
<1>9. ASSUME NEW origin \in Origins, NEW revision \in Revisions, NEW expected,
             NEW snapshot \in Snapshots, ImportUsage(origin, revision, expected, snapshot)
      PROVE  Histories'
  <2>1. /\ cursor # NoCursor => cursor.origin = origin
        /\ ~ Metered(events)
        /\ Cardinality(ObservationsIn(events) \cup DOMAIN snapshot) <= MaximumObservations
    BY <1>9 DEF ImportUsage
  <2>2. PICK additions \in Additions(events, snapshot) :
            Store(status, Imported(events, origin, snapshot, additions),
                  [origin |-> origin, revision |-> revision, snapshot |-> snapshot])
    BY <1>9 DEF ImportUsage
  <2>3. Imported(events, origin, snapshot, additions) \in Seq(Event)
    BY <1>9, <2>1, UsageIsImport, ImportSeq
  <2>4. UNCHANGED acked
    BY <1>9 DEF ImportUsage
  <2> QED
    BY <1>3, <2>2, <2>3, <2>4
<1> QED
  BY <1>4, <1>5, <1>6, <1>7, <1>8, <1>9 DEF Next, StartRun, Prune, Crash, run, vars

LEMMA IInvStep == IInv /\ [Next]_vars => IInv'
<1> SUFFICES ASSUME IInv, [Next]_vars
             PROVE  Core' /\ Shape'
  BY HistoriesStep DEF IInv
<1>1. Shape
  BY DEF IInv
<1>2. Core
  BY DEF IInv
<1>3. CASE StartRun \/ Prune \/ Crash
  BY <1>1, <1>2, <1>3, LifeStep
<1>4. CASE CompleteRun
  BY <1>1, <1>2, <1>4, CompleteStep
<1>5. ASSUME NEW c \in Clients, ClientStep(c)
      PROVE  Core' /\ Shape'
  <2>1. CASE \/ \E request \in Events : PostEvent(c, request)
             \/ \E requests \in Exports : Export(c, requests)
    BY <1>1, <1>2, <2>1, PostStep
  <2>2. CASE \/ \E task \in Tasks, parentTask \in Tasks \cup {NoTask} :
                   StartSubtask(c, task, parentTask)
             \/ CompleteCurrentTask(c)
             \/ \E span \in Spans \cup {NoSpan} : AssignCurrentChatTurn(c, span)
    BY <1>1, <1>2, <2>2, ToolsStep
  <2>3. CASE Begin(c)
    BY <1>1, <1>2, <2>3, BeginStep
  <2>4. CASE RunMissing(c)
    BY <1>1, <1>2, <2>4, MissingStep
  <2>5. CASE SkipDuplicate(c)
    BY <1>1, <1>2, <2>5, SkipStep
  <2>6. CASE AppendEvent(c)
    BY <1>1, <1>2, <2>6, AppendStep
  <2>7. CASE Abort(c)
    BY <1>1, <1>2, <2>7, AbortStep
  <2>8. CASE Commit(c)
    BY <1>1, <1>2, <2>8, CommitStep
  <2>9. CASE Answer(c)
    BY <1>1, <1>2, <2>9, AnswerStep
  <2> QED
    BY <1>5, <2>1, <2>2, <2>3, <2>4, <2>5, <2>6, <2>7, <2>8, <2>9 DEF ClientStep
<1>6. ASSUME NEW origin \in Origins, NEW revision \in Revisions, NEW expected,
             NEW snapshot \in Snapshots, ImportUsage(origin, revision, expected, snapshot)
      PROVE  Core' /\ Shape'
  BY <1>1, <1>2, <1>6, ImportStep
<1>7. CASE UNCHANGED vars
  <2>1. Shape'
    BY <1>1, <1>7 DEF Shape, vars
  <2>2. Core'
    BY <1>2, <1>7 DEF Core, BatchInOrder, AnswersInOrder, AckedSpansKept, Kept, vars
  <2> QED
    BY <2>1, <2>2
<1> QED
  BY <1>3, <1>4, <1>5, <1>6, <1>7 DEF Next

LEMMA Inductive == Spec => []IInv
<1> QED
  BY IInvInit, IInvStep, PTL DEF Spec

\* The variables keep their types, and the task of every event, the ones the recorder
\* chose included, is a task or none.
THEOREM TypeCorrect == Spec => []TypeOK
<1>1. IInv => TypeOK
  BY DEF IInv, Shape, Histories, TypeOK
<1> QED
  BY <1>1, Inductive, PTL

\* Whatever batches, retries, imports, corrections and completions are interleaved,
\* and wherever the process dies, the committed run can be read back.
THEOREM RunsDecode == Spec => []StoredRunDecodes
<1>1. IInv => StoredRunDecodes
  <2> SUFFICES ASSUME IInv
               PROVE  Decodes(events, cursor)
    BY DEF StoredRunDecodes
  <2>1. Shape
    BY DEF IInv
  <2>2. DOMAIN events = 1..Len(events) /\ Len(events) \in Nat /\ \A i \in DOMAIN events : events[i] \in Event
    BY <2>1, LenProperties, ElementOfSeq DEF Shape
  <2>3. ASSUME NEW i \in DOMAIN events
        PROVE  /\ \A j \in 1..(i - 1) : events[j].id # events[i].id
               /\ events[i].parent # NoEvent => \E j \in 1..(i - 1) : events[j].id = events[i].parent
               /\ events[i].parentTask # NoTask => events[i].task # NoTask
    <3>1. /\ events[i].id = i /\ events[i].parent < i
          /\ events[i].parentTask # NoTask => events[i].task # NoTask
      BY DEF IInv, Core, Sound, Orderly
    <3>2. \A j \in 1..(i - 1) : j \in DOMAIN events /\ j # i
      BY <2>2
    <3>3. \A j \in 1..(i - 1) : events[j].id = j
      BY <3>2 DEF IInv, Core, Sound, Orderly
    <3>4. events[i].parent # NoEvent => events[i].parent \in 1..(i - 1)
      BY <2>2, <3>1 DEF Event, NoEvent
    <3> QED
      BY <3>1, <3>2, <3>3, <3>4
  <2> QED
    BY <2>3 DEF Decodes, EventsDecode, IInv, Core, Sound
<1> QED
  BY <1>1, Inductive, PTL

\* The imported usage of a run is exactly its last accepted snapshot.
THEOREM ImportsMirror == Spec => []ImportsMirrorSnapshot
<1>1. IInv => ImportsMirrorSnapshot
  BY DEF IInv, Core, Sound, Mirrors, ImportsMirrorSnapshot
<1> QED
  BY <1>1, Inductive, PTL

\* A span is recorded once, whoever exports it and however often.
THEOREM SpansAreUnique == Spec => []SpanRecordedOnce
<1>1. IInv => SpanRecordedOnce
  <2> SUFFICES ASSUME IInv, NEW i \in DOMAIN events, NEW j \in DOMAIN events,
                      events[i].source = "otlp", events[j].source = "otlp",
                      events[i].span = events[j].span, events[i].span # NoSpan
               PROVE  i = j
    BY DEF SpanRecordedOnce
  <2>1. i \in Nat /\ j \in Nat
    BY LenProperties DEF IInv, Shape
  <2>2. ~ i < j /\ ~ j < i
    BY DEF IInv, Core, Sound, SpansOnce
  <2> QED
    BY <2>1, <2>2
<1> QED
  BY <1>1, Inductive, PTL

\* What an export was answered 200 for stays in the run as long as the run is kept.
THEOREM AnsweredSpansStay == Spec => []AckedSpansKept
<1>1. IInv => AckedSpansKept
  BY DEF IInv, Core, AnswersInOrder
<1> QED
  BY <1>1, Inductive, PTL

\* At every point of every run, the loop over the stack that chooses the current task
\* agrees with the definition: of the tasks that were started and not completed since,
\* the one started last.
THEOREM CurrentTaskIsRight == Spec => []CurrentTaskIsMostRecentlyStarted
<1>1. IInv => CurrentTaskIsMostRecentlyStarted
  BY CurrentIsMostRecent DEF IInv, Shape, CurrentTaskIsMostRecentlyStarted
<1> QED
  BY <1>1, Inductive, PTL

\* Batches that interleave with the tools and with imports never attribute an event to
\* a task that was not current when the event was committed.
THEOREM AttributionHolds == Spec => []AttributionIsCurrent
<1>1. IInv => AttributionIsCurrent
  BY DEF IInv, Core, Sound, Attributed, AttributionIsCurrent
<1> QED
  BY <1>1, Inductive, PTL

\* Events are only added, and of the earlier ones only what was imported changes.
THEOREM EventsStay == Spec => EventsAreStable
<1> DEFINE Stays == Kept' => \A i \in DOMAIN events :
                       /\ i \in DOMAIN events'
                       /\ events'[i] = [events[i] EXCEPT !.item = events'[i].item]
                       /\ ~ IsImport(events[i]) => events'[i] = events[i]
<1>1. IInv /\ [Next]_vars => [Stays]_vars
  <2> SUFFICES ASSUME IInv, [Next]_vars, Kept', NEW i \in DOMAIN events
               PROVE  /\ i \in DOMAIN events'
                      /\ Amended(events'[i], events[i])
                      /\ ~ IsImport(events[i]) => events'[i] = events[i]
    BY DEF Amended
  <2>1. Shape
    BY DEF IInv
  <2>2. Core
    BY DEF IInv
  <2>3. DOMAIN events = 1..Len(events) /\ Len(events) \in Nat /\ events[i] \in Event
    BY <2>1, LenProperties, ElementOfSeq DEF Shape
  <2>4. CASE UNCHANGED events
    BY <2>3, <2>4, AmendedFields
  <2>5. ASSUME NEW newStatus, NEW newEvents, NEW newCursor, Store(newStatus, newEvents, newCursor)
        PROVE  events' = newEvents
    BY <2>5 DEF Store, Kept
  <2>6. ASSUME NEW c \in Clients, Commit(c)
        PROVE  i \in DOMAIN events' /\ events'[i] = events[i]
    <3>1. batch.client = c /\ (UNCHANGED run \/ Store(status, batch.candidate, cursor))
      BY <2>6 DEF Commit
    <3>2. UNCHANGED events \/ events' = batch.candidate
      BY <2>5, <3>1 DEF run
    <3>3. Continues(batch.candidate, events) /\ batch.candidate \in Seq(Event)
      BY <2>1, <2>2, <3>1, OpenBatch DEF Shape, Batch
    <3>4. DOMAIN batch.candidate = 1..Len(batch.candidate) /\ Len(batch.candidate) \in Nat
      BY <3>3, LenProperties
    <3>5. i \in DOMAIN batch.candidate /\ batch.candidate[i] = events[i]
      BY <2>3, <3>3, <3>4 DEF Continues
    <3> QED
      BY <3>2, <3>5
  <2>7. ASSUME NEW origin \in Origins, NEW revision \in Revisions, NEW expected,
               NEW snapshot \in Snapshots, ImportUsage(origin, revision, expected, snapshot)
        PROVE  /\ i \in DOMAIN events'
               /\ Amended(events'[i], events[i])
               /\ ~ IsImport(events[i]) => events'[i] = events[i]
    <3>1. /\ cursor # NoCursor => cursor.origin = origin
          /\ ~ Metered(events)
          /\ Cardinality(ObservationsIn(events) \cup DOMAIN snapshot) <= MaximumObservations
      BY <2>7 DEF ImportUsage
    <3>2. PICK additions \in Additions(events, snapshot) :
              Store(status, Imported(events, origin, snapshot, additions),
                    [origin |-> origin, revision |-> revision, snapshot |-> snapshot])
      BY <2>7 DEF ImportUsage
    <3>3. events' = Imported(events, origin, snapshot, additions)
      BY <2>5, <3>2
    <3>4. ImportOf(events, cursor, origin, snapshot, additions, events')
      BY <2>1, <2>2, <3>1, <3>3, UsageIsImport
    <3> QED
      BY <3>4, ImportStable
  <2>8. CASE CompleteRun
    BY <2>3, <2>5, <2>8, AmendedFields DEF CompleteRun
  <2>9. CASE StartRun \/ Prune \/ Crash
    BY <2>4, <2>9 DEF StartRun, Prune, Crash, Kept, run
  <2>10. ASSUME NEW c \in Clients, ClientStep(c), ~ Commit(c)
         PROVE  UNCHANGED events
    BY <2>10 DEF ClientStep, PostEvent, Export, StartSubtask, CompleteCurrentTask,
                 AssignCurrentChatTurn, AboutCurrentTask, Submit, Begin, RunMissing,
                 SkipDuplicate, AppendEvent, Abort, Answer, run
  <2>11. CASE UNCHANGED vars
    BY <2>4, <2>11 DEF vars
  <2> QED
    BY <2>3, <2>4, <2>6, <2>7, <2>8, <2>9, <2>10, <2>11, AmendedFields DEF Next
<1> QED
  BY <1>1, Inductive, PTL DEF Spec, EventsAreStable

-----------------------------------------------------------------------------
(* The recorder implements the log.                                        *)

\* The log's copies of the operators on events are the recorder's.
LEMMA SameEvents ==
    /\ \A e : Log!IsImport(e) <=> IsImport(e)
    /\ \A evs : Log!Ids(evs) = Ids(evs) /\ Log!SpansIn(evs) = SpansIn(evs)
    /\ \A evs : Log!Imports(evs) = Imports(evs)
    /\ \A evs : Log!ObservationsIn(evs) = ObservationsIn(evs)
    /\ \A evs : Log!Metered(evs) <=> Metered(evs)
<1>1. \A e : Log!IsImport(e) <=> IsImport(e)
  BY DEF Log!IsImport, IsImport
<1>2. \A evs : Log!Ids(evs) = Ids(evs) /\ Log!SpansIn(evs) = SpansIn(evs)
  BY DEF Log!Ids, Ids, Log!SpansIn, SpansIn
<1>3. \A evs : Log!Imports(evs) = Imports(evs)
  BY <1>1 DEF Log!Imports, Imports
<1>4. \A evs : Log!ObservationsIn(evs) = ObservationsIn(evs)
  BY <1>3 DEF Log!ObservationsIn, ObservationsIn
<1>5. \A evs : Log!Metered(evs) <=> Metered(evs)
  BY <1>1 DEF Log!Metered, Metered
<1> QED
  BY <1>1, <1>2, <1>3, <1>4, <1>5

\* Both define the current task by the same words.
LEMMA SameTasks == \A evs : Log!MostRecentlyStarted(evs) = MostRecentlyStarted(evs)
  BY DEF Log!MostRecentlyStarted, MostRecentlyStarted, Log!ActiveSince, ActiveSince, Log!Min, Min

\* A cursor, a snapshot and an imported event are the same to both.
LEMMA SameImports ==
    /\ Log!Cursor = Cursor /\ Log!NoCursor = NoCursor
    /\ Log!Unavailable = Unavailable
    /\ \A id, origin, observation, item :
          Log!ImportEvent(id, origin, observation, item) = ImportEvent(id, origin, observation, item)
    /\ \A S : Log!Cardinality(S) = Cardinality(S)
<1>1. Log!NoCursor = NoCursor /\ Log!Unavailable = Unavailable
  BY DEF Log!NoCursor, NoCursor, Log!Unavailable, Unavailable
<1>2. \A id, origin, observation, item :
          Log!ImportEvent(id, origin, observation, item) = ImportEvent(id, origin, observation, item)
  BY DEF Log!ImportEvent, ImportEvent, Log!NoEvent, NoEvent
<1>3. \A S : Log!Cardinality(S) = Cardinality(S)
  BY DEF Log!Cardinality, Cardinality
<1>4. \A S : Log!IsFiniteSet(S) <=> IsFiniteSet(S)
  BY DEF Log!IsFiniteSet, IsFiniteSet
<1>5. Log!Item = Item /\ \A item : Log!QualityMatches(item) <=> QualityMatches(item)
  BY DEF Log!Item, Item, Log!Qualities, Qualities, Log!QualityMatches, QualityMatches
<1>6. Log!Snapshots = Snapshots
  BY <1>3, <1>4, <1>5 DEF Log!Snapshots, Snapshots
<1>7. Log!Cursor = Cursor
  BY <1>6 DEF Log!Cursor, Cursor
<1> QED
  BY <1>1, <1>2, <1>3, <1>7

\* An event that a batch recorded is fit for its place in the log.
LEMMA RecordedIsAdmissible ==
    ASSUME NEW evs \in Seq(Event), Sound(evs, cursor), NEW i \in 1..Len(evs), ~ IsImport(evs[i])
    PROVE  Log!Admissible(SubSeq(evs, 1, i - 1), evs[i])
<1> DEFINE before == SubSeq(evs, 1, i - 1)
           e == evs[i]
<1>1. Len(evs) \in Nat /\ DOMAIN evs = 1..Len(evs) /\ i \in DOMAIN evs /\ e \in Event
  BY LenProperties, ElementOfSeq
<1>2. DOMAIN before = 1..(i - 1) /\ \A j \in 1..(i - 1) : before[j] = evs[j]
  <2>1. i - 1 \in 0..Len(evs)
    BY <1>1
  <2>2. /\ before \in Seq(Event) /\ Len(before) = i - 1
        /\ \A j \in 1..(i - 1) : before[j] = evs[j]
    BY <2>1, Prefix
  <2> QED
    BY <2>2, LenProperties
<1> HIDE DEF before, e
<1>3. \A j \in 1..(i - 1) : j \in DOMAIN evs /\ j < i /\ evs[j].id = j
  BY <1>1 DEF Sound, Orderly
<1>4. e.id = i /\ e.parent < i /\ (e.parentTask # NoTask => e.task # NoTask)
  BY <1>1 DEF Sound, Orderly, e
<1>5. e.id \notin Ids(before)
  BY <1>2, <1>3, <1>4 DEF Ids
<1>6. e.parent # NoEvent => e.parent \in Ids(before)
  <2>1. e.parent # NoEvent => e.parent \in 1..(i - 1)
    BY <1>1, <1>4 DEF Event, NoEvent
  <2> QED
    BY <1>2, <1>3, <2>1 DEF Ids
<1>7. e.source = "otlp" /\ e.span # NoSpan => e.span \notin SpansIn(before)
  BY <1>1, <1>2, <1>3 DEF Sound, SpansOnce, SpansIn, e
<1>8. cursor # NoCursor => e.item.native = NoCount
  BY <1>1 DEF Sound, ImportsDecode, Metered, e
<1>9. e.inherits => e.task = MostRecentlyStarted(before)
  BY <1>1 DEF Sound, Attributed, before, e
<1>10. ~ IsImport(e)
  BY DEF e
<1>11. Log!Admissible(before, e)
  BY <1>4, <1>5, <1>6, <1>7, <1>8, <1>9, <1>10, SameEvents, SameTasks, SameImports
     DEF Log!Admissible, Log!NoEvent, NoEvent
<1> QED
  BY <1>11 DEF before, e

\* A write is the log's write, or the run's end.
LEMMA StoreRefines ==
    ASSUME Kept, NEW newStatus, NEW newEvents, NEW newCursor, Store(newStatus, newEvents, newCursor)
    PROVE  \/ status' = newStatus /\ events' = newEvents /\ cursor' = newCursor
           \/ Log!Drop
  BY SameImports DEF Store, Log!Drop, Log!Kept, Kept

\* A batch that is committed is one Record of the log, unless it recorded nothing.
LEMMA CommitRefines ==
    ASSUME Shape, Core, NEW c \in Clients, Commit(c)
    PROVE  Log!Record \/ Log!Drop \/ UNCHANGED <<status, events, cursor>>
<1>1. /\ batch.client = c
      /\ UNCHANGED <<status, events, cursor>> \/ Store(status, batch.candidate, cursor)
  BY DEF Commit, run
<1>2. Kept /\ Sound(batch.candidate, cursor) /\ Continues(batch.candidate, events)
  BY <1>1, OpenBatch
<1>3. /\ batch.candidate \in Seq(Event)
      /\ Len(batch.candidate) \in Nat /\ Len(events) \in Nat
  BY LenProperties DEF Shape, Batch
<1>4. CASE status' = status /\ events' = batch.candidate /\ cursor' = cursor
  <2>1. ASSUME NEW i \in (Len(events) + 1)..Len(events')
        PROVE  Log!Admissible(SubSeq(events', 1, i - 1), events'[i])
    <3>1. i \in 1..Len(batch.candidate) /\ ~ IsImport(batch.candidate[i])
      BY <1>2, <1>3, <1>4, <2>1 DEF Continues
    <3> QED
      BY <1>2, <1>3, <1>4, <3>1, RecordedIsAdmissible
  <2>2. Len(events) <= Len(events') /\ \A i \in 1..Len(events) : events'[i] = events[i]
    BY <1>2, <1>4 DEF Continues
  <2> QED
    BY <1>2, <1>4, <2>1, <2>2 DEF Log!Record, Log!Kept, Log!Added, Kept
<1> QED
  BY <1>1, <1>2, <1>4, StoreRefines

\* An accepted snapshot is one Import of the log.
LEMMA ImportRefines ==
    ASSUME Shape, Core, NEW origin \in Origins, NEW revision \in Revisions, NEW expected,
           NEW snapshot \in Snapshots, ImportUsage(origin, revision, expected, snapshot)
    PROVE  Log!Import \/ Log!Drop
<1> DEFINE bound == [origin |-> origin, revision |-> revision, snapshot |-> snapshot]
<1>1. /\ Kept /\ revision # cursor.revision
      /\ cursor # NoCursor => cursor.origin = origin
      /\ ~ Metered(events)
      /\ Cardinality(ObservationsIn(events) \cup DOMAIN snapshot) <= MaximumObservations
  BY DEF ImportUsage
<1>2. PICK additions \in Additions(events, snapshot) :
          Store(status, Imported(events, origin, snapshot, additions), bound)
  BY DEF ImportUsage
<1> DEFINE new == Imported(events, origin, snapshot, additions)
           n == Len(events)
<1>3. ImportOf(events, cursor, origin, snapshot, additions, new)
  BY <1>1, UsageIsImport
<1>4. bound \in Cursor /\ bound.origin = origin /\ bound.revision = revision
      /\ bound.snapshot = snapshot
  BY DEF Cursor
<1> HIDE DEF new, bound
<1>5. new \in Seq(Event) /\ Len(new) = n + Len(additions) /\ Sound(new, bound)
  BY <1>3, ImportSeq, ImportSound DEF bound
<1>6. n \in Nat /\ Len(additions) \in Nat /\ DOMAIN new = 1..Len(new)
  BY <1>3, <1>5, ImportPlaces, LenProperties
<1>7. ASSUME NEW i \in 1..n
      PROVE  new[i] = IF IsImport(events[i])
                      THEN [events[i] EXCEPT !.item = Log!Shown(snapshot, events[i].observation)]
                      ELSE events[i]
  <2>1. /\ new[i] = [events[i] EXCEPT !.item = new[i].item]
        /\ ~ IsImport(events[i]) => new[i] = events[i]
        /\ IsImport(events[i]) =>
              new[i].item = IF events[i].observation \in DOMAIN snapshot
                            THEN snapshot[events[i].observation] ELSE Unavailable
    BY <1>3, ImportKeeps DEF Amended
  <2>2. IsImport(events[i]) => new[i].item = Log!Shown(snapshot, events[i].observation)
    BY <2>1, SameImports DEF Log!Shown
  <2> QED
    BY <2>1, <2>2
<1>8. ASSUME NEW i \in (n + 1)..Len(new)
      PROVE  /\ new[i].observation \in DOMAIN snapshot \ ObservationsIn(events)
             /\ new[i].id \notin Ids(SubSeq(new, 1, i - 1))
             /\ new[i] = ImportEvent(new[i].id, origin, new[i].observation,
                                     snapshot[new[i].observation])
             /\ \A j \in (n + 1)..Len(new) : j < i => new[j].observation < new[i].observation
  <2>1. \A k \in (n + 1)..Len(new) : k - n \in 1..Len(additions) /\ n + (k - n) = k
    BY <1>5, <1>6
  <2>2. \A k \in (n + 1)..Len(new) :
            new[k].observation = additions[k - n] /\ new[k].id = k
    <3>1. \A k \in 1..Len(additions) :
            new[n + k].observation = additions[k] /\ new[n + k].id = n + k
      BY <1>3, ImportAdds
    <3> QED
      BY <2>1, <3>1
  <2>3. new[i] = ImportEvent(i, origin, additions[i - n], snapshot[additions[i - n]])
    <3>1. \A k \in 1..Len(additions) :
            new[n + k] = ImportEvent(n + k, origin, additions[k], snapshot[additions[k]])
      BY <1>3, ImportedFields DEF ImportOf
    <3> QED
      BY <2>1, <3>1
  <2>4. additions[i - n] \in DOMAIN snapshot \ ObservationsIn(events)
    BY <2>1, AdditionsFacts
  <2>5. i \notin Ids(SubSeq(new, 1, i - 1))
    <3> DEFINE before == SubSeq(new, 1, i - 1)
    <3>1. i - 1 \in 0..Len(new) /\ \A j \in 1..(i - 1) : j \in DOMAIN new /\ j # i
      BY <1>5, <1>6
    <3>2. DOMAIN before = 1..(i - 1) /\ \A j \in 1..(i - 1) : before[j] = new[j]
      <4>1. /\ before \in Seq(Event) /\ Len(before) = i - 1
            /\ \A j \in 1..(i - 1) : before[j] = new[j]
        BY <1>5, <3>1, Prefix
      <4> QED
        BY <4>1, LenProperties
    <3> HIDE DEF before
    <3>3. i \notin Ids(before)
      BY <1>5, <3>1, <3>2 DEF Sound, Orderly, Ids
    <3> QED
      BY <3>3 DEF before
  <2>6. ASSUME NEW j \in (n + 1)..Len(new), j < i
        PROVE  additions[j - n] < additions[i - n]
    <3>1. DOMAIN additions = 1..Len(additions)
      BY AdditionsFacts
    <3>2. j - n < i - n /\ j - n \in DOMAIN additions /\ i - n \in DOMAIN additions
      BY <1>6, <2>1, <2>6, <3>1
    <3> QED
      BY <3>2 DEF Additions
  <2> QED
    BY <2>2, <2>3, <2>4, <2>5, <2>6
<1>9. /\ DOMAIN snapshot \subseteq ObservationsIn(new)
      /\ Cardinality(Imports(new)) <= MaximumObservations
  <2>1. bound # NoCursor
    BY DEF bound, NoCursor
  <2> QED
    BY <1>3, <1>5, <2>1, ImportObservesOnce DEF Sound, ImportsDecode
<1>10. CASE status' = status /\ events' = new /\ cursor' = bound
  <2>1. n <= Len(new)
    BY <1>5, <1>6
  <2>2. Log!Import
    BY <1>1, <1>4, <1>7, <1>8, <1>9, <1>10, <2>1, SameEvents, SameImports
       DEF Log!Import, Log!Kept, Log!Added, Kept
  <2> QED
    BY <2>2
<1> QED
  BY <1>1, <1>2, <1>10, StoreRefines DEF new

\* What requests do among themselves is not seen in the log.
LEMMA StutterRefines ==
    ASSUME UNCHANGED <<status, events, cursor>>
    PROVE  [Log!Next]_(Log!logVars)
  BY DEF Log!logVars

\* Every step of the recorder is a step of the log or a stutter.
LEMMA LogStep == IInv /\ [Next]_vars => [Log!Next]_(Log!logVars)
<1> SUFFICES ASSUME IInv, [Next]_vars
             PROVE  [Log!Next]_(Log!logVars)
  OBVIOUS
<1>1. Shape /\ Core
  BY DEF IInv
<1>2. CASE StartRun
  BY <1>2 DEF StartRun, Log!Open, Log!Next
<1>3. CASE CompleteRun
  <2>1. Log!Complete \/ Log!Drop
    <3>1. Kept /\ Store("ended", events, cursor)
      BY <1>3 DEF CompleteRun
    <3>2. status' = "ended" /\ events' = events /\ cursor' = cursor => Log!Complete
      BY <3>1 DEF Log!Complete, Log!Kept, Kept
    <3> QED
      BY <3>1, <3>2, StoreRefines
  <2> QED
    BY <2>1 DEF Log!Next
<1>4. CASE Prune
  <2>1. Log!Drop
    BY <1>4, SameImports DEF Prune, Log!Drop, Log!Kept
  <2> QED
    BY <2>1 DEF Log!Next
<1>5. ASSUME NEW c \in Clients, Commit(c)
      PROVE  [Log!Next]_(Log!logVars)
  <2>1. Log!Record \/ Log!Drop \/ UNCHANGED <<status, events, cursor>>
    BY <1>1, <1>5, CommitRefines
  <2> QED
    BY <2>1, StutterRefines DEF Log!Next
<1>6. ASSUME NEW origin \in Origins, NEW revision \in Revisions, NEW expected,
             NEW snapshot \in Snapshots, ImportUsage(origin, revision, expected, snapshot)
      PROVE  [Log!Next]_(Log!logVars)
  <2>1. Log!Import \/ Log!Drop
    BY <1>1, <1>6, ImportRefines
  <2> QED
    BY <2>1 DEF Log!Next
<1>7. ASSUME NEW c \in Clients, ClientStep(c), ~ Commit(c)
      PROVE  UNCHANGED <<status, events, cursor>>
  BY <1>7 DEF ClientStep, PostEvent, Export, StartSubtask, CompleteCurrentTask,
              AssignCurrentChatTurn, AboutCurrentTask, Submit, Begin, RunMissing,
              SkipDuplicate, AppendEvent, Abort, Answer, run
<1>8. CASE Crash \/ UNCHANGED vars
  BY <1>8, StutterRefines DEF Crash, run, vars
<1> QED
  BY <1>2, <1>3, <1>4, <1>5, <1>6, <1>7, <1>8, StutterRefines DEF Next

\* Every behaviour of the recorder, with the loops, retries, conflicts, crashes and
\* removals inside it, is one of the log: an accepted request takes effect at one
\* instant and as a whole, on the run as it is at that instant; a recorded event was
\* fit for its place then; and an import replaces what the one before said.
THEOREM RecorderImplementsLog == Spec => LogSpec
<1>1. Init => Log!Init
  BY SameImports DEF Init, Log!Init
<1> QED
  BY <1>1, Inductive, LogStep, PTL DEF Spec, LogSpec, Log!Spec
=============================================================================
