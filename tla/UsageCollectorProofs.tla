------------------------- MODULE UsageCollectorProofs -------------------------
(***************************************************************************)
(* What TLAPS proves of the usage collector for every number of windows,   *)
(* sessions, runs, snapshots and requests under way.                       *)
(***************************************************************************)
EXTENDS UsageCollector, TLAPS

USE NonesAssumption, RevisionsAssumption, RecordedAssumption, BoundsAssumption

-----------------------------------------------------------------------------
(* The inductive invariant.                                                *)

SourcesExist == \A s \in Sources : Latest(s) >= 1

\* The revision of a run is that of a snapshot its session has had.
CursorsAreOfSources ==
    \A r \in Runs :
        IF boundTo[r] = NoSource THEN version[r] = 0
                                 ELSE version[r] \in 1..Latest(boundTo[r])

\* What a window expects to replace is no newer than what it is about to read.
ReadsAreOld == \A w \in Windows : sync[w] = "reading" => expected[w] <= Latest(source[w])

PutsAreOrdered ==
    \A p \in puts : p.expected <= p.version /\ p.version \in 1..Latest(p.source)

\* How far the selection, the collection and the stop command can be.
Phases ==
    \A w \in Windows :
        /\ selection[w] \in {"choosing", "creating"} => target[w] = NoRun
        /\ selection[w] = "creating" => source[w] # NoSource
        /\ target[w] # NoRun => source[w] # NoSource
        /\ target[w] # NoRun /\ ~ closed[w] => ~ cancelled[w]
        /\ owned[w] \/ stopping[w] => target[w] # NoRun
        /\ accepted[w] => sync[w] = "putting"

\* A window that owns its run made it, and nobody else completes that run.
Ownership ==
    /\ \A w \in Windows :
          /\ owned[w] => status[target[w]] = "open" /\ creator[target[w]] = w
          /\ \A r \in finishing[w] :
                /\ status[r] # "none" /\ creator[r] = w
                /\ owned[w] => target[w] # r
    /\ \A p \in puts : p.owned =>
          /\ status[p.run] # "none" /\ creator[p.run] = p.window
          /\ owned[p.window] /\ target[p.window] = p.run => source[p.window] = p.source

\* The recorder holds a snapshot once a window has reason to think so.
ImportsArrived ==
    \A w \in Windows :
        /\ accepted[w] => version[target[w]] > 0
        /\ target[w] # NoRun /\ sync[w] = "none" /\ ~ failed[w] => version[target[w]] > 0
        /\ \A r \in finishing[w] : version[r] > 0

\* A request that would change nothing if it landed now, in a session whose contents
\* do not come back: it repeats the snapshot of its run or expects an older one.
Harmless(p) ==
    /\ boundTo[p.run] = p.source
    /\ p.version = version[p.run] \/ p.expected < version[p.run]

\* Requests of the collection that made their run can land late.  They are no
\* newer than the one its window waits for, and harmless once that is accepted.
LatePuts ==
    \A p \in puts : p.owned /\ NeverReturned(p.source) =>
        /\ \A w \in Windows : owned[w] /\ target[w] = p.run =>
              /\ \A q \in puts : Waiting(w, q) => p.version <= q.version
              /\ accepted[w] \/ (sync[w] = "none" /\ ~ failed[w]) => Harmless(p)
        /\ \A w \in Windows : p.run \in finishing[w] => Harmless(p)
        /\ status[p.run] = "ended" => Harmless(p)

IInv ==
    /\ TypeOK
    /\ SourcesExist
    /\ CursorsAreOfSources
    /\ ReadsAreOld
    /\ PutsAreOrdered
    /\ Phases
    /\ Ownership
    /\ ImportsArrived
    /\ LatePuts
    /\ CompletedRunIsImported

-----------------------------------------------------------------------------
(* Steps.                                                                  *)

\* The steps of one window that are not steps of an import.
Commands(w) ==
    \/ Enable(w)
    \/ GiveUp(w)
    \/ StopSelection(w)
    \/ StopCollection(w)
    \/ Stopped(w)
    \/ Dispose(w)

Choices(w) ==
    \/ \E s \in Sources : ChooseNewRun(w, s)
    \/ \E s \in Sources, r \in Runs : ChooseRun(w, s, r)
    \/ \E r \in Runs : Created(w, r)
    \/ CreateFails(w)

LEMMA NextCases ==
    ASSUME Next
    PROVE  \/ \E s \in Sources : WriteSource(s)
           \/ \E w \in Windows :
                 \/ Commands(w)
                 \/ Choices(w)
                 \/ \E r \in Runs : CompleteRun(w, r)
                 \/ BeginSync(w)
                 \/ ReadCursor(w)
                 \/ SendSnapshot(w)
                 \/ Imported(w)
                 \/ SyncFails(w)
           \/ \E put \in puts : Import(put)
           \/ \E put \in puts : Refuse(put)
  BY DEF Next, WindowStep, SyncStep, Tick, ImportCommand, Commands, Choices

RecorderTypes ==
    /\ status \in [Runs -> {"none", "open", "ended"}]
    /\ creator \in [Runs -> Windows \cup {NoWindow}]
    /\ boundTo \in [Runs -> Sources \cup {NoSource}]
    /\ version \in [Runs -> Nat]

LEMMA CreateTypes ==
    ASSUME RecorderTypes, NEW w \in Windows, NEW r \in Runs, Create(w, r)
    PROVE  RecorderTypes'
  BY DEF RecorderTypes, Create

\* A session has one snapshot at first.
LEMMA FirstSnapshots ==
    ASSUME Init
    PROVE  content \in [Sources -> Seq(Revisions)] /\ \A s \in Sources : Latest(s) = 1
<1>1. <<First>> \in Seq(Revisions) /\ Len(<<First>>) = 1
  OBVIOUS
<1>2. ASSUME NEW s \in Sources
      PROVE  content[s] \in Seq(Revisions) /\ Len(content[s]) = 1
  BY <1>1 DEF Init
<1>3. content \in [Sources -> Seq(Revisions)]
  BY <1>2 DEF Init
<1> QED
  BY <1>2, <1>3 DEF Latest

LEMMA TypeInit == Init => TypeOK
<1> SUFFICES ASSUME Init
             PROVE  TypeOK
  OBVIOUS
<1>1. content \in [Sources -> Seq(Revisions)]
  BY FirstSnapshots
<1>2. status \in [Runs -> {"none", "open", "ended"}] /\ sent \in [Windows -> 0..MaxPuts]
  BY DEF Init
<1> QED
  BY <1>1, <1>2 DEF Init, TypeOK

\* Phases tells that a window which is creating a run has selected a session.
LEMMA TypeStep ==
    ASSUME TypeOK, Phases, [Next]_vars
    PROVE  TypeOK'
<1> USE DEF TypeOK
<1>1. CASE UNCHANGED vars
  BY <1>1 DEF vars, recorder, selecting, collection, importing, stop
<1>2. ASSUME NEW s \in Sources, WriteSource(s)
      PROVE  TypeOK'
  <2>1. PICK revision \in Revisions : content' = [content EXCEPT ![s] = Append(@, revision)]
    BY <1>2 DEF WriteSource
  <2>2. content' \in [Sources -> Seq(Revisions)]
    BY <2>1
  <2> QED
    BY <1>2, <2>2 DEF WriteSource, recorder, selecting, collection, importing, stop
<1>3. ASSUME NEW w \in Windows, Commands(w)
      PROVE  TypeOK'
  <2>1. CASE Enable(w)
    BY <2>1 DEF Enable, Put1, recorder, collection, importing, stop
  <2>2. CASE GiveUp(w)
    BY <2>2 DEF GiveUp, Put1, recorder, collection, importing, stop
  <2>3. CASE StopSelection(w)
    BY <2>3 DEF StopSelection, Put1, recorder, collection, importing, stop
  <2>4. CASE StopCollection(w)
    BY <2>4 DEF StopCollection, Put1, recorder, importing
  <2>5. CASE Stopped(w)
    <3>1. finishing' \in [Windows -> SUBSET Runs] /\ stopping' \in [Windows -> BOOLEAN]
      <4>1. ASSUME NEW R \in SUBSET Runs, Conclude(w, R)
            PROVE  finishing' \in [Windows -> SUBSET Runs] /\ stopping' \in [Windows -> BOOLEAN]
        BY <4>1 DEF Conclude, Put1
      <4>2. owned[w] => target[w] \in Runs
        BY DEF Phases
      <4> QED
        BY <2>5, <4>1, <4>2 DEF Stopped
    <3> QED
      BY <2>5, <3>1 DEF Stopped, Discard, Put1, recorder, selecting, importing
  <2>6. CASE Dispose(w)
    BY <2>6 DEF Dispose, Discard, EndSync, Put1, recorder
  <2> QED
    BY <1>3, <2>1, <2>2, <2>3, <2>4, <2>5, <2>6 DEF Commands
<1>4. ASSUME NEW w \in Windows, Choices(w)
      PROVE  TypeOK'
  <2>1. ASSUME NEW s \in Sources, ChooseNewRun(w, s)
        PROVE  TypeOK'
    BY <2>1 DEF ChooseNewRun, Put1, recorder, importing, stop, Phases
  <2>2. ASSUME NEW s \in Sources, NEW r \in Runs, ChooseRun(w, s, r)
        PROVE  TypeOK'
    BY <2>2 DEF ChooseRun, Bind, Put1, recorder, stop
  <2>3. ASSUME NEW r \in Runs, Created(w, r)
        PROVE  TypeOK'
    <3>1. RecorderTypes'
      BY <2>3, CreateTypes DEF Created, RecorderTypes
    <3>2. CASE cancelled[w]
      BY <2>3, <3>1, <3>2 DEF Created, RecorderTypes, Put1, collection, stop
    <3>3. CASE ~ cancelled[w]
      <4>1. Bind(w, source[w], r, TRUE) /\ source[w] \in Sources
        BY <2>3, <3>3 DEF Created, Phases
      <4> QED
        BY <2>3, <3>1, <4>1 DEF Created, RecorderTypes, Bind, Put1, stop
    <3> QED
      BY <3>2, <3>3
  <2>4. CASE CreateFails(w)
    <3>1. RecorderTypes
      BY DEF RecorderTypes
    <3>2. CASE UNCHANGED recorder
      BY <2>4, <3>2 DEF CreateFails, recorder, Put1, collection, importing, stop
    <3>3. ASSUME NEW r \in Runs, Create(w, r)
          PROVE  RecorderTypes'
      BY <3>1, <3>3, CreateTypes
    <3>4. CASE RecorderTypes'
      BY <2>4, <3>4 DEF CreateFails, RecorderTypes, Put1, collection, importing, stop
    <3> QED
      BY <2>4, <3>2, <3>3, <3>4 DEF CreateFails
  <2> QED
    BY <1>4, <2>1, <2>2, <2>3, <2>4 DEF Choices
<1>5. ASSUME NEW w \in Windows, NEW r \in Runs, CompleteRun(w, r)
      PROVE  TypeOK'
  <2>1. status' \in [Runs -> {"none", "open", "ended"}]
    BY <1>5 DEF CompleteRun
  <2>2. finishing' \in [Windows -> SUBSET Runs]
    BY <1>5 DEF CompleteRun, Put1
  <2> QED
    BY <1>5, <2>1, <2>2 DEF CompleteRun, selecting, collection, importing
<1>6. ASSUME NEW w \in Windows, BeginSync(w)
      PROVE  TypeOK'
  BY <1>6 DEF BeginSync, Put1, recorder, selecting, collection, stop, Phases
<1>7. ASSUME NEW w \in Windows, ReadCursor(w)
      PROVE  TypeOK'
  BY <1>7 DEF ReadCursor, Put1, recorder, selecting, collection, stop
<1>8. ASSUME NEW w \in Windows, SendSnapshot(w)
      PROVE  TypeOK'
  <2>1. PICK id \in 1..MaxPuts :
           /\ sent' = Put1(sent, w, id)
           /\ puts' = puts \cup {Request(w, id, expected[w], Latest(source[w]))}
    BY <1>8 DEF SendSnapshot
  <2>2. source[w] \in Sources /\ target[w] \in Runs /\ Latest(source[w]) \in Nat
    BY <1>8 DEF SendSnapshot, Latest
  <2>3. puts' \subseteq Put
    BY <2>1, <2>2 DEF Request, Put
  <2> QED
    BY <1>8, <2>1, <2>2, <2>3 DEF SendSnapshot, Put1, recorder, selecting, collection, stop
<1>9. ASSUME NEW w \in Windows, Imported(w)
      PROVE  TypeOK'
  BY <1>9 DEF Imported, EndSync, Put1, recorder, selecting, collection, stop
<1>10. ASSUME NEW w \in Windows, SyncFails(w)
       PROVE  TypeOK'
  BY <1>10 DEF SyncFails, EndSync, Put1, recorder, selecting, collection, stop
<1>11. ASSUME NEW put \in puts, Import(put)
       PROVE  TypeOK'
  <2>1. Stored(put) \in Nat
    BY DEF Stored, Put
  <2> QED
    BY <1>11, <2>1 DEF Import, Answer, Put, Put1, selecting, collection, stop
<1>12. ASSUME NEW put \in puts, Refuse(put)
       PROVE  TypeOK'
  BY <1>12 DEF Refuse, recorder, selecting, collection, importing, stop
<1> QED
  BY <1>1, <1>2, <1>3, <1>4, <1>5, <1>6, <1>7, <1>8, <1>9, <1>10, <1>11, <1>12, NextCases

-----------------------------------------------------------------------------
(* The recorder: what replaces a snapshot, and how sessions go on.         *)

RecorderSteps ==
    \/ UNCHANGED recorder
    \/ \E w \in Windows, r \in Runs : Create(w, r)
    \/ \E w \in Windows, r \in Runs : CompleteRun(w, r)
    \/ \E put \in puts : Import(put)

LEMMA RecorderCases ==
    ASSUME [Next]_vars
    PROVE  RecorderSteps
<1>1. CASE UNCHANGED vars
  BY <1>1 DEF RecorderSteps, vars
<1>2. ASSUME NEW s \in Sources, WriteSource(s)
      PROVE  RecorderSteps
  BY <1>2 DEF RecorderSteps, WriteSource
<1>3. ASSUME NEW w \in Windows, Commands(w)
      PROVE  RecorderSteps
  BY <1>3 DEF RecorderSteps, Commands, Enable, GiveUp, StopSelection, StopCollection, Stopped,
              Dispose
<1>4. ASSUME NEW w \in Windows, Choices(w)
      PROVE  RecorderSteps
  BY <1>4 DEF RecorderSteps, Choices, ChooseNewRun, ChooseRun, Created, CreateFails
<1>5. ASSUME NEW w \in Windows,
             BeginSync(w) \/ ReadCursor(w) \/ SendSnapshot(w) \/ Imported(w) \/ SyncFails(w)
      PROVE  RecorderSteps
  BY <1>5 DEF RecorderSteps, BeginSync, ReadCursor, SendSnapshot, Imported, SyncFails
<1>6. ASSUME NEW put \in puts, Refuse(put)
      PROVE  RecorderSteps
  BY <1>6 DEF RecorderSteps, Refuse
<1> QED
  BY <1>1, <1>2, <1>3, <1>4, <1>5, <1>6, NextCases DEF RecorderSteps

\* A request carries what a window of this model may send.
LEMMA PutTypes ==
    ASSUME TypeOK, NEW put \in puts
    PROVE  /\ put.window \in Windows /\ put.run \in Runs /\ put.source \in Sources
           /\ put.expected \in Nat /\ put.version \in Nat
  BY DEF TypeOK, Put

\* A run stays with its session.
LEMMA RecorderMoves ==
    ASSUME TypeOK, CursorsAreOfSources, PutsAreOrdered, [Next]_vars, NEW r \in Runs
    PROVE  /\ version[r] > 0 => version'[r] > 0
           /\ boundTo[r] # NoSource => boundTo'[r] = boundTo[r]
           /\ status[r] # "none" => status'[r] # "none" /\ creator'[r] = creator[r]
<1> DEFINE Moves == /\ version[r] > 0 => version'[r] > 0
                    /\ boundTo[r] # NoSource => boundTo'[r] = boundTo[r]
                    /\ status[r] # "none" => status'[r] # "none" /\ creator'[r] = creator[r]
<1> USE DEF TypeOK
<1>1. CASE UNCHANGED recorder
  BY <1>1 DEF recorder
<1>2. ASSUME NEW w \in Windows, NEW q \in Runs, Create(w, q)
      PROVE  Moves
  BY <1>2 DEF Create
<1>3. ASSUME NEW w \in Windows, NEW q \in Runs, CompleteRun(w, q)
      PROVE  Moves
  BY <1>3 DEF CompleteRun
<1>4. ASSUME NEW put \in puts, Import(put)
      PROVE  Moves
  BY <1>4, PutTypes DEF Import, Accepts, Stored, PutsAreOrdered
<1> QED
  BY <1>1, <1>2, <1>3, <1>4, RecorderCases DEF RecorderSteps

\* A request is accepted over a newer snapshot only if that is content which the
\* session had before the request was sent.
LEMMA RecorderReturns ==
    ASSUME TypeOK, CursorsAreOfSources, PutsAreOrdered, [Next]_vars, NEW r \in Runs,
           version'[r] < version[r]
    PROVE  \E v \in 1..version'[r] :
              Revision(boundTo[r], v) = Revision(boundTo[r], version[r])
<1> USE DEF TypeOK
<1>1. PICK put \in puts : Import(put) /\ put.run = r
  <2>1. ASSUME version' = version
        PROVE  FALSE
    BY <2>1
  <2>2. PICK put \in puts : Import(put)
    BY <2>1, RecorderCases DEF RecorderSteps, recorder, Create, CompleteRun
  <2>3. version' = [version EXCEPT ![put.run] = Stored(put)]
    BY <2>2 DEF Import
  <2>4. put.run = r
    BY <2>3
  <2> QED
    BY <2>2, <2>4
<1>2. /\ put.source \in Sources /\ put.expected \in Nat /\ put.version \in Nat
      /\ version[r] \in Nat
  BY PutTypes
<1>3. version'[r] = Stored(put) /\ Accepts(put)
  BY <1>1 DEF Import
<1>4. boundTo[r] = put.source /\ version[r] \in 1..Latest(put.source)
  BY <1>1, <1>2, <1>3 DEF Accepts, Stored, CursorsAreOfSources
<1>5. version'[r] = put.version /\ ~ Holds(put, put.version)
  BY <1>1, <1>2, <1>3 DEF Stored
<1>6. Revision(put.source, put.expected) = Revision(put.source, version[r])
  BY <1>1, <1>3, <1>5 DEF Accepts, Holds
<1>7. Revision(put.source, version[r]) \in Revisions
  BY <1>2, <1>4 DEF Revision, Latest
<1>8. put.expected # 0
  BY <1>6, <1>7 DEF Revision
<1>9. put.expected \in 1..version'[r]
  BY <1>1, <1>2, <1>5, <1>8 DEF PutsAreOrdered
<1> QED
  BY <1>4, <1>6, <1>9

LEMMA RecorderAdvances ==
    ASSUME TypeOK, CursorsAreOfSources, PutsAreOrdered, [Next]_vars, NEW r \in Runs,
           NeverReturned(boundTo[r]), boundTo[r] # NoSource, version'[r] \in Nat
    PROVE  version'[r] >= version[r]
<1> SUFFICES ASSUME version'[r] < version[r]
             PROVE  FALSE
  BY DEF TypeOK
<1>1. PICK v \in 1..version'[r] : Revision(boundTo[r], v) = Revision(boundTo[r], version[r])
  BY RecorderReturns
<1>2. version[r] \in 1..Latest(boundTo[r]) /\ Latest(boundTo[r]) \in Nat
  BY DEF CursorsAreOfSources, TypeOK, Latest
<1>3. v \in 1..Latest(boundTo[r])
  BY <1>2
<1>4. v = version[r]
  BY <1>1, <1>2, <1>3 DEF NeverReturned
<1> QED
  BY <1>4, <1>2

LEMMA ContentMoves ==
    ASSUME TypeOK, [Next]_vars, NEW s \in Sources
    PROVE  /\ Latest(s) \in Nat /\ Latest(s)' \in Nat /\ Latest(s)' >= Latest(s)
           /\ \A v \in 1..Latest(s) : content'[s][v] = content[s][v]
<1> DEFINE Grows == /\ Latest(s) \in Nat /\ Latest(s)' \in Nat /\ Latest(s)' >= Latest(s)
                    /\ \A v \in 1..Latest(s) : content'[s][v] = content[s][v]
<1>0. Latest(s) \in Nat /\ content[s] \in Seq(Revisions)
  BY DEF Latest, TypeOK
<1>1. CASE UNCHANGED vars
  BY <1>0, <1>1 DEF vars, Latest
<1>2. ASSUME NEW q \in Sources, WriteSource(q)
      PROVE  Grows
  <2>1. PICK revision \in Revisions : content' = [content EXCEPT ![q] = Append(@, revision)]
    BY <1>2 DEF WriteSource
  <2>2. CASE q = s
    <3>1. content'[s] = Append(content[s], revision)
      BY <2>1, <2>2 DEF TypeOK
    <3> QED
      BY <1>0, <3>1 DEF Latest
  <2>3. CASE q # s
    BY <1>0, <2>1, <2>3 DEF Latest, TypeOK
  <2> QED
    BY <2>2, <2>3
<1>3. ASSUME NEW w \in Windows, Commands(w)
      PROVE  content' = content
  BY <1>3 DEF Commands, Enable, GiveUp, StopSelection, StopCollection, Stopped, Dispose
<1>4. ASSUME NEW w \in Windows, Choices(w)
      PROVE  content' = content
  BY <1>4 DEF Choices, ChooseNewRun, ChooseRun, Created, CreateFails
<1>5. ASSUME NEW w \in Windows,
             BeginSync(w) \/ ReadCursor(w) \/ SendSnapshot(w) \/ Imported(w) \/ SyncFails(w)
      PROVE  content' = content
  BY <1>5 DEF BeginSync, ReadCursor, SendSnapshot, Imported, SyncFails
<1>6. ASSUME NEW w \in Windows, NEW r \in Runs, CompleteRun(w, r)
      PROVE  content' = content
  BY <1>6 DEF CompleteRun
<1>7. ASSUME NEW put \in puts, Import(put) \/ Refuse(put)
      PROVE  content' = content
  BY <1>7 DEF Import, Refuse
<1>8. CASE content' = content
  BY <1>0, <1>8 DEF Latest
<1> QED
  BY <1>1, <1>2, <1>3, <1>4, <1>5, <1>6, <1>7, <1>8, NextCases

\* A session that has had a content twice has had it for good.
LEMMA ReturnsStay ==
    ASSUME TypeOK, [Next]_vars, NEW s \in Sources, NeverReturned(s)'
    PROVE  NeverReturned(s)
<1> SUFFICES ASSUME NEW u \in 1..Latest(s), NEW v \in 1..Latest(s),
                    Revision(s, u) = Revision(s, v)
             PROVE  u = v
  BY DEF NeverReturned
<1>1. u \in 1..Latest(s)' /\ v \in 1..Latest(s)' /\ u # 0 /\ v # 0
  BY ContentMoves
<1>2. Revision(s, u)' = Revision(s, v)'
  BY <1>1, ContentMoves DEF Revision
<1> QED
  BY <1>1, <1>2 DEF NeverReturned

LEMMA PutsCases ==
    ASSUME [Next]_vars
    PROVE  puts' \subseteq puts \/ \E w \in Windows : SendSnapshot(w)
<1>1. CASE UNCHANGED vars
  BY <1>1 DEF vars
<1>2. ASSUME NEW s \in Sources, WriteSource(s)
      PROVE  puts' \subseteq puts
  BY <1>2 DEF WriteSource
<1>3. ASSUME NEW w \in Windows, Commands(w)
      PROVE  puts' \subseteq puts
  BY <1>3 DEF Commands, Enable, GiveUp, StopSelection, StopCollection, Stopped, Dispose
<1>4. ASSUME NEW w \in Windows, Choices(w)
      PROVE  puts' \subseteq puts
  BY <1>4 DEF Choices, ChooseNewRun, ChooseRun, Created, CreateFails
<1>5. ASSUME NEW w \in Windows, BeginSync(w) \/ ReadCursor(w) \/ Imported(w) \/ SyncFails(w)
      PROVE  puts' \subseteq puts
  BY <1>5 DEF BeginSync, ReadCursor, Imported, SyncFails
<1>6. ASSUME NEW w \in Windows, NEW r \in Runs, CompleteRun(w, r)
      PROVE  puts' \subseteq puts
  BY <1>6 DEF CompleteRun
<1>7. ASSUME NEW put \in puts, Import(put) \/ Refuse(put)
      PROVE  puts' \subseteq puts
  BY <1>7 DEF Import, Refuse
<1> QED
  BY <1>1, <1>2, <1>3, <1>4, <1>5, <1>6, <1>7, NextCases

-----------------------------------------------------------------------------
(* A window's own variables change by its own steps, but for the answer to *)
(* its request.                                                            *)

Stays(v) ==
    /\ selection'[v] = selection[v] /\ cancelled'[v] = cancelled[v]
    /\ source'[v] = source[v] /\ target'[v] = target[v]
    /\ owned'[v] = owned[v] /\ closed'[v] = closed[v] /\ failed'[v] = failed[v]
    /\ sync'[v] = sync[v] /\ expected'[v] = expected[v] /\ sent'[v] = sent[v]
    /\ finishing'[v] = finishing[v] /\ stopping'[v] = stopping[v]

AnswerStays(v) ==
    \/ accepted'[v] = accepted[v]
    \/ \E put \in puts : Import(put) /\ Waiting(v, put)

Acts(v) ==
    \/ Commands(v)
    \/ Choices(v)
    \/ \E r \in Runs : CompleteRun(v, r)
    \/ BeginSync(v)
    \/ ReadCursor(v)
    \/ SendSnapshot(v)
    \/ Imported(v)
    \/ SyncFails(v)

LEMMA ActsAlone ==
    ASSUME TypeOK, NEW v \in Windows, NEW w \in Windows, v # w, Acts(w)
    PROVE  Stays(v) /\ accepted'[v] = accepted[v]
<1> USE DEF TypeOK, Stays
<1>1. CASE Commands(w)
  BY <1>1 DEF Commands, Enable, GiveUp, StopSelection, StopCollection, Stopped, Dispose, Discard,
              Conclude, EndSync, Put1, selecting, collection, importing, stop
<1>2. CASE Choices(w)
  <2>1. ASSUME NEW s \in Sources, ChooseNewRun(w, s)
        PROVE  Stays(v) /\ accepted'[v] = accepted[v]
    BY <2>1 DEF ChooseNewRun, Put1, importing, stop
  <2>2. ASSUME NEW s \in Sources, NEW r \in Runs, ChooseRun(w, s, r)
        PROVE  Stays(v) /\ accepted'[v] = accepted[v]
    BY <2>2 DEF ChooseRun, Bind, Put1, stop
  <2>3. ASSUME NEW r \in Runs, Created(w, r)
        PROVE  Stays(v) /\ accepted'[v] = accepted[v]
    <3>1. CASE cancelled[w]
      BY <2>3, <3>1 DEF Created, Put1, collection, stop
    <3>2. CASE ~ cancelled[w]
      BY <2>3, <3>2 DEF Created, Bind, Put1, stop
    <3> QED
      BY <3>1, <3>2
  <2>4. CASE CreateFails(w)
    BY <2>4 DEF CreateFails, Put1, collection, importing, stop
  <2> QED
    BY <1>2, <2>1, <2>2, <2>3, <2>4 DEF Choices
<1>3. ASSUME NEW r \in Runs, CompleteRun(w, r)
      PROVE  Stays(v) /\ accepted'[v] = accepted[v]
  BY <1>3 DEF CompleteRun, Put1, selecting, collection, importing
<1>4. CASE BeginSync(w)
  BY <1>4 DEF BeginSync, Put1, selecting, collection, stop
<1>5. CASE ReadCursor(w)
  BY <1>5 DEF ReadCursor, Put1, selecting, collection, stop
<1>6. CASE SendSnapshot(w)
  BY <1>6 DEF SendSnapshot, Put1, selecting, collection, stop
<1>7. CASE Imported(w)
  BY <1>7 DEF Imported, EndSync, Put1, selecting, collection, stop
<1>8. CASE SyncFails(w)
  BY <1>8 DEF SyncFails, EndSync, Put1, selecting, collection, stop
<1> QED
  BY <1>1, <1>2, <1>3, <1>4, <1>5, <1>6, <1>7, <1>8 DEF Acts

LEMMA WindowCases ==
    ASSUME TypeOK, [Next]_vars, NEW v \in Windows
    PROVE  Acts(v) \/ (Stays(v) /\ AnswerStays(v))
<1>1. CASE UNCHANGED vars
  BY <1>1 DEF vars, selecting, collection, importing, stop, Stays, AnswerStays
<1>2. ASSUME NEW s \in Sources, WriteSource(s)
      PROVE  Stays(v) /\ AnswerStays(v)
  BY <1>2 DEF WriteSource, selecting, collection, importing, stop, Stays, AnswerStays
<1>3. ASSUME NEW w \in Windows, Acts(w)
      PROVE  Acts(v) \/ (Stays(v) /\ AnswerStays(v))
  BY <1>3, ActsAlone DEF AnswerStays
<1>4. ASSUME NEW put \in puts, Import(put)
      PROVE  Stays(v) /\ AnswerStays(v)
  <2>1. Stays(v)
    BY <1>4 DEF Import, selecting, collection, stop, Stays
  <2>2. accepted'[v] = accepted[v] \/ Waiting(v, put)
    BY <1>4, PutTypes DEF Import, Answer, Put1, TypeOK
  <2> QED
    BY <1>4, <2>1, <2>2 DEF AnswerStays
<1>5. ASSUME NEW put \in puts, Refuse(put)
      PROVE  Stays(v) /\ AnswerStays(v)
  BY <1>5 DEF Refuse, selecting, collection, importing, stop, Stays, AnswerStays
<1> QED
  BY <1>1, <1>2, <1>3, <1>4, <1>5, NextCases DEF Acts

-----------------------------------------------------------------------------
(* The parts of the invariant that are about snapshots and requests.       *)

LEMMA SourcesStep ==
    ASSUME TypeOK, TypeOK', SourcesExist, [Next]_vars
    PROVE  SourcesExist'
<1> SUFFICES ASSUME NEW s \in Sources
             PROVE  Latest(s)' >= 1
  BY DEF SourcesExist
<1> QED
  BY ContentMoves DEF SourcesExist, TypeOK

LEMMA CursorsStep ==
    ASSUME TypeOK, TypeOK', CursorsAreOfSources, PutsAreOrdered, [Next]_vars
    PROVE  CursorsAreOfSources'
<1> SUFFICES ASSUME NEW r \in Runs
             PROVE  IF boundTo'[r] = NoSource THEN version'[r] = 0
                                             ELSE version'[r] \in 1..Latest(boundTo[r])'
  BY DEF CursorsAreOfSources
<1>1. CASE boundTo'[r] = boundTo[r] /\ version'[r] = version[r]
  BY <1>1, ContentMoves DEF CursorsAreOfSources, TypeOK
<1>2. CASE UNCHANGED recorder
  BY <1>1, <1>2 DEF recorder
<1>3. ASSUME NEW w \in Windows, NEW q \in Runs, Create(w, q)
      PROVE  boundTo'[r] = boundTo[r] /\ version'[r] = version[r]
  BY <1>3 DEF Create
<1>4. ASSUME NEW w \in Windows, NEW q \in Runs, CompleteRun(w, q)
      PROVE  boundTo'[r] = boundTo[r] /\ version'[r] = version[r]
  BY <1>4 DEF CompleteRun
<1>5. ASSUME NEW put \in puts, Import(put), put.run = r
      PROVE  IF boundTo'[r] = NoSource THEN version'[r] = 0
                                      ELSE version'[r] \in 1..Latest(boundTo[r])'
  <2>1. boundTo'[r] = put.source /\ version'[r] = Stored(put) /\ Accepts(put)
    BY <1>5 DEF Import, TypeOK
  <2>2. put.version \in 1..Latest(put.source) /\ put.source \in Sources
    BY PutTypes DEF PutsAreOrdered
  <2>3. version'[r] \in 1..Latest(put.source)
    BY <1>5, <2>1, <2>2 DEF Stored, Accepts, CursorsAreOfSources, TypeOK
  <2>4. Latest(put.source) \in Nat /\ Latest(put.source)' \in Nat
        /\ Latest(put.source)' >= Latest(put.source)
    BY <2>2, ContentMoves
  <2>5. version'[r] \in 1..Latest(put.source)'
    BY <2>3, <2>4
  <2>6. Latest(boundTo[r])' = Latest(put.source)'
    BY <2>1 DEF Latest
  <2> QED
    BY <2>1, <2>2, <2>5, <2>6
<1>6. ASSUME NEW put \in puts, Import(put), put.run # r
      PROVE  boundTo'[r] = boundTo[r] /\ version'[r] = version[r]
  BY <1>6 DEF Import, TypeOK
<1> QED
  BY <1>1, <1>2, <1>3, <1>4, <1>5, <1>6, RecorderCases DEF RecorderSteps

LEMMA ReadsStep ==
    ASSUME TypeOK, TypeOK', Phases, CursorsAreOfSources, ReadsAreOld, [Next]_vars
    PROVE  ReadsAreOld'
<1> SUFFICES ASSUME NEW v \in Windows, sync'[v] = "reading"
             PROVE  expected'[v] <= Latest(source[v])'
  BY DEF ReadsAreOld
<1>1. CASE sync[v] = "reading" /\ expected'[v] = expected[v] /\ source'[v] = source[v]
  <2>1. source[v] \in Sources /\ expected[v] \in Nat
    BY <1>1 DEF TypeOK
  <2>2. expected[v] <= Latest(source[v])
    BY <1>1 DEF ReadsAreOld
  <2> QED
    BY <1>1, <2>1, <2>2, ContentMoves DEF TypeOK
<1>2. CASE Stays(v)
  BY <1>1, <1>2 DEF Stays
<1>3. CASE ReadCursor(v)
  <2>1. target[v] \in Runs /\ source[v] \in Sources
    BY <1>3 DEF ReadCursor, TypeOK
  <2>2. expected'[v] = version[target[v]] /\ source'[v] = source[v] /\ content' = content
    BY <1>3 DEF ReadCursor, Put1, collection, TypeOK
  <2>3. boundTo[target[v]] \in {NoSource, source[v]}
    BY <1>3 DEF ReadCursor
  <2>4. Latest(source[v]) \in Nat
    BY <2>1, ContentMoves
  <2>5. version[target[v]] <= Latest(source[v])
    BY <2>1, <2>3, <2>4 DEF CursorsAreOfSources
  <2>6. Latest(source[v])' = Latest(source[v])
    BY <2>2 DEF Latest
  <2> QED
    BY <2>2, <2>5, <2>6
<1>4. CASE Commands(v)
  BY <1>1, <1>4 DEF Commands, Enable, GiveUp, StopSelection, StopCollection, Stopped, Dispose,
                    EndSync, Put1, collection, importing, TypeOK
<1>5. CASE Choices(v)
  <2>1. sync[v] = "none"
    BY <1>5 DEF Choices, ChooseNewRun, ChooseRun, Created, CreateFails, Phases, TypeOK
  <2>2. sync'[v] = sync[v] \/ sync'[v] = "cursor"
    BY <1>5 DEF Choices, ChooseNewRun, ChooseRun, Created, CreateFails, Bind, Put1, importing,
                TypeOK
  <2> QED
    BY <2>1, <2>2
<1>6. CASE BeginSync(v) \/ SendSnapshot(v) \/ Imported(v) \/ SyncFails(v)
  BY <1>6 DEF BeginSync, SendSnapshot, Imported, SyncFails, EndSync, Put1, TypeOK
<1>7. ASSUME NEW r \in Runs, CompleteRun(v, r)
      PROVE  sync[v] = "reading" /\ expected'[v] = expected[v] /\ source'[v] = source[v]
  BY <1>7 DEF CompleteRun, collection, importing
<1> QED
  BY <1>1, <1>2, <1>3, <1>4, <1>5, <1>6, <1>7, WindowCases DEF Acts

LEMMA PutsStep ==
    ASSUME TypeOK, TypeOK', ReadsAreOld, SourcesExist, PutsAreOrdered, [Next]_vars
    PROVE  PutsAreOrdered'
<1> SUFFICES ASSUME NEW p \in puts'
             PROVE  p.expected <= p.version /\ p.version \in 1..Latest(p.source)'
  BY DEF PutsAreOrdered
<1>1. CASE p \in puts
  BY <1>1, PutTypes, ContentMoves DEF PutsAreOrdered, TypeOK
<1>2. ASSUME NEW w \in Windows, SendSnapshot(w), p \notin puts
      PROVE  p.expected <= p.version /\ p.version \in 1..Latest(p.source)'
  <2>1. PICK id \in 1..MaxPuts :
           p = Request(w, id, expected[w], Latest(source[w])) /\ content' = content
    BY <1>2 DEF SendSnapshot
  <2>2. p.expected = expected[w] /\ p.version = Latest(source[w]) /\ p.source = source[w]
    BY <2>1 DEF Request
  <2>3. sync[w] = "reading" /\ source[w] \in Sources
    BY <1>2 DEF SendSnapshot, TypeOK
  <2>4. Latest(p.source) = Latest(source[w]) /\ Latest(p.source)' = Latest(source[w])
    BY <2>1, <2>2 DEF Latest
  <2>5. Latest(source[w]) \in Nat /\ Latest(source[w]) >= 1 /\ expected[w] <= Latest(source[w])
    BY <2>3, ContentMoves DEF ReadsAreOld, SourcesExist
  <2> QED
    BY <2>2, <2>4, <2>5
<1> QED
  BY <1>1, <1>2, PutsCases

-----------------------------------------------------------------------------
(* The parts that are about a window and the runs it made.                 *)

LEMMA PhasesStep ==
    ASSUME TypeOK, Phases, [Next]_vars
    PROVE  Phases'
<1> DEFINE P(v) ==
        /\ selection'[v] \in {"choosing", "creating"} => target'[v] = NoRun
        /\ selection'[v] = "creating" => source'[v] # NoSource
        /\ target'[v] # NoRun => source'[v] # NoSource
        /\ target'[v] # NoRun /\ ~ closed'[v] => ~ cancelled'[v]
        /\ owned'[v] \/ stopping'[v] => target'[v] # NoRun
        /\ accepted'[v] => sync'[v] = "putting"
<1> SUFFICES ASSUME NEW v \in Windows
             PROVE  P(v)
  BY DEF Phases
<1>1. CASE Stays(v) /\ AnswerStays(v)
  BY <1>1 DEF Stays, AnswerStays, Waiting, Phases
<1>2. CASE Commands(v)
  <2>1. CASE Enable(v)
    BY <2>1 DEF Enable, Put1, collection, importing, stop, TypeOK, Phases
  <2>2. CASE GiveUp(v)
    BY <2>2 DEF GiveUp, Put1, collection, importing, stop, TypeOK, Phases
  <2>3. CASE StopSelection(v)
    BY <2>3 DEF StopSelection, Put1, collection, importing, stop, TypeOK, Phases
  <2>4. CASE StopCollection(v)
    BY <2>4 DEF StopCollection, Put1, importing, TypeOK, Phases
  <2>5. CASE Stopped(v)
    BY <2>5 DEF Stopped, Discard, Conclude, Put1, selecting, importing, TypeOK, Phases
  <2>6. CASE Dispose(v)
    BY <2>6 DEF Dispose, Discard, EndSync, Put1, TypeOK
  <2> QED
    BY <1>2, <2>1, <2>2, <2>3, <2>4, <2>5, <2>6 DEF Commands
<1>3. CASE Choices(v)
  <2>1. ASSUME NEW s \in Sources, ChooseNewRun(v, s)
        PROVE  P(v)
    BY <2>1 DEF ChooseNewRun, Put1, importing, stop, TypeOK, Phases
  <2>2. ASSUME NEW s \in Sources, NEW r \in Runs, ChooseRun(v, s, r)
        PROVE  P(v)
    BY <2>2 DEF ChooseRun, Bind, Put1, stop, TypeOK, Phases
  <2>3. ASSUME NEW r \in Runs, Created(v, r)
        PROVE  P(v)
    <3>1. CASE cancelled[v]
      BY <2>3, <3>1 DEF Created, Put1, collection, stop, TypeOK, Phases
    <3>2. CASE ~ cancelled[v]
      BY <2>3, <3>2 DEF Created, Bind, Put1, stop, TypeOK, Phases
    <3> QED
      BY <3>1, <3>2
  <2>4. CASE CreateFails(v)
    BY <2>4 DEF CreateFails, Put1, collection, importing, stop, TypeOK, Phases
  <2> QED
    BY <1>3, <2>1, <2>2, <2>3, <2>4 DEF Choices
<1>4. ASSUME NEW r \in Runs, CompleteRun(v, r)
      PROVE  P(v)
  BY <1>4 DEF CompleteRun, selecting, collection, importing, Phases
<1>5. CASE BeginSync(v) \/ ReadCursor(v) \/ SendSnapshot(v)
  BY <1>5 DEF BeginSync, ReadCursor, SendSnapshot, Put1, selecting, collection, stop, TypeOK, Phases
<1>6. CASE Imported(v) \/ SyncFails(v)
  BY <1>6 DEF Imported, SyncFails, EndSync, Put1, selecting, collection, stop, TypeOK, Phases
<1> HIDE DEF P
<1> QED
  BY <1>1, <1>2, <1>3, <1>4, <1>5, <1>6, WindowCases DEF Acts

\* A window comes to own a run only by making it.
LEMMA OwnedCases ==
    ASSUME TypeOK, Phases, [Next]_vars, NEW v \in Windows, owned'[v]
    PROVE  \/ owned[v] /\ target'[v] = target[v] /\ source'[v] = source[v]
           \/ \E r \in Runs : Created(v, r) /\ target'[v] = r
<1>1. CASE Stays(v)
  BY <1>1 DEF Stays
<1>2. CASE Commands(v)
  BY <1>2 DEF Commands, Enable, GiveUp, StopSelection, StopCollection, Stopped, Dispose, Discard,
              Put1, collection, TypeOK
<1>3. CASE Choices(v)
  <2>1. ASSUME NEW s \in Sources, ChooseNewRun(v, s)
        PROVE  FALSE
    BY <2>1 DEF ChooseNewRun, Phases
  <2>2. ASSUME NEW s \in Sources, NEW r \in Runs, ChooseRun(v, s, r)
        PROVE  FALSE
    BY <2>2 DEF ChooseRun, Bind, Put1, TypeOK
  <2>3. ASSUME NEW r \in Runs, Created(v, r)
        PROVE  target'[v] = r
    <3>1. CASE cancelled[v]
      BY <2>3, <3>1 DEF Created, collection, Phases
    <3>2. CASE ~ cancelled[v]
      BY <2>3, <3>2 DEF Created, Bind, Put1, TypeOK
    <3> QED
      BY <3>1, <3>2
  <2>4. CASE CreateFails(v)
    BY <2>4 DEF CreateFails, collection
  <2> QED
    BY <1>3, <2>1, <2>2, <2>3, <2>4 DEF Choices
<1>4. ASSUME NEW r \in Runs, CompleteRun(v, r)
      PROVE  owned[v] /\ target'[v] = target[v] /\ source'[v] = source[v]
  BY <1>4 DEF CompleteRun, collection
<1>5. CASE BeginSync(v) \/ ReadCursor(v) \/ SendSnapshot(v) \/ Imported(v) \/ SyncFails(v)
  BY <1>5 DEF BeginSync, ReadCursor, SendSnapshot, Imported, SyncFails, collection
<1> QED
  BY <1>1, <1>2, <1>3, <1>4, <1>5, WindowCases DEF Acts

\* A window completes a run it owned and whose last import succeeded.
LEMMA FinishingCases ==
    ASSUME TypeOK, [Next]_vars, NEW v \in Windows, NEW r \in finishing'[v]
    PROVE  \/ r \in finishing[v]
           \/ Stopped(v) /\ owned[v] /\ ~ failed[v] /\ r = target[v]
<1>1. CASE Stays(v)
  BY <1>1 DEF Stays
<1>2. CASE Enable(v) \/ GiveUp(v) \/ StopSelection(v) \/ StopCollection(v)
  BY <1>2 DEF Enable, GiveUp, StopSelection, StopCollection, Put1, stop, TypeOK
<1>3. CASE Stopped(v)
  BY <1>3 DEF Stopped, Conclude, Put1, TypeOK
<1>4. CASE Dispose(v)
  BY <1>4 DEF Dispose, Put1, TypeOK
<1>5. CASE Choices(v)
  BY <1>5 DEF Choices, ChooseNewRun, ChooseRun, Created, CreateFails, Put1, stop, TypeOK
<1>6. ASSUME NEW q \in Runs, CompleteRun(v, q)
      PROVE  r \in finishing[v]
  BY <1>6 DEF CompleteRun, Put1, TypeOK
<1>7. CASE BeginSync(v) \/ ReadCursor(v) \/ SendSnapshot(v) \/ Imported(v) \/ SyncFails(v)
  BY <1>7 DEF BeginSync, ReadCursor, SendSnapshot, Imported, SyncFails, Put1, stop,
              TypeOK
<1> QED
  BY <1>1, <1>2, <1>3, <1>4, <1>5, <1>6, <1>7, WindowCases DEF Acts, Commands

\* A new run is nobody's yet.
LEMMA CreatedRun ==
    ASSUME TypeOK, NEW v \in Windows, NEW r \in Runs, Created(v, r)
    PROVE  status[r] = "none" /\ status'[r] = "open" /\ creator'[r] = v
  BY DEF Created, Create, TypeOK

\* Only the window that completes a run changes the status of one there is.
LEMMA StatusCases ==
    ASSUME TypeOK, [Next]_vars, NEW r \in Runs, status[r] # "none"
    PROVE  \/ status'[r] = status[r]
           \/ \E w \in Windows : r \in finishing[w] /\ CompleteRun(w, r)
<1>1. CASE UNCHANGED recorder
  BY <1>1 DEF recorder
<1>2. ASSUME NEW w \in Windows, NEW q \in Runs, Create(w, q)
      PROVE  status'[r] = status[r]
  BY <1>2 DEF Create, TypeOK
<1>3. ASSUME NEW w \in Windows, NEW q \in Runs, CompleteRun(w, q), q # r
      PROVE  status'[r] = status[r]
  BY <1>3 DEF CompleteRun, TypeOK
<1>4. ASSUME NEW w \in Windows, CompleteRun(w, r)
      PROVE  r \in finishing[w]
  BY <1>4 DEF CompleteRun
<1>5. ASSUME NEW put \in puts, Import(put)
      PROVE  status'[r] = status[r]
  BY <1>5 DEF Import
<1> QED
  BY <1>1, <1>2, <1>3, <1>4, <1>5, RecorderCases DEF RecorderSteps

LEMMA StatusFromNone ==
    ASSUME TypeOK, Ownership, [Next]_vars, NEW r \in Runs, status'[r] = "ended"
    PROVE  status[r] # "none"
<1>1. CASE UNCHANGED recorder
  BY <1>1 DEF recorder
<1>2. ASSUME NEW w \in Windows, NEW q \in Runs, Create(w, q)
      PROVE  status[r] # "none"
  BY <1>2 DEF Create, TypeOK
<1>3. ASSUME NEW w \in Windows, NEW q \in Runs, CompleteRun(w, q)
      PROVE  status[r] # "none"
  BY <1>3 DEF CompleteRun, Ownership, TypeOK
<1>4. ASSUME NEW put \in puts, Import(put)
      PROVE  status[r] # "none"
  BY <1>4 DEF Import
<1> QED
  BY <1>1, <1>2, <1>3, <1>4, RecorderCases DEF RecorderSteps

\* What a request that is sent now says.
LEMMA SentPut ==
    ASSUME TypeOK, [Next]_vars, NEW p \in puts', p \notin puts
    PROVE  \E w \in Windows :
              /\ SendSnapshot(w)
              /\ p.window = w /\ p.run = target[w] /\ p.source = source[w] /\ p.owned = owned[w]
              /\ p.version = Latest(source[w])
<1>1. PICK w \in Windows : SendSnapshot(w)
  BY PutsCases
<1>2. PICK id \in 1..MaxPuts : p = Request(w, id, expected[w], Latest(source[w]))
  BY <1>1 DEF SendSnapshot
<1> QED
  BY <1>1, <1>2 DEF Request

LEMMA SendSteps ==
    ASSUME TypeOK, NEW w \in Windows, SendSnapshot(w)
    PROVE  /\ UNCHANGED <<recorder, collection, failed, stop, accepted>>
           /\ sync[w] = "reading" /\ sync'[w] = "putting" /\ ~ closed[w]
           /\ target[w] \in Runs /\ source[w] \in Sources
           /\ Latest(source[w]) \in Nat
<1>1. target[w] \in Runs /\ source[w] \in Sources
  BY DEF SendSnapshot, TypeOK
<1>2. Latest(source[w]) \in Nat
  BY <1>1 DEF Latest, TypeOK
<1> QED
  BY <1>1, <1>2 DEF SendSnapshot, Put1, TypeOK

LEMMA OwnershipStep ==
    ASSUME TypeOK, TypeOK', CursorsAreOfSources, PutsAreOrdered, Phases, Ownership, [Next]_vars
    PROVE  Ownership'
<1>1. ASSUME NEW v \in Windows, owned'[v]
      PROVE  status'[target'[v]] = "open" /\ creator'[target'[v]] = v
  <2>1. CASE owned[v] /\ target'[v] = target[v]
    <3>1. /\ target[v] \in Runs /\ status[target[v]] = "open" /\ creator[target[v]] = v
      BY <2>1 DEF Ownership, Phases, TypeOK
    <3>2. ASSUME NEW w \in Windows, target[v] \in finishing[w]
          PROVE  FALSE
      BY <2>1, <3>1, <3>2 DEF Ownership
    <3>3. status'[target[v]] = "open"
      BY <3>1, <3>2, StatusCases
    <3> QED
      BY <2>1, <3>1, <3>3, RecorderMoves
  <2> QED
    BY <1>1, <2>1, OwnedCases, CreatedRun
<1>2. ASSUME NEW v \in Windows, NEW r \in finishing'[v]
      PROVE  /\ r \in Runs /\ status[r] # "none" /\ creator[r] = v
             /\ owned'[v] => target'[v] # r
  <2>1. CASE r \in finishing[v]
    <3>1. r \in Runs /\ status[r] # "none" /\ creator[r] = v /\ (owned[v] => target[v] # r)
      BY <2>1 DEF Ownership, TypeOK
    <3> QED
      BY <3>1, OwnedCases, CreatedRun
  <2>2. CASE Stopped(v) /\ owned[v] /\ r = target[v]
    <3>1. ~ owned'[v]
      BY <2>2 DEF Stopped, Discard, Put1, TypeOK
    <3> QED
      BY <2>2, <3>1 DEF Ownership, Phases, TypeOK
  <2> QED
    BY <2>1, <2>2, FinishingCases
<1>3. ASSUME NEW v \in Windows, NEW r \in finishing'[v]
      PROVE  status'[r] # "none" /\ creator'[r] = v
  BY <1>2, <1>3, RecorderMoves
<1>4. ASSUME NEW p \in puts', p.owned
      PROVE  /\ status'[p.run] # "none" /\ creator'[p.run] = p.window
             /\ owned'[p.window] /\ target'[p.window] = p.run => source'[p.window] = p.source
  <2>1. CASE p \in puts
    <3>1. /\ p.window \in Windows /\ p.run \in Runs
          /\ status[p.run] # "none" /\ creator[p.run] = p.window
          /\ owned[p.window] /\ target[p.window] = p.run => source[p.window] = p.source
      BY <1>4, <2>1, PutTypes DEF Ownership
    <3> QED
      BY <3>1, RecorderMoves, OwnedCases, CreatedRun
  <2>2. CASE p \notin puts
    BY <1>4, <2>2, SentPut, SendSteps DEF Ownership, recorder, collection
  <2> QED
    BY <2>1, <2>2
<1> QED
  BY <1>1, <1>2, <1>3, <1>4 DEF Ownership

\* A collection without an error and without an import under way has had its
\* last import accepted, or was so before.
LEMMA QuietCases ==
    ASSUME TypeOK, Phases, [Next]_vars, NEW v \in Windows,
           target'[v] # NoRun, sync'[v] = "none", ~ failed'[v]
    PROVE  /\ target'[v] = target[v] /\ owned'[v] = owned[v]
           /\ accepted[v] \/ (sync[v] = "none" /\ ~ failed[v])
<1>1. CASE Stays(v)
  BY <1>1 DEF Stays
<1>2. CASE Commands(v)
  BY <1>2 DEF Commands, Enable, GiveUp, StopSelection, StopCollection, Stopped, Dispose, Discard,
              Put1, collection, importing, TypeOK
<1>3. CASE Choices(v)
  <2>1. target[v] = NoRun
    BY <1>3 DEF Choices, ChooseNewRun, ChooseRun, Created, CreateFails, Phases
  <2>2. CASE target'[v] = target[v]
    BY <2>1, <2>2
  <2>3. ASSUME NEW s \in Sources, NEW r \in Runs, ChooseRun(v, s, r)
        PROVE  sync'[v] = "cursor"
    BY <2>3 DEF ChooseRun, Bind, Put1, TypeOK
  <2>4. ASSUME NEW r \in Runs, Created(v, r)
        PROVE  sync'[v] = "cursor" \/ target'[v] = target[v]
    <3>1. CASE cancelled[v]
      BY <2>4, <3>1 DEF Created, collection
    <3>2. CASE ~ cancelled[v]
      BY <2>4, <3>2 DEF Created, Bind, Put1, TypeOK
    <3> QED
      BY <3>1, <3>2
  <2> QED
    BY <1>3, <2>2, <2>3, <2>4 DEF Choices, ChooseNewRun, CreateFails, collection
<1>4. ASSUME NEW r \in Runs, CompleteRun(v, r)
      PROVE  /\ target'[v] = target[v] /\ owned'[v] = owned[v]
             /\ sync[v] = "none" /\ ~ failed[v]
  BY <1>4 DEF CompleteRun, collection, importing
<1>5. CASE BeginSync(v) \/ ReadCursor(v) \/ SendSnapshot(v) \/ SyncFails(v)
  BY <1>5 DEF BeginSync, ReadCursor, SendSnapshot, SyncFails, EndSync, Put1, TypeOK
<1>6. CASE Imported(v)
  BY <1>6 DEF Imported, collection
<1> QED
  BY <1>1, <1>2, <1>3, <1>4, <1>5, <1>6, WindowCases DEF Acts

\* The answer to a request comes when the request is handled.
LEMMA AcceptedCases ==
    ASSUME TypeOK, Phases, [Next]_vars, NEW v \in Windows, accepted'[v]
    PROVE  /\ target'[v] = target[v] /\ owned'[v] = owned[v]
           /\ accepted[v] \/ \E put \in puts : Import(put) /\ Waiting(v, put)
<1>1. CASE Stays(v) /\ AnswerStays(v)
  BY <1>1 DEF Stays, AnswerStays
<1>2. CASE Commands(v)
  BY <1>2 DEF Commands, Enable, GiveUp, StopSelection, StopCollection, Stopped, Dispose, EndSync,
              Put1, collection, importing, TypeOK, Phases
<1>3. CASE Choices(v)
  <2>1. ~ accepted[v]
    BY <1>3 DEF Choices, ChooseNewRun, ChooseRun, Created, CreateFails, Phases, TypeOK
  <2>2. accepted'[v] = accepted[v]
    BY <1>3 DEF Choices, ChooseNewRun, ChooseRun, Created, CreateFails, importing
  <2> QED
    BY <2>1, <2>2
<1>4. ASSUME NEW r \in Runs, CompleteRun(v, r)
      PROVE  target'[v] = target[v] /\ owned'[v] = owned[v] /\ accepted[v]
  BY <1>4 DEF CompleteRun, collection, importing
<1>5. CASE BeginSync(v) \/ ReadCursor(v) \/ SendSnapshot(v)
  BY <1>5 DEF BeginSync, ReadCursor, SendSnapshot, collection
<1>6. CASE Imported(v) \/ SyncFails(v)
  BY <1>6 DEF Imported, SyncFails, EndSync, Put1, TypeOK
<1> QED
  BY <1>1, <1>2, <1>3, <1>4, <1>5, <1>6, WindowCases DEF Acts

LEMMA ImportedRun ==
    ASSUME TypeOK, NEW v \in Windows, NEW put \in puts, Import(put), Waiting(v, put)
    PROVE  /\ sync[v] = "putting" /\ put.run = target[v]
           /\ put.owned = owned[v] /\ put.source = source[v]
           /\ target[v] \in Runs /\ boundTo'[target[v]] = put.source
           /\ version'[target[v]] >= put.version
<1>1. /\ sync[v] = "putting" /\ put.run = target[v]
      /\ put.owned = owned[v] /\ put.source = source[v]
  BY DEF Waiting, Request
<1>2. put.run \in Runs /\ put.version \in Nat
  BY PutTypes
<1>3. boundTo'[put.run] = put.source /\ version'[put.run] = Stored(put)
  BY <1>2 DEF Import, TypeOK
<1>4. Stored(put) >= put.version
  BY <1>2 DEF Stored, TypeOK
<1> QED
  BY <1>1, <1>2, <1>3, <1>4

LEMMA ArrivedStep ==
    ASSUME TypeOK, TypeOK', CursorsAreOfSources, PutsAreOrdered, Phases, Ownership,
           ImportsArrived, [Next]_vars
    PROVE  ImportsArrived'
<1>1. ASSUME NEW v \in Windows, accepted'[v]
      PROVE  version'[target'[v]] > 0
  <2>1. CASE accepted[v]
    <3>1. target[v] \in Runs /\ version[target[v]] > 0
      BY <2>1 DEF ImportsArrived, Phases, TypeOK
    <3> QED
      BY <1>1, <3>1, AcceptedCases, RecorderMoves DEF TypeOK
  <2>2. ASSUME NEW put \in puts, Import(put), Waiting(v, put)
        PROVE  version'[target[v]] > 0
    <3>1. put.version > 0 /\ put.version \in Nat
      BY PutTypes DEF PutsAreOrdered
    <3>2. target[v] \in Runs /\ version'[target[v]] >= put.version
      BY <2>2, ImportedRun
    <3> QED
      BY <3>1, <3>2 DEF TypeOK
  <2> QED
    BY <1>1, <2>1, <2>2, AcceptedCases
<1>2. ASSUME NEW v \in Windows, target'[v] # NoRun, sync'[v] = "none", ~ failed'[v]
      PROVE  version'[target'[v]] > 0
  <2>1. target[v] \in Runs /\ target'[v] = target[v] /\ version[target[v]] > 0
    BY <1>2, QuietCases DEF ImportsArrived, TypeOK
  <2> QED
    BY <2>1, RecorderMoves DEF TypeOK
<1>3. ASSUME NEW v \in Windows, NEW r \in finishing'[v]
      PROVE  version'[r] > 0
  <2>1. r \in Runs
    BY DEF TypeOK
  <2>2. version[r] > 0
    <3>1. CASE r \in finishing[v]
      BY <3>1 DEF ImportsArrived
    <3>2. CASE Stopped(v) /\ owned[v] /\ ~ failed[v] /\ r = target[v]
      BY <3>2 DEF Stopped, ImportsArrived, Phases
    <3> QED
      BY <3>1, <3>2, FinishingCases
  <2> QED
    BY <2>1, <2>2, RecorderMoves DEF TypeOK
<1> QED
  BY <1>1, <1>2, <1>3 DEF ImportsArrived

LEMMA CompletedStep ==
    ASSUME TypeOK, TypeOK', CursorsAreOfSources, PutsAreOrdered, Ownership, ImportsArrived,
           CompletedRunIsImported, [Next]_vars
    PROVE  CompletedRunIsImported'
<1> SUFFICES ASSUME NEW r \in Runs, status'[r] = "ended"
             PROVE  creator'[r] # NoWindow /\ version'[r] > 0
  BY DEF CompletedRunIsImported
<1>1. status[r] # "none"
  BY StatusFromNone
<1>2. creator[r] # NoWindow /\ version[r] > 0
  <2>1. CASE status[r] = "ended"
    BY <2>1 DEF CompletedRunIsImported
  <2>2. ASSUME NEW w \in Windows, r \in finishing[w]
        PROVE  creator[r] # NoWindow /\ version[r] > 0
    BY <2>2 DEF Ownership, ImportsArrived
  <2> QED
    BY <1>1, <2>1, <2>2, StatusCases
<1> QED
  BY <1>1, <1>2, RecorderMoves DEF TypeOK

-----------------------------------------------------------------------------
(* Requests that land late.                                                *)

\* A harmless request stays harmless, whatever the recorder imports, as long as no
\* content comes back.
LEMMA HarmlessStays ==
    ASSUME TypeOK, TypeOK', CursorsAreOfSources, PutsAreOrdered, [Next]_vars,
           NEW p \in puts, Harmless(p), NeverReturned(p.source)
    PROVE  Harmless(p)'
<1>1. p.run \in Runs /\ p.expected \in Nat /\ p.version \in Nat /\ p.expected <= p.version
  BY PutTypes DEF PutsAreOrdered
<1>2. version[p.run] \in Nat /\ version'[p.run] \in Nat
  BY <1>1 DEF TypeOK
<1>3. boundTo[p.run] = p.source /\ p.source # NoSource
  BY PutTypes DEF Harmless
<1>4. version'[p.run] >= version[p.run]
  BY <1>1, <1>2, <1>3, RecorderAdvances
<1>5. boundTo'[p.run] = p.source
  BY <1>1, <1>3, RecorderMoves
<1> QED
  BY <1>1, <1>2, <1>4, <1>5 DEF Harmless

\* A window whose import is under way had the collection before this step.
LEMMA PuttingCases ==
    ASSUME TypeOK, Phases, [Next]_vars, NEW v \in Windows, owned'[v], sync'[v] = "putting"
    PROVE  /\ owned[v] /\ target'[v] = target[v]
           /\ \/ SendSnapshot(v)
              \/ sync[v] = "putting" /\ sent'[v] = sent[v] /\ source'[v] = source[v]
<1>1. CASE Stays(v)
  BY <1>1 DEF Stays
<1>2. CASE SendSnapshot(v)
  BY <1>2 DEF SendSnapshot, collection
<1>3. CASE Commands(v)
  BY <1>3 DEF Commands, Enable, GiveUp, StopSelection, StopCollection, Stopped, Dispose, Discard,
              EndSync, Put1, collection, importing, TypeOK
<1>4. CASE Choices(v)
  <2>1. sync[v] = "none"
    BY <1>4 DEF Choices, ChooseNewRun, ChooseRun, Created, CreateFails, Phases, TypeOK
  <2>2. sync'[v] = sync[v] \/ sync'[v] = "cursor"
    BY <1>4 DEF Choices, ChooseNewRun, ChooseRun, Created, CreateFails, Bind, Put1, importing,
                TypeOK
  <2> QED
    BY <2>1, <2>2
<1>5. ASSUME NEW r \in Runs, CompleteRun(v, r)
      PROVE  /\ owned[v] /\ target'[v] = target[v]
             /\ sync[v] = "putting" /\ sent'[v] = sent[v] /\ source'[v] = source[v]
  BY <1>5 DEF CompleteRun, collection, importing
<1>6. CASE BeginSync(v) \/ ReadCursor(v) \/ Imported(v) \/ SyncFails(v)
  BY <1>6 DEF BeginSync, ReadCursor, Imported, SyncFails, EndSync, Put1, TypeOK
<1> QED
  BY <1>1, <1>2, <1>3, <1>4, <1>5, <1>6, WindowCases DEF Acts

\* A window waits for the request it waited for before, or for the one it sends now.
LEMMA WaitingCases ==
    ASSUME TypeOK, Phases, [Next]_vars, NEW v \in Windows, owned'[v],
           NEW q \in puts', Waiting(v, q)'
    PROVE  /\ owned[v] /\ target'[v] = target[v]
           /\ \/ q \in puts /\ Waiting(v, q)
              \/ SendSnapshot(v) /\ q \notin puts /\ q.version = Latest(source[v])
<1>1. sync'[v] = "putting" /\ q = Request(v, sent[v], q.expected, q.version)'
  BY DEF Waiting
<1>2. CASE SendSnapshot(v)
  <2>1. PICK id \in 1..MaxPuts :
           /\ FreeId(v, id)
           /\ sent' = Put1(sent, v, id)
           /\ puts' = puts \cup {Request(v, id, expected[v], Latest(source[v]))}
    BY <1>2 DEF SendSnapshot
  <2>2. q.window = v /\ q.id = id
    BY <1>1, <2>1 DEF Request, Put1, TypeOK
  <2>3. q \notin puts
    BY <2>1, <2>2 DEF FreeId
  <2>4. q.version = Latest(source[v])
    BY <2>1, <2>3 DEF Request
  <2> QED
    BY <1>1, <1>2, <2>3, <2>4, PuttingCases
<1>3. CASE ~ SendSnapshot(v)
  <2>1. /\ owned[v] /\ target'[v] = target[v]
        /\ sync[v] = "putting" /\ sent'[v] = sent[v] /\ source'[v] = source[v]
    BY <1>1, <1>3, PuttingCases
  <2>2. Waiting(v, q)
    BY <1>1, <2>1 DEF Waiting, Request, TypeOK
  <2>3. q \in puts
    <3>1. ASSUME q \notin puts
          PROVE  FALSE
      BY <1>1, <1>3, <3>1, SentPut DEF Request
    <3> QED
      BY <3>1
  <2> QED
    BY <2>1, <2>2, <2>3
<1> QED
  BY <1>2, <1>3

\* A collection that a window starts has not had an import accepted.
LEMMA SettledCases ==
    ASSUME TypeOK, TypeOK', Phases, [Next]_vars, NEW v \in Windows, owned'[v],
           target'[v] # NoRun, accepted'[v] \/ (sync'[v] = "none" /\ ~ failed'[v])
    PROVE  /\ owned[v] /\ target'[v] = target[v]
           /\ \/ accepted[v] \/ (sync[v] = "none" /\ ~ failed[v])
              \/ \E put \in puts : Import(put) /\ Waiting(v, put)
  BY QuietCases, AcceptedCases

LEMMA LatePutsStep ==
    ASSUME TypeOK, TypeOK', CursorsAreOfSources, PutsAreOrdered, Phases, Ownership, Ownership',
           LatePuts, [Next]_vars
    PROVE  LatePuts'
<1> SUFFICES ASSUME NEW p \in puts', p.owned, NeverReturned(p.source)'
             PROVE  /\ \A w \in Windows : owned'[w] /\ target'[w] = p.run =>
                          /\ \A q \in puts' : Waiting(w, q)' => p.version <= q.version
                          /\ accepted'[w] \/ (sync'[w] = "none" /\ ~ failed'[w]) => Harmless(p)'
                    /\ \A w \in Windows : p.run \in finishing'[w] => Harmless(p)'
                    /\ status'[p.run] = "ended" => Harmless(p)'
  BY DEF LatePuts
<1>1. p.run \in Runs /\ p.source \in Sources /\ p.window \in Windows
  BY DEF TypeOK, Put
<1>2. ASSUME NEW w \in Windows, owned'[w], target'[w] = p.run,
             NEW q \in puts', Waiting(w, q)'
      PROVE  p.version <= q.version
  <2>1. owned[w] /\ target[w] = p.run
    BY <1>2, WaitingCases
  <2>2. CASE p \in puts /\ q \in puts /\ Waiting(w, q)
    <3>1. NeverReturned(p.source)
      BY <1>1, ReturnsStay
    <3> QED
      BY <2>1, <2>2, <3>1 DEF LatePuts
  <2>3. CASE p \in puts /\ SendSnapshot(w) /\ q.version = Latest(source[w])
    <3>1. p.window = w /\ p.source = source[w]
      BY <2>1, <2>3 DEF Ownership
    <3>2. p.version \in 1..Latest(p.source) /\ Latest(p.source) \in Nat
      BY <1>1, <2>3, ContentMoves DEF PutsAreOrdered
    <3> QED
      BY <2>3, <3>1, <3>2
  <2>4. CASE p \notin puts
    <3>1. PICK v \in Windows :
             /\ SendSnapshot(v)
             /\ p.window = v /\ p.run = target[v] /\ p.owned = owned[v]
             /\ p.version = Latest(source[v])
      BY <2>4, SentPut
    <3>2. v = w
      BY <2>1, <3>1 DEF Ownership
    <3>3. ~ Waiting(w, q) /\ p.version \in Nat
      BY <3>1, <3>2, SendSteps DEF Waiting
    <3>4. q.version = Latest(source[w])
      BY <1>2, <3>3, WaitingCases
    <3> QED
      BY <3>1, <3>2, <3>3, <3>4
  <2> QED
    BY <1>2, <2>2, <2>3, <2>4, WaitingCases
<1>3. CASE p \in puts
  <2>0. NeverReturned(p.source)
    BY <1>1, ReturnsStay
  <2>1. ASSUME NEW w \in Windows, owned'[w], target'[w] = p.run,
               accepted'[w] \/ (sync'[w] = "none" /\ ~ failed'[w])
        PROVE  Harmless(p)'
    <3>1. owned[w] /\ target[w] = p.run
      BY <1>1, <2>1, SettledCases
    <3>2. CASE accepted[w] \/ (sync[w] = "none" /\ ~ failed[w])
      BY <1>3, <2>0, <3>1, <3>2, HarmlessStays DEF LatePuts
    <3>3. ASSUME NEW put \in puts, Import(put), Waiting(w, put)
          PROVE  Harmless(p)'
      <4>1. version'[p.run] >= put.version /\ boundTo'[p.run] = source[w]
        BY <3>1, <3>3, ImportedRun
      <4>2. p.version <= put.version /\ p.expected <= p.version
        BY <1>3, <2>0, <3>1, <3>3 DEF LatePuts, PutsAreOrdered
      <4>3. put.version \in Nat /\ version'[p.run] \in Nat
        BY <1>1, PutTypes DEF TypeOK
      <4>4. p.window = w /\ p.source = source[w]
        BY <1>3, <3>1 DEF Ownership
      <4>5. p.version \in Nat /\ p.expected \in Nat
        BY <1>3, PutTypes
      <4> QED
        BY <4>1, <4>2, <4>3, <4>4, <4>5 DEF Harmless
    <3> QED
      BY <1>1, <2>1, <3>2, <3>3, SettledCases
  <2>2. ASSUME NEW w \in Windows, p.run \in finishing'[w]
        PROVE  Harmless(p)
    <3>1. CASE p.run \in finishing[w]
      BY <1>3, <2>0, <3>1 DEF LatePuts
    <3>2. CASE Stopped(w) /\ owned[w] /\ ~ failed[w] /\ p.run = target[w]
      BY <1>3, <2>0, <3>2 DEF LatePuts, Stopped
    <3> QED
      BY <2>2, <3>1, <3>2, FinishingCases
  <2>3. ASSUME status'[p.run] = "ended"
        PROVE  Harmless(p)
    <3>1. status[p.run] # "none"
      BY <1>1, <2>3, StatusFromNone
    <3>2. CASE status[p.run] = "ended"
      BY <1>3, <2>0, <3>2 DEF LatePuts
    <3>3. ASSUME NEW w \in Windows, p.run \in finishing[w]
          PROVE  Harmless(p)
      BY <1>3, <2>0, <3>3 DEF LatePuts
    <3> QED
      BY <1>1, <2>3, <3>1, <3>2, <3>3, StatusCases
  <2> QED
    BY <1>2, <1>3, <2>0, <2>1, <2>2, <2>3, HarmlessStays
<1>4. CASE p \notin puts
  <2>1. PICK q \in Windows :
           SendSnapshot(q) /\ p.run = target[q] /\ p.owned = owned[q]
    BY <1>4, SentPut
  <2>2. owned'[q] /\ target'[q] = p.run /\ sync[q] = "reading" /\ sync'[q] = "putting"
        /\ accepted' = accepted
    BY <2>1, SendSteps DEF collection
  <2>3. status'[p.run] = "open" /\ creator'[p.run] = q
    BY <2>2 DEF Ownership
  <2>4. ASSUME NEW w \in Windows, p.run \in finishing'[w]
        PROVE  FALSE
    BY <2>2, <2>3, <2>4 DEF Ownership
  <2>5. ASSUME NEW w \in Windows, owned'[w], target'[w] = p.run
        PROVE  ~ accepted'[w] /\ sync'[w] # "none"
    <3>1. w = q
      BY <2>3, <2>5 DEF Ownership
    <3> QED
      BY <2>2, <3>1 DEF Phases
  <2> QED
    BY <1>2, <2>3, <2>4, <2>5
<1> QED
  BY <1>3, <1>4

-----------------------------------------------------------------------------
(* The theorems.                                                           *)

LEMMA IInvInit == Init => IInv
<1> SUFFICES ASSUME Init
             PROVE  IInv
  OBVIOUS
<1>1. TypeOK
  BY TypeInit
<1>2. SourcesExist
  BY FirstSnapshots DEF SourcesExist
<1>3. CursorsAreOfSources /\ ReadsAreOld /\ PutsAreOrdered
  BY DEF Init, CursorsAreOfSources, ReadsAreOld, PutsAreOrdered
<1>4. Phases
  BY DEF Init, Phases
<1>5. Ownership /\ ImportsArrived /\ LatePuts /\ CompletedRunIsImported
  BY DEF Init, Ownership, ImportsArrived, LatePuts, CompletedRunIsImported
<1> QED
  BY <1>1, <1>2, <1>3, <1>4, <1>5 DEF IInv

LEMMA IInvStep == IInv /\ [Next]_vars => IInv'
<1> SUFFICES ASSUME IInv, [Next]_vars
             PROVE  IInv'
  OBVIOUS
<1>1. TypeOK'
  BY TypeStep DEF IInv
<1>2. SourcesExist' /\ CursorsAreOfSources'
  BY <1>1, SourcesStep, CursorsStep DEF IInv
<1>3. ReadsAreOld' /\ PutsAreOrdered'
  BY <1>1, ReadsStep, PutsStep DEF IInv
<1>4. Phases'
  BY PhasesStep DEF IInv
<1>5. Ownership'
  BY <1>1, OwnershipStep DEF IInv
<1>6. ImportsArrived' /\ CompletedRunIsImported'
  BY <1>1, ArrivedStep, CompletedStep DEF IInv
<1>7. LatePuts'
  BY <1>1, <1>5, LatePutsStep DEF IInv
<1> QED
  BY <1>1, <1>2, <1>3, <1>4, <1>5, <1>6, <1>7 DEF IInv

LEMMA Inductive == Spec => []IInv
<1> QED
  BY IInvInit, IInvStep, PTL DEF Spec

\* Every variable keeps to its type, and an import under way has a run and a
\* session.
THEOREM TypeCorrect == Spec => []TypeOK
<1>1. IInv => TypeOK
  BY DEF IInv
<1> QED
  BY <1>1, Inductive, PTL

\* Whatever order import requests of any windows land in, a run keeps to its session,
\* and goes back to an older snapshot only over content the session had before it.
THEOREM OnlyReturnsReplace == Spec => OnlyReturnsGoBack
<1>1. IInv /\ [Next]_vars =>
        [\A r \in Runs : boundTo[r] # NoSource =>
            /\ boundTo'[r] = boundTo[r]
            /\ version'[r] < version[r] =>
                  \E v \in 1..version'[r] :
                      Revision(boundTo[r], v) = Revision(boundTo[r], version[r])]_vars
  BY RecorderMoves, RecorderReturns DEF IInv
<1> QED
  BY <1>1, Inductive, PTL DEF Spec, OnlyReturnsGoBack

\* The collector completes no run but its own, and none that is empty.
THEOREM CompletionFollowsImport == Spec => []CompletedRunIsImported
<1>1. IInv => CompletedRunIsImported
  BY DEF IInv
<1> QED
  BY <1>1, Inductive, PTL

\* In a session whose contents do not come back, a request of the collection that
\* made a run cannot change what the run held when it was completed, however late
\* it lands.
THEOREM CompletionIsFinal == Spec => CompletedRunStays
<1>1. ASSUME IInv, Next, NEW put \in puts, put \notin puts', put.owned, status[put.run] = "ended",
             NeverReturned(put.source)
      PROVE  version' = version
  <2>1. CASE UNCHANGED recorder
    BY <2>1 DEF recorder
  <2>2. ASSUME NEW w \in Windows, NEW r \in Runs, Create(w, r) \/ CompleteRun(w, r)
        PROVE  version' = version
    BY <2>2 DEF Create, CompleteRun
  <2>3. ASSUME NEW p \in puts, Import(p)
        PROVE  version' = version
    <3>1. p = put
      BY <1>1, <2>3 DEF Import
    <3>2. Harmless(put) /\ Accepts(put)
      BY <1>1, <2>3, <3>1 DEF IInv, LatePuts, Import
    <3>3. /\ put.run \in Runs /\ put.source \in Sources /\ put.expected \in Nat
          /\ put.version \in Nat /\ version[put.run] \in Nat
      BY <1>1, PutTypes DEF IInv, TypeOK
    <3>4. /\ put.version \in 1..Latest(put.source) /\ put.expected <= put.version
          /\ version[put.run] \in 1..Latest(put.source)
      BY <1>1, <3>2, <3>3 DEF IInv, PutsAreOrdered, CursorsAreOfSources, Harmless
    <3>5. put.version = version[put.run]
      <4>1. CASE Holds(put, put.version)
        BY <1>1, <3>4, <4>1 DEF Holds, NeverReturned
      <4>2. CASE Holds(put, put.expected) /\ put.expected < version[put.run]
        <5>1. content[put.source] \in Seq(Revisions)
          BY <1>1, <3>3 DEF IInv, TypeOK
        <5>2. Revision(put.source, version[put.run]) \in Revisions
          BY <3>3, <3>4, <5>1 DEF Revision, Latest
        <5>3. put.expected # 0
          BY <4>2, <5>2 DEF Holds, Revision
        <5>4. put.expected \in 1..Latest(put.source)
          BY <3>3, <3>4, <5>1, <5>3 DEF Latest
        <5> QED
          BY <1>1, <3>3, <3>4, <4>2, <5>4 DEF Holds, NeverReturned
      <4> QED
        BY <3>2, <3>3, <4>1, <4>2 DEF Harmless, Accepts
    <3> QED
      BY <1>1, <2>3, <3>1, <3>3, <3>5 DEF Import, Stored, IInv, TypeOK
  <2> QED
    BY <1>1, <2>1, <2>2, <2>3, RecorderCases DEF RecorderSteps
<1>2. IInv /\ [Next]_vars =>
        [\A put \in puts \ puts' :
            /\ put.owned /\ status[put.run] = "ended"
            /\ NeverReturned(put.source)
            => version' = version]_vars
  BY <1>1
<1> QED
  BY <1>2, Inductive, PTL DEF Spec, CompletedRunStays

\* A window that was stopped or closed sends nothing until a session is selected
\* anew.
THEOREM StopIsQuiet == Spec => QuietAfterStop
<1>1. ASSUME IInv, Next, NEW put \in puts', put \notin puts
      PROVE  ~ cancelled[put.window]
  <2>1. PICK w \in Windows : SendSnapshot(w) /\ put.window = w
    BY <1>1, SentPut DEF IInv
  <2> QED
    BY <1>1, <2>1, SendSteps DEF IInv, Phases, TypeOK
<1>2. IInv /\ [Next]_vars => [\A put \in puts' \ puts : ~ cancelled[put.window]]_vars
  BY <1>1
<1> QED
  BY <1>2, Inductive, PTL DEF Spec, QuietAfterStop
=============================================================================
