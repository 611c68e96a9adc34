---------------------------- MODULE UsageCollector ----------------------------
(***************************************************************************)
(* usage-collector.cjs in several windows: a window binds a local Copilot  *)
(* session to a recorder run and imports snapshots of it every ten         *)
(* seconds, each conditional on the revision it found in the run.  Windows *)
(* may collect into the same run, and a PUT that timed out may still land. *)
(*                                                                         *)
(* A session is modelled by the revisions of its successive snapshots.  A  *)
(* revision is the digest of a snapshot's normalized content, so one that  *)
(* comes back has the revision it had before.  A version is a place in     *)
(* that history; it orders the snapshots and stands for one of them, but   *)
(* the code compares revisions only.  Version 0 is that of a run without   *)
(* imports.  Of the recorder this module keeps what ImportUsage compares;  *)
(* Recorder models the endpoint in full.                                   *)
(***************************************************************************)
EXTENDS Naturals, Sequences, FiniteSets

CONSTANTS Windows, NoWindow,
          Sources, NoSource,
          Revisions, NoRevision,
          First,              \* the revision sessions have at first: any one will do
          Runs, NoRun,
          Recorded,           \* the runs there are at first
          Creators,           \* bound of the model: windows that make new runs
          Attended,           \* bound of the model: windows whose users go on to import,
                              \* to stop and to close; the others are left alone
          MaxVersion,         \* bound of the model: versions a source can have
          MaxPuts             \* bound of the model: import requests under way

ASSUME NonesAssumption == NoWindow \notin Windows /\ NoSource \notin Sources /\ NoRun \notin Runs
ASSUME RevisionsAssumption == NoRevision \notin Revisions /\ First \in Revisions
ASSUME RecordedAssumption == Recorded \subseteq Runs
ASSUME BoundsAssumption ==
    /\ Creators \subseteq Windows /\ Attended \subseteq Windows
    /\ MaxVersion \in Nat /\ MaxPuts \in Nat

VARIABLES content,    \* the revisions each session has had, the latest last
          status,     \* of each run: "none", "open" or "ended"
          creator,    \* the window that created it for its collection
          boundTo,    \* the source its cursor names
          version,    \* the snapshot it holds, whose revision its cursor names
          puts,       \* import requests the recorder has not handled
          selection,  \* "none", "choosing", "creating"; "gone": disposed
          cancelled,  \* cancelledSelection or disposed: stop was asked for since the
                      \* last enable, or the window is gone
          source,     \* the source of the collection, or the one selected for it
          target,     \* the run of the collection, or NoRun: there is none
          owned,      \* ownedRun
          closed,     \* the collection takes no further imports on
          failed,     \* its lastError is set
          timer,      \* it polls
          sync,       \* its import: "none", "cursor", "reading" or "putting"
          expected,   \* the snapshot it found in the run, until it has sent its own
          sent,       \* the id of the request that it waits for
          accepted,   \* the recorder has answered its PUT with a success
          stopping,   \* a stop command waits for the import under way
          finishing   \* runs that stop commands are completing

recorder == <<status, creator, boundTo, version>>
selecting == <<selection, cancelled>>
collection == <<source, target, owned, closed>>
importing == <<sync, expected, sent, accepted>>
stop == <<stopping, finishing>>
vars == <<content, recorder, puts, selecting, collection, failed, timer, importing, stop>>

\* A window's requests are told apart by id: one that timed out may be repeated.
Put == [id : 1..MaxPuts, window : Windows, run : Runs, source : Sources, expected : Nat,
        version : Nat, owned : BOOLEAN]

Latest(s) == Len(content[s])

\* What the code sees of a version: the digest, or null without a cursor.
Revision(s, v) == IF v = 0 THEN NoRevision ELSE content[s][v]

Init ==
    /\ content = [s \in Sources |-> <<First>>]
    /\ status = [r \in Runs |-> IF r \in Recorded THEN "open" ELSE "none"]
    /\ creator = [r \in Runs |-> NoWindow]
    /\ boundTo = [r \in Runs |-> NoSource]
    /\ version = [r \in Runs |-> 0]
    /\ puts = {}
    /\ selection = [w \in Windows |-> "none"]
    /\ cancelled = [w \in Windows |-> FALSE]
    /\ source = [w \in Windows |-> NoSource]
    /\ target = [w \in Windows |-> NoRun]
    /\ owned = [w \in Windows |-> FALSE]
    /\ closed = [w \in Windows |-> FALSE]
    /\ failed = [w \in Windows |-> FALSE]
    /\ timer = [w \in Windows |-> FALSE]
    /\ sync = [w \in Windows |-> "none"]
    /\ expected = [w \in Windows |-> 0]
    /\ sent = [w \in Windows |-> 0]
    /\ accepted = [w \in Windows |-> FALSE]
    /\ stopping = [w \in Windows |-> FALSE]
    /\ finishing = [w \in Windows |-> {}]

Put1(f, w, value) == [f EXCEPT ![w] = value]

\* Copilot, not the collector, writes the session: it appends to logs, rewrites
\* JSON files and deletes rows of its database, so the next snapshot may be new
\* or one there was before.  A window that allows estimates where another does not
\* finds another snapshot in the same file, which is such a change as well.
WriteSource(s) ==
    /\ Latest(s) < MaxVersion
    /\ \E revision \in Revisions \ {Revision(s, Latest(s))} :
          content' = [content EXCEPT ![s] = Append(@, revision)]
    /\ UNCHANGED <<recorder, puts, selecting, collection, failed, timer, importing, stop>>

-----------------------------------------------------------------------------
(* enable: dialogs, each of which may be left, then the run, then start.   *)

Enable(w) ==
    /\ selection[w] = "none"
    /\ target[w] = NoRun
    /\ selection' = Put1(selection, w, "choosing")
    /\ cancelled' = Put1(cancelled, w, FALSE)
    /\ UNCHANGED <<content, recorder, puts, collection, failed, timer, importing, stop>>

\* A dialog is dismissed, a check fails, or stop was asked for meanwhile.
GiveUp(w) ==
    /\ selection[w] = "choosing"
    /\ selection' = Put1(selection, w, "none")
    /\ UNCHANGED <<content, recorder, puts, cancelled, collection, failed, timer, importing, stop>>

\* A new UsageCollection, whose first import start() begins at once.  The
\* messages that follow are taken as dismissed.
Bind(w, s, r, own) ==
    /\ selection' = Put1(selection, w, "none")
    /\ source' = Put1(source, w, s)
    /\ target' = Put1(target, w, r)
    /\ owned' = Put1(owned, w, own)
    /\ closed' = Put1(closed, w, FALSE)
    /\ failed' = Put1(failed, w, FALSE)
    /\ sync' = Put1(sync, w, "cursor")

ChooseRun(w, s, r) ==
    /\ selection[w] = "choosing"
    /\ ~ cancelled[w]
    /\ status[r] # "none"
    /\ Bind(w, s, r, FALSE)
    /\ UNCHANGED <<content, recorder, puts, cancelled, timer, expected, sent, accepted, stop>>

ChooseNewRun(w, s) ==
    /\ w \in Creators
    /\ selection[w] = "choosing"
    /\ ~ cancelled[w]
    /\ selection' = Put1(selection, w, "creating")
    /\ source' = Put1(source, w, s)
    /\ UNCHANGED <<content, recorder, puts, cancelled, target, owned, closed, failed, timer,
                   importing, stop>>

Create(w, r) ==
    /\ status[r] = "none"
    /\ status' = [status EXCEPT ![r] = "open"]
    /\ creator' = [creator EXCEPT ![r] = w]
    /\ UNCHANGED <<boundTo, version>>

\* Mutant of Created: stop during the request is forgotten.
CreatedAnyway(w, r) ==
    /\ selection[w] = "creating"
    /\ Create(w, r)
    /\ Bind(w, source[w], r, TRUE)
    /\ UNCHANGED <<content, puts, cancelled, timer, expected, sent, accepted, stop>>

\* The new run is bound, unless stop was asked for while it was made.
Created(w, r) ==
    /\ selection[w] = "creating"
    /\ Create(w, r)
    /\ IF cancelled[w]
       THEN /\ selection' = Put1(selection, w, "none")
            /\ UNCHANGED <<collection, failed, sync>>
       ELSE Bind(w, source[w], r, TRUE)
    /\ UNCHANGED <<content, puts, cancelled, timer, expected, sent, accepted, stop>>

\* The answer is lost or an error; a run may have been made.
CreateFails(w) ==
    /\ selection[w] = "creating"
    /\ \/ \E r \in Runs : Create(w, r)
       \/ UNCHANGED recorder
    /\ selection' = Put1(selection, w, "none")
    /\ UNCHANGED <<content, puts, cancelled, collection, failed, timer, importing, stop>>

-----------------------------------------------------------------------------
(* UsageCollection: sync and importSnapshot.                               *)

BeginSync(w) ==
    /\ target[w] # NoRun
    /\ ~ closed[w]
    /\ sync[w] = "none"
    /\ sync' = Put1(sync, w, "cursor")
    /\ UNCHANGED <<content, recorder, puts, selecting, collection, failed, timer, expected, sent,
                   accepted, stop>>

Tick(w) == timer[w] /\ BeginSync(w)

ImportCommand(w) ==
    /\ w \in Attended
    /\ selection[w] # "gone"
    /\ BeginSync(w)

\* A run another source is bound to is refused here and by the recorder.
ReadCursor(w) ==
    /\ sync[w] = "cursor"
    /\ boundTo[target[w]] \in {NoSource, source[w]}
    /\ expected' = Put1(expected, w, version[target[w]])
    /\ sync' = Put1(sync, w, "reading")
    /\ UNCHANGED <<content, recorder, puts, selecting, collection, failed, timer, sent,
                   accepted, stop>>

\* The first id that no request of the window under way has.
FreeId(w, id) ==
    LET ids == {put.id : put \in {p \in puts : p.window = w}}
    IN Cardinality(puts) < MaxPuts /\ id \notin ids /\ 1..(id - 1) \subseteq ids

Request(w, i, was, now) ==
    [id |-> i, window |-> w, run |-> target[w], source |-> source[w], expected |-> was,
     version |-> now, owned |-> owned[w]]

\* Mutant of SendSnapshot: the import goes on though the collection is closed.
SendWhenClosed(w) ==
    /\ sync[w] = "reading"
    /\ expected' = Put1(expected, w, 0)
    /\ \E id \in 1..MaxPuts :
          /\ FreeId(w, id)
          /\ sent' = Put1(sent, w, id)
          /\ puts' = puts \cup {Request(w, id, expected[w], Latest(source[w]))}
    /\ sync' = Put1(sync, w, "putting")
    /\ UNCHANGED <<content, recorder, selecting, collection, failed, timer, accepted, stop>>

\* readSource, the checks behind it, and the PUT.
SendSnapshot(w) ==
    /\ sync[w] = "reading"
    /\ ~ closed[w]
    /\ expected' = Put1(expected, w, 0)
    /\ \E id \in 1..MaxPuts :
          /\ FreeId(w, id)
          /\ sent' = Put1(sent, w, id)
          /\ puts' = puts \cup {Request(w, id, expected[w], Latest(source[w]))}
    /\ sync' = Put1(sync, w, "putting")
    /\ UNCHANGED <<content, recorder, selecting, collection, failed, timer, accepted, stop>>

Waiting(w, put) ==
    sync[w] = "putting" /\ put = Request(w, sent[w], put.expected, put.version)

\* The answer to a request that timed out is lost.
Answer(put) ==
    LET w == put.window IN accepted' = IF Waiting(w, put) THEN Put1(accepted, w, TRUE) ELSE accepted

\* Mutant of Accepts: the recorder ignores the expected revision.
AcceptsAny(put) == boundTo[put.run] \in {NoSource, put.source}

\* The run's cursor has the revision of version v of the request's session.
Holds(put, v) == Revision(put.source, v) = Revision(put.source, version[put.run])

\* ImportUsage takes the revision it has, and one that replaces the expected one.
Accepts(put) ==
    /\ boundTo[put.run] \in {NoSource, put.source}
    /\ Holds(put, put.version) \/ Holds(put, put.expected)

\* A revision the run has leaves it as it is; the answer confirms that it holds
\* the snapshot of the request too.
Stored(put) ==
    IF Holds(put, put.version) /\ put.version < version[put.run] THEN version[put.run]
                                                               ELSE put.version

Import(put) ==
    /\ put \in puts
    /\ Accepts(put)
    /\ boundTo' = [boundTo EXCEPT ![put.run] = put.source]
    /\ version' = [version EXCEPT ![put.run] = Stored(put)]
    /\ puts' = puts \ {put}
    /\ Answer(put)
    /\ UNCHANGED <<content, status, creator, selecting, collection, failed, timer, sync, expected,
                   sent, stop>>

\* 409, an unavailable recorder, or a request that never arrives.
Refuse(put) ==
    /\ put \in puts
    /\ puts' = puts \ {put}
    /\ UNCHANGED <<content, recorder, selecting, collection, failed, timer, importing, stop>>

EndSync(w, how) ==
    /\ sync' = Put1(sync, w, how)
    /\ expected' = Put1(expected, w, 0)
    /\ sent' = Put1(sent, w, 0)
    /\ accepted' = Put1(accepted, w, FALSE)

\* Mutant of Imported: inFlight is not cleared when an import succeeds.
ImportedOnce(w) ==
    /\ sync[w] = "putting"
    /\ accepted[w]
    /\ EndSync(w, "settled")
    /\ failed' = Put1(failed, w, FALSE)
    /\ timer' = Put1(timer, w, ~ closed[w])
    /\ UNCHANGED <<content, recorder, puts, selecting, collection, stop>>

\* An import that succeeds clears the error, and polling begins or goes on.
Imported(w) ==
    /\ sync[w] = "putting"
    /\ accepted[w]
    /\ EndSync(w, "none")
    /\ failed' = Put1(failed, w, FALSE)
    /\ timer' = Put1(timer, w, ~ closed[w])
    /\ UNCHANGED <<content, recorder, puts, selecting, collection, stop>>

\* A request fails or times out, the file changes while it is read, the setting
\* names another recorder, or the collection was closed: polling pauses.
SyncFails(w) ==
    /\ sync[w] \in {"cursor", "reading", "putting"}
    /\ EndSync(w, "none")
    /\ failed' = Put1(failed, w, TRUE)
    /\ timer' = Put1(timer, w, FALSE)
    /\ UNCHANGED <<content, recorder, puts, selecting, collection, stop>>

-----------------------------------------------------------------------------
(* stop and dispose.                                                       *)

\* Without a selection there is nothing to cancel: enable clears the flag.
StopSelection(w) ==
    /\ w \in Attended
    /\ selection[w] \in {"choosing", "creating"}
    /\ cancelled' = Put1(cancelled, w, TRUE)
    /\ UNCHANGED <<content, recorder, puts, selection, collection, failed, timer, importing, stop>>

StopCollection(w) ==
    /\ w \in Attended
    /\ selection[w] # "gone"
    /\ target[w] # NoRun
    /\ cancelled' = Put1(cancelled, w, TRUE)
    /\ closed' = Put1(closed, w, TRUE)
    /\ timer' = Put1(timer, w, FALSE)
    /\ stopping' = Put1(stopping, w, TRUE)
    /\ UNCHANGED <<content, recorder, puts, selection, source, target, owned, failed, importing,
                   finishing>>

Discard(w) ==
    /\ target' = Put1(target, w, NoRun)
    /\ source' = Put1(source, w, NoSource)
    /\ owned' = Put1(owned, w, FALSE)
    /\ closed' = Put1(closed, w, FALSE)
    /\ failed' = Put1(failed, w, FALSE)

Conclude(w, completed) ==
    /\ stopping' = Put1(stopping, w, FALSE)
    /\ finishing' = Put1(finishing, w, finishing[w] \cup completed)

\* Mutant of Stopped: stop does not wait for the import under way.
StoppedAtOnce(w) ==
    /\ stopping[w]
    /\ sync[w] \in {"none", "putting"}
    /\ Discard(w)
    /\ \/ Conclude(w, {})
       \/ owned[w] /\ ~ failed[w] /\ Conclude(w, {target[w]})
    /\ UNCHANGED <<content, recorder, puts, selecting, timer, importing>>

\* Mutant of Stopped: a failed last import does not keep the run open.
StoppedCompletes(w) ==
    /\ stopping[w]
    /\ sync[w] = "none"
    /\ Discard(w)
    /\ Conclude(w, IF owned[w] THEN {target[w]} ELSE {})
    /\ UNCHANGED <<content, recorder, puts, selecting, timer, importing>>

\* The import under way has ended; a run of one's own is completed, unless that
\* import failed or the window may not talk to the recorder any more.
Stopped(w) ==
    /\ stopping[w]
    /\ sync[w] = "none"
    /\ Discard(w)
    /\ \/ Conclude(w, {})
       \/ owned[w] /\ ~ failed[w] /\ Conclude(w, {target[w]})
    /\ UNCHANGED <<content, recorder, puts, selecting, timer, importing>>

\* The answer may be lost, and the request with it.
CompleteRun(w, r) ==
    /\ r \in finishing[w]
    /\ \E effect \in {status[r], "ended"} : status' = [status EXCEPT ![r] = effect]
    /\ finishing' = Put1(finishing, w, finishing[w] \ {r})
    /\ UNCHANGED <<content, creator, boundTo, version, puts, selecting, collection, failed, timer,
                   importing, stopping>>

\* The window closes: the controller aborts, the timer is cleared.
Dispose(w) ==
    /\ w \in Attended
    /\ selection[w] # "gone"
    /\ selection' = Put1(selection, w, "gone")
    /\ cancelled' = Put1(cancelled, w, TRUE)
    /\ Discard(w)
    /\ timer' = Put1(timer, w, FALSE)
    /\ EndSync(w, "none")
    /\ stopping' = Put1(stopping, w, FALSE)
    /\ finishing' = Put1(finishing, w, {})
    /\ UNCHANGED <<content, recorder, puts>>

-----------------------------------------------------------------------------

SyncStep(w) ==
    \/ ReadCursor(w)
    \/ SendSnapshot(w)
    \/ Imported(w)
    \/ SyncFails(w)

WindowStep(w) ==
    \/ Enable(w)
    \/ GiveUp(w)
    \/ \E s \in Sources : ChooseNewRun(w, s) \/ \E r \in Runs : ChooseRun(w, s, r)
    \/ \E r \in Runs : Created(w, r) \/ CompleteRun(w, r)
    \/ CreateFails(w)
    \/ Tick(w)
    \/ ImportCommand(w)
    \/ SyncStep(w)
    \/ StopSelection(w)
    \/ StopCollection(w)
    \/ Stopped(w)
    \/ Dispose(w)

Next ==
    \/ \E w \in Windows : WindowStep(w)
    \/ \E s \in Sources : WriteSource(s)
    \/ \E put \in puts : Import(put) \/ Refuse(put)

\* The timer fires every ten seconds, a request ends after fifteen at most, and
\* reading a file ends.  What users and Copilot do is not fair.
Fairness == \A w \in Windows : WF_vars(Tick(w)) /\ WF_vars(SyncStep(w))

Spec == Init /\ [][Next]_vars /\ Fairness

-----------------------------------------------------------------------------
(* Properties.                                                             *)

TypeOK ==
    /\ content \in [Sources -> Seq(Revisions)]
    /\ status \in [Runs -> {"none", "open", "ended"}]
    /\ creator \in [Runs -> Windows \cup {NoWindow}]
    /\ boundTo \in [Runs -> Sources \cup {NoSource}]
    /\ version \in [Runs -> Nat]
    /\ puts \subseteq Put
    /\ selection \in [Windows -> {"none", "choosing", "creating", "gone"}]
    /\ cancelled \in [Windows -> BOOLEAN]
    /\ source \in [Windows -> Sources \cup {NoSource}]
    /\ target \in [Windows -> Runs \cup {NoRun}]
    /\ owned \in [Windows -> BOOLEAN]
    /\ closed \in [Windows -> BOOLEAN]
    /\ failed \in [Windows -> BOOLEAN]
    /\ timer \in [Windows -> BOOLEAN]
    /\ sync \in [Windows -> {"none", "cursor", "reading", "putting"}]
    /\ expected \in [Windows -> Nat]
    /\ sent \in [Windows -> 0..MaxPuts]
    /\ accepted \in [Windows -> BOOLEAN]
    /\ stopping \in [Windows -> BOOLEAN]
    /\ finishing \in [Windows -> SUBSET Runs]
    /\ \A w \in Windows : sync[w] # "none" => target[w] # NoRun /\ source[w] # NoSource

\* However many windows import into a run, and however late their requests land,
\* it never goes back to an older snapshot.
ImportsMoveForward == [][\A r \in Runs : version'[r] >= version[r]]_vars

\* A run goes back to an older snapshot only when what it held is content that the
\* session already had by then: the revision a late request expects has come back.
\* It never goes over to another session.
OnlyReturnsGoBack ==
    [][\A r \in Runs : boundTo[r] # NoSource =>
          /\ boundTo'[r] = boundTo[r]
          /\ version'[r] < version[r] =>
                \E v \in 1..version'[r] :
                    Revision(boundTo[r], v) = Revision(boundTo[r], version[r])]_vars

\* A run that the collector completes is one it made, and holds an import.
CompletedRunIsImported ==
    \A r \in Runs : status[r] = "ended" => creator[r] # NoWindow /\ version[r] > 0

NeverReturned(s) ==
    \A u, v \in 1..Latest(s) : Revision(s, u) = Revision(s, v) => u = v

\* Once a run is completed, no request of the collection that made it, however
\* late it lands, changes what was imported, unless the session has had one content
\* twice.
CompletedRunStays ==
    [][\A put \in puts \ puts' :
          /\ put.owned /\ status[put.run] = "ended"
          /\ NeverReturned(put.source)
          => version' = version]_vars

\* After stop, whether it came during the selection or the import, the window
\* sends nothing until a session is selected anew; a closed window sends nothing.
QuietAfterStop ==
    [][\A put \in puts' \ puts : ~ cancelled[put.window]]_vars

Polls(w, r) == timer[w] /\ target[w] = r

\* As long as any window polls, what is written to the session last reaches the run.
PollingCatchesUp ==
    \A r \in Runs :
        (\E w \in Windows : Polls(w, r) /\ Latest(source[w]) = MaxVersion)
            ~> version[r] = MaxVersion \/ \A w \in Windows : ~ Polls(w, r)
=============================================================================
