# Flight Recorder: TLA+ models, checks and proofs

Flight Recorder records what AI agents do: a local API keeps *runs*, each a list
of *events* with usage counters; clients (a VS Code extension, an SDK adapter,
OTLP exporters, MCP tools, a web viewer, a badge) write and read them.  This
directory models the parts whose correctness depends on interleavings, crashes
and long sequences of calls.  TLC checks the models on small instances, and
TLAPS proves the most important properties for every value of the constants.

    tlc -workers 2 -config MCTraceStore.cfg MCTraceStore.tla    # one run
    tlapm TraceStoreProofs.tla                                  # one proof module

## 1. Inventory

| Part | State | Operations | Hard behaviour | Modelled in |
|---|---|---|---|---|
| SQLite run store (`SqliteTraceRunStore.cs`) | one table of runs in one file; the retention limit | Add, Get, List, Update, startup with Prune | concurrent requests on separate connections, crash at any point, retention across restarts, rows that do not decode | `Retention`, `RunLedger`, `TraceStore` |
| In-memory store (`InMemoryTraceRunStore.cs`) | a dictionary under a lock | the same | none: one critical section per call | no |
| Recorder service (`FlightRecorderService*.cs`) | none of its own | StartRun, RecordEvents, CompleteRun, ImportUsage, Analyze | a batch is a loop over a candidate; imports correct and withdraw; task context is computed from the events | `RunContent`, `Recorder` |
| REST, OTLP and MCP endpoints | none | read a run, then call the service | check-then-act across two transactions, retries | `Recorder` |
| Redaction | none | text to text | can lengthen a value past what Decode accepts | flag `sound` of `TraceStore` |
| Trace views, exports | none | pure functions of a run | paths and duplicates in the comparison | no |
| Operation lock (`local-recorder.cjs` `_locked`) | a directory in the profile | acquire, recover, release | several windows, deaths, non-atomic delete, differing `rename` | `OperationLock` |
| Local recorder lifecycle (`local-recorder.cjs`, `setup.cjs`) | `installation.json`, `config.json`, `versions/`, image and container, the selected server URL | setup, start, stop, restart, rebuild, setRestart, finish | a crash, cancellation or failure between any two of Docker, files and settings; checks that are stale when used; Docker working on for a dead client | `LocalRecorder` |
| Usage collector (`usage-collector.cjs`) | a selection, a collection (session, run), a timer, the import in flight | enable, sync, start, stop, dispose | cursor read before the session file, lost acknowledgements and late requests, content that comes back, several windows on one run, stop at any moment | `UsageCollector` |
| SDK usage adapter (`usage.mjs`) | the events seen, a chain of posts | intake, post, flush, detach | posts of unknown outcome, repeated events, a full queue | `UsageCapture` |
| Shared runtime (`shared-runtime.cjs`) | one promise of one Copilot CLI; a run, task, session and capture per turn | handle, client, dispose | failures and cancellation at each request, turns sharing a CLI that fails, disposal meanwhile | `SharedRuntime` |
| Web viewer (`app.js`) | the open run, graph, comparison, selection, view, URL | poll, select, show a view, compare, analyze, replay | every answer may come to a page that has gone on | `Viewer` |
| Badge relay and device | the last frame, a buffer | send, feed | device resets, overflow | no |

How they interact: every client talks HTTP to the API; endpoints and MCP tools
call the recorder service; the service changes a run only through
`store.Update(id, callback)`, which runs the callback inside one SQLite
transaction.  VS Code windows of one profile share the storage directory of the
local recorder and keep their Docker operations apart with the operation lock.
A chat turn of the shared runtime makes a run, starts a task in it, captures the
usage of its SDK session through the adapter, and completes both.  The collector
imports snapshots of a session file into a run it selected or made, each on the
condition that the run still holds the revision it read.  The viewer reads.

What makes each part correct:

- store: answered writes survive, concurrent updates do not overwrite each
  other, retention removes only old completed runs and keeps within its limit;
- service: whatever it commits can be read back; a span is recorded once;
  imported usage is exactly the last snapshot; events keep their place, parent
  and task; the current task is the one most recently started;
- lock: two windows never work at once; nobody takes a living window's lock;
- lifecycle: whatever was interrupted, the next operation finds something it can
  start; success is said of the installation's own container; the origin that is
  remembered as managed stays the installation's;
- adapter and runtime: a model call is counted once; a loss is reported; a turn
  that ends well has a complete run; turns end; no CLI survives the runtime;
- collector: an import goes back only over content that has itself come back; what
  it completes has been imported; a stop is final; polling catches up with the
  session;
- viewer: everything on the page is of the run in its heading, and that run is
  never replaced by an older state of itself.

`PROJECT.json` lists the hazards behind these, each at its line.

## 2. Modules

    Retention <- RunLedger <= TraceStore                 (<= is implemented by)
    Retention <- TraceStore <- MCTraceStore, TraceStoreProofs
    RunContent <- RunLog <= Recorder
    RunContent <- Recorder <- MCRecorder
    RunContent <- TaskContextProofs;  Recorder, TaskContextProofs <- RecorderProofs
    OperationLock <- MCOperationLock, OperationLockProofs
    LocalRecorder <- MCLocalRecorder, LocalRecorderProofs
    UsageCapture <- SharedRuntime <- MCSharedRuntime, SharedRuntimeProofs
    UsageCollector <- MCUsageCollector, UsageCollectorProofs
    Viewer <- MCViewer, ViewerProofs

**Retention**: the rows and the pruning rule, without state.  A run id is a
number whose order stands for the ordinal order of the GUID; a row has its two
timestamps in ticks, a version (how often it was written) and `sound`, whether
Decode accepts its payload.  `Pruned(table, lim)` is the *set* of tables Prune
can leave, so that its determinism is something to check.

**RunLedger**: what a run store promises: every write takes effect at once, on
the latest version of its run, followed by retention (`Enter`, `Rewrite`,
`Resize`).

**TraceStore**: `SqliteTraceRunStore`.  `db` is the committed table; each
request has a `step` (idle, open, written, committed) and a private `image`.
`Begin` is `BeginTransaction(deferred: false)`, possible only while no other
request is in a transaction; `Add`, `Update`, `UpdateSame` are the bodies of the
two operations, `Commit` includes Prune, `Rollback` stands for every exit
without a commit, `Respond` for the answer.  `Crash` loses all requests;
`Start(lim)` is Initialize (decode all rows, prune with the configured limit);
`StartFails` is its failure on an undecodable row.  `told` and `created` are
history variables.

**RunContent**: the content of one run and the pure functions on it: what a
request becomes (`EventFor`), deduplication (`Duplicate`), the metering
conflict (`Ambiguous`), the task stack (`Advance`, `ActiveTasks`), an import
(`Reimported`, `Additions`, `Imported`), and the store's acceptance check
(`Decodes`).  All native counters of an event (tokens, cost, cache counts) are
one field, since the code only asks whether any is present.

**Recorder**: the service and endpoints around one run.  `Submit` starts a
request; `Export` and the tool actions first read the run, as the code does;
`Begin`, `SkipDuplicate`, `AppendEvent`, `Commit` and `Abort` are the loop of
RecordEvents inside one transaction; `Answer` delivers the response.
`ImportUsage`, `CompleteRun` and `Prune` are single transactions.  That a
transaction works on the latest version and takes effect at once is not assumed
without proof: it is the theorem `StoreImplementsLedger` of `TraceStoreProofs`.

**RunLog**: what the recorder promises to whoever reads one run, without requests,
loops and crashes.  `Record` adds events that are fit for their places
(`Admissible`: a new id, an earlier parent, a new span, no metering beside imported
usage, the task current there); `Import` puts one snapshot in the place of the one before;
`Complete` and `Drop` end the run.  `Recorder` implements it with `log <- events`.

**OperationLock**: `_locked`, every file operation a step: `Prepare` (candidate
directory), `Acquire` (rename), `ReadOwner`, `Judge` (is the owner alive?),
`Recover` (rename to the tombstone), `Finish`, `Unlink` and `RemoveDirectory`
(the two steps of `rm`), the failures `Fail` and `ReleaseFails`, and `Die` at
any point.  `RenameOverEmpty` distinguishes POSIX from Windows.

**LocalRecorder**: the lifecycle around one container.  An operation is a `kind`,
the place `at` it stands, the configuration it works with, and an `outcome`.
`Look` is the common prefix (`_locked`, `_resources`, the container's own
configuration before config.json's); `Install`, `Stage`, `Build`, `Replace`,
`Start`, `Create`, `Restart`, `Stop`, `Update` are the file and Docker steps of
the operations with their port checks; `Inspect`, `Probe`, `Confirm` are `_ready`;
`ConfirmStop` and `ConfirmUpdate` write config.json.  `Interrupt` ends the
operation where it stands: a death, a cancellation, a timeout, a failure.
`Leaves` stops the Docker client while the daemon goes on (`late`,
`LateCommand`).  `UseExisting` and `Finish` are what setup.cjs makes of a
recorder that was reported.  Around it the container exits, is restarted by
policy or removed, other processes take and leave ports, and the extension is
updated.

**UsageCapture**: `attachCopilotUsage` for each session.  `Enqueue`, `Repeat` and
`Refuse` are the outcomes of the handler of assistant.usage; `Send`,
`Acknowledge` and `PostFails` run the chain of posts; `Record` and `Reject` are
the recorder's side of a post, possible even after its 15 s have passed; `Stop`
is detach.  `reported` is a history variable.

**SharedRuntime** extends it: for each turn the steps of `handle` (`CreateRun`,
`StartTask`, `GetClient`, `OpenSession`, `AttachUsage`, the reply, `Detached`,
`CloseTask`, `EndRun`; in the catch block `ReportFailure` and `AbandonRun`; in
finally `Release` and `Disconnect`).  Each request succeeds, or fails with or without effect.
`run` and `task` are the recorder's, `runKnown` and `taskKnown` the turn's
variables.  `ClientStarts`, `ClientFails`, `Dispose` and `StopClient` are the
shared promise of the CLI.

**UsageCollector**: per window a selection (`Enable`, `GiveUp`, `ChooseRun`,
`ChooseNewRun`, `Created`, `CreateFails`), a collection (`Tick`, `ImportCommand`,
`ReadCursor`, `SendSnapshot`, `Imported`, `SyncFails`) and its end
(`StopSelection`, `StopCollection`, `Stopped`, `CompleteRun`, `Dispose`).  An import
request is a member of `puts` until the recorder handles it with `Import` or
`Refuse`; a window that gave up waiting leaves it there.  `content` holds the
revisions a session has had, one for each snapshot.  A revision is the digest of a
snapshot's normalized content (`usage-sources.cjs:397`), and JSON files are
rewritten, delta logs reset and rows deleted, so `WriteSource` appends any revision
but the present one: a new one or one from before.  A *version* is a place in
`content`.  It orders the snapshots for the properties; the conditions of the code
(`Holds`, `Accepts`, `Stored`) compare revisions only.  Requests carry an id, so that
one that repeats another is not the same one.

**Viewer**: `Clicks` (runs, views, events, edges, baselines, diagnosis, replay),
`Refresh` (the poll and the button), and an action for each kind of answer.
`version` counts the changes of a run at the recorder; every trace, graph and
panel carries the run and version it shows.

**MC modules** add symmetry, request sets and the events of the sessions.
**Proof modules** hold only theorems and what they rest on.

## 3. Runs

| Run | Instance | States | Shows |
|---|---|---|---|
| `trace_store` | 3 runs, 2 requests, limits 1 and 2, 2 end ticks, 2 writes per run | 500,000 | retention, durability of answers, refinement of the ledger |
| `recording` | 2 clients, 2 spans, batches of 1 and 2, one with a parent; 3 observations, limit 2, 2 sources, 2 revisions | 430,000 | atomic batches, retries, deduplication; imports, corrections, withdrawals, conflicts; refinement of the log |
| `tasks` | 2 clients, 2 tasks, 3 events | 600,000 | attribution of events without a task; the stack against a definition without a stack; refinement of the log |
| `lock` | 3 windows, 5 attempts, POSIX rename | 84,000 | exclusion and recovery |
| `turn` | 1 turn, 4 events that report 2 calls and an unnamed one, limits 2 and 2 | 75,000 | usage counted once and never lost silently; turns that end well are complete; turns end |
| `collector` | 2 windows, one of them attended, 1 session of 3 snapshots with 2 contents, 1 run, 2 requests under way | 770,000 | imports go back only over content that came back; stop and completion are final; polling catches up |
| `lifecycle` | 2 ports, 2 releases of the extension | 2,700,000 | interrupted operations, confirmed success, the managed origin |
| `viewer` | 2 runs of 2 versions, 2 requests under way | 950,000 | one run per page, one view per panel, no older trace |
| `otlp_ack`, `lock_race`, `port_stuck`, `stale_import` | as `recording` without imports, `lock`, `lifecycle`, and `collector` with 1 window and a run that is there | until violated | the divergences of section 6 |

Why the bounds are enough.  Three runs against a limit of one or two give every
case of pruning: a tie, the pruned run being the written one, a limit that
shrinks by restart.  Two versions per run let a stale writer overwrite a fresh
one.  Three observations under a limit of two make the limit bite, with and
without withdrawn ones; two revisions are enough for a conflict, a correction
and a return.  A batch of two is enough for one half to be refused.  The lock
needs a dead owner and two recoverers: three windows, with five attempts for
repeated tries.  Run `lock` takes the POSIX rename: whatever Windows allows, POSIX
allows too, so the run covers both; `lock_race` takes Windows, the stricter one,
and still fails.  One turn meets every order of its own requests, posts and
failures, and the CLI's start, failure and disposal around them; that turns
sharing a CLI keep the same properties is proved.  Four events against a queue of two
and a limit of two give a full queue, a repeated call under another event id and
an event that names no call.  Two windows on one run are enough for one import to
overtake the other's between cursor and file.  Only the first is attended: its user goes
on to make the run, to import by hand, to stop and to close the window; the second
selects the run once and polls.  Three snapshots of two contents are the least for a
content to come back, and two requests under way for one to be late beside another.
`First` names the revision of the first snapshot, since any will do.  In run
`collector` no run exists at first, so that a completed run is one the collector made
says nothing there; the theorem `CompletionFollowsImport` has runs of others too.
Two ports let a setup meet a conflict and choose the other one; two releases
separate a rebuild from a start.  Two runs of two versions and two requests are
the least for one answer to overtake another of the same or of another run.

Counters bounded by the models: `MaxVersion`, `MaxRequests`, `MaxPuts`, `Creators`,
`Attended`, `EventsOf`, `MaxEvents` of `Recorder`, `Tokens`.  `MaximumObservations` (1000) and,
in `UsageCapture`, `MaxPending` and `MaxEvents` are parameters of the code.

The runs `lock`, `turn` and `collector` do not check for deadlock: windows all die
or run out of attempts, turns end, windows close, and the real system then stops
too.  Every other passing run checks it.  Symmetry is used only for sets the
specifications never order (requests, windows of the lock, tokens, tasks, spans, sources and revisions of
imports, ports, runs of the viewer) and only with safety properties.

Every property has a mutant in `PROJECT.json`: an operator next to the
definition it changes (`NeverDuplicate`, `RespondEarly`, ...) that TLC must
reject.

**Fairness.**  Assumed only where timers and timeouts justify it, and never of users,
of Copilot, of the recorder or of Docker.

- `SharedRuntime`: weak fairness of `TurnStep(t)`, since every request of a turn
  and the creation of a session ends in an answer or an error; of `Delivery(t)`, since a post
  ends after 15 s at most; of `ClientStep`, the one assumption about a process that is
  not this code: the CLI's start, for which even a cancelled turn waits, and its stop end.
  With it `TurnsEnd`: a turn that was cancelled, or whose model has answered, ends,
  whatever becomes of its posts.  A turn whose model never answers is not claimed to end.
- `UsageCollector`: weak fairness of `Tick(w)`, a ten second timer, and of
  `SyncStep(w)`, since a request ends after 15 s at most and reading a file ends.  The
  recorder's handling of a request is not fair, yet an answer can only be a
  success after it.  With it `PollingCatchesUp`: what was written to the session
  last reaches the run, unless all its windows stop polling.
- The store, recorder, lock, lifecycle and viewer have safety properties only.  The code
  gives no progress guarantee worth stating there: SQLite's lock is not fair and waits
  at most 5 s, a window that finds the lock busy gives up, a user who is asked need
  not answer.

## 4. Proofs

| Theorem | Module | For every ... |
|---|---|---|
| `TypeCorrect`, `RetentionHolds`, `AcknowledgedWritesSurvive`, `PruneDetermined`, `RemovalsJustified`, `StoreImplementsLedger` | `TraceStoreProofs` | finite set of runs, set of requests, ticks, limits, number of versions |
| `TypeCorrect`, `LockExcludes`, `LiveLocksAreKept` | `OperationLockProofs` | set of windows and attempts, both kinds of rename |
| `CurrentIsMostRecent` | `TaskContextProofs` | list of events, set of tasks |
| `TypeCorrect`, `RunsDecode`, `ImportsMirror`, `SpansAreUnique`, `AnsweredSpansStay`, `CurrentTaskIsRight`, `AttributionHolds`, `EventsStay`, `RecorderImplementsLog` | `RecorderProofs` | set of clients, spans, tasks, observations, origins; batch; snapshot; limit |
| `TypeCorrect`, `OnlyReturnsReplace`, `CompletionFollowsImport`, `CompletionIsFinal`, `StopIsQuiet` | `UsageCollectorProofs` | set of windows, sessions, revisions, runs; number of versions and of requests under way |
| `TypeCorrect`, `CallsCountOnce`, `LossIsReported`, `GoodTurnsAreComplete`, `RunsEndAfterTasks`, `DisposalIsFinal` | `SharedRuntimeProofs` | set of turns, events, calls; limit of the queue and of the events |
| `TypeCorrect`, `InterruptedCanStart`, `ManagedOriginsStay`, `SuccessIsOfOwnContainer` | `LocalRecorderProofs` | set of ports; number of releases |
| `TypeCorrect`, `PagesAreOfOneRun`, `PanelsAreOfView`, `TracesNeverGoBack` | `ViewerProofs` | set of runs; number of versions and of requests under way |

*Store.*  `RetentionBound` and `ToldSurvives` are not inductive: a bad image of
an open transaction would be committed next.  The inductive invariant adds that
at most one request is in a transaction, that its image agrees with the
committed table except for the row it wrote, that the written row is one
version above the table's, and that every reply waiting to be sent is already
committed.  `Settled` is handled by lemmas that say what pruning returns.  The
refinement maps `runs` to `db`: `Commit` is `Enter` or `Rewrite`, `Start` is
`Resize`, everything else stutters; the argument is that the image a commit
publishes is the latest table with one row changed.  That Prune has one outcome
(`PruneDetermined`) is a counting argument: `Outranks` is a strict total order, the
rank of a completed run is the number of those that outrank it, and the ranks of n
runs are the n numbers below n (`RanksAreDense`), so the runs of rank below the
limit are a set Prune may keep, and the only one.  `RemovalsJustified` needs of the
invariant that a committing image differs from the table in its own row only.
Assumptions: run ids are a finite set of numbers, ticks and limits are positive.

*Lock.*  Exclusion needs three facts.  `HoldersHaveTheLock`: a living window
that works is the owner of the directory now in place.  `RecoverersKnowTheDead`:
a window on its way to recover a lock read the token of an owner that is dead,
and that owner's directory is still in place or already kept as a full
tombstone (`Left`), so the rename cannot take anybody else's.  `TokensAreOwned`:
tokens are not shared.  `LeftStays` and `HeldLockStays` are the lemmas that
carry the steps.  The theorems assume `~ DeathsInterleave`: no window dies
between the reading of its owner.json and the liveness check of the reader.  The
assumption is necessary; run `lock_race` shows what happens without it.

*Task context.*  `CurrentIsMostRecent` says what a loop computes for every list, so it
is an induction over the list.  The library's induction theorems take an operator,
which the installed provers cannot instantiate; `SetInduction` is the same principle
for a set, from the least element of a set of naturals, from the well-foundedness of
`<`.  With it the fold of the community modules is unrolled to one step for each
event (`ActiveTasksAppend`), and `StackOf` is shown to be kept by a step: the stack holds
exactly the active tasks, each once, in the order they were started.  Its top is
then the most recently started one.

*Recorder.*  The invariant is `Core`: the committed run is `Sound` (ids are places,
parents come before their children, an exported span is one no earlier event has,
imports decode within the limit and equal the cursor's snapshot, events without a task
of their own are attributed to the one current before them); the candidate of an open
batch is sound too and continues the committed run (`BatchInOrder`), and together with
the rest of the batch it holds every span of the request; what was answered is in the run
(`AnswersInOrder`).  For an import the additions are shown to be a bijection onto
the new observations, so that none occurs twice, and attribution to survive it because
it changes no task and no lifecycle (`AttributedGrows`).  The refinement of `RunLog` maps
`log` to `events`: a commit is a `Record`, because each event the candidate has
beyond the run is `Admissible` in it; an import is an `Import`; what Prune takes in the
same transaction makes it a `Drop`; every other step stutters.  Assumption: an
export's batch is finite, as sequences are.

*Collector.*  Versions are ordered because each is one its session had
(`CursorsAreOfSources`), the cursor is read before the file (`ReadsAreOld`) and a
request expects no more than it carries (`PutsAreOrdered`).  A request that replaces a
newer snapshot is therefore one whose expected revision, which is no later than what it
carries, the run has again (`RecorderReturns`); in a session that has had no content
twice there is none (`RecorderAdvances`).  `Ownership` says that a run is finished only
by the window that made it.  `LatePuts` is the core of `CompletionIsFinal`: once an
import was accepted, every older request of the same collection is `Harmless`, a
repetition or refused for its condition, as long as no content has come back
(`NeverReturned`, and once false it stays false: `ReturnsStay`).  That premise is
necessary: the trace of `stale_import`, with a stop before the late request lands,
changes a completed run.

*Runtime.*  A `Ledger` per session relates the events seen, queued, posted, in
flight and recorded: each is in one place, posts are handled once, and until the
capture fails nothing seen is anywhere else (`NothingLost`).  `TurnInOrder` lists what is
settled by each place of a turn; `OneClient` ties the processes to the promise.

*Lifecycle.*  `Prepared`: what config.json, the container and an operation past its
build name was staged and built.  `OnePort`: config.json, the container, the
operation, a reported own recorder and the remembered one all have the port of the
first installation.  `UpdatesPolicy`: an update leaves the container what it is
but for its restart policy, which is why `ConfirmUpdate` may save the whole
configuration.  Steps are grouped by what they change (`EndStep`, `GotoStep`, `MakeStep`,
`SaveStep`, `AroundStep`).

*Viewer.*  `NewestRun`: the page waits for one run at most, and for nothing older than
what it shows; this is what the generation counter is for.  `RequestsInOrder`: an answer
is of the run that was asked for.
`PanelInOrder` relates panel, view, replay and the data shown.

Only model-checked are the liveness properties `TurnsEnd` and `PollingCatchesUp`:
liveness under fairness and ENABLED are out of the prover's reach.  Every invariant
and action property of the passing runs is a theorem, except that `MutualExclusion`
and `LiveLocksStay` are proved under the assumption named above.

## 5. What is abstracted

- A SQLite timeout (5 s) changes nothing and is a stutter in `TraceStore`, an
  `Abort` in `Recorder`.  The integrity and schema checks of startup are
  assumed to pass.
- Redaction, text limits and JSON are not modelled.  Their one effect on the
  store is the flag `sound`: an update may write a row that Decode refuses.
  In `Recorder`, `StoredRunDecodes` covers the structural half of Decode.
- OTLP parsing: an export is a batch of valid spans of one run.
- A PUT that repeats the cursor's revision and snapshot is a stutter.
- The lock: hosts and pid reuse are left out (a pid that is reused only makes a
  dead owner look alive, which is the safe side); the age of 30 s is left out
  of `Judge`, so the model allows recoveries the code still refuses.
- On POSIX a tombstone may end up empty when its owner dies inside `rm`; on
  Windows such a lock stays BUSY for ever.  Both are in the model; neither
  breaks exclusion.

- `LocalRecorder` has one operation at a time, which is what `OperationLock` shows.
  The last inspection, writing config.json and reporting are one step, so
  `SuccessIsConfirmed` does not see what Docker does between them.
  The installation's container is made by nobody else, so its id never differs from the one
  inspected before.  An origin is a port and a flag, because the installation reports itself as
  127.0.0.1 and an external recorder is referred to as localhost.  At most one reported
  recorder waits for the user's answer.  Of the remembered state only managed origins
  are kept.  Images are not removed; a Docker call that is late is one of start, stop
  and update; the approval of the MCP server is not modelled, and
  state.json is derived from the rest.
- `UsageCapture` is the adapter as the runtime uses it: no error observer, flush
  only within detach.  A turn records one task.
- `UsageCollector`: a session is the sequence of its snapshots' revisions.  Snapshots of
  equal content have one digest, and those of different content have different ones.
  That a window which allows estimates and one which does not find different
  snapshots in one file is a `WriteSource` between their reads.  Of the recorder
  it keeps what ImportUsage compares.
  A creation that is under way when the window closes is lost with it.  Messages that
  follow a start are taken as dismissed.
- `Viewer`: the generation check is modelled by dropping superseded run requests.
  The first list is taken to arrive before the first poll, eight seconds later.  Traces are
  their run and version.

## 6. Where code and text disagree

1. `POST v1/traces` ignores that RecordEvents found no run
   (`OtlpTracesController.cs:29`) and answers 200 (run `otlp_ack`).  README.md:173
   promises a commit before every successful response.
2. The tombstone protects a new lock only if the dead owner's directory became
   one; an owner that releases and exits between the read and the liveness check
   leaves none (`local-recorder.cjs:304`, run `lock_race`).
3. A container that was made with one port keeps it: a setup that is asked for another port
   after a conflict fails again because of the first (`local-recorder.cjs:580`), where
   `extensions/flight-recorder/README.md:142` lets the user choose another port
   (run `port_stuck`).
4. An import is conditional on a revision, and a revision says what the content is, not
   when it was read.  When a session goes from one content to another and back, an
   import of the second that timed out at the window is accepted after the third
   snapshot was, and an older snapshot replaces a newer one
   (`FlightRecorderService.UsageImports.cs:40`, run `stale_import`), where
   `docs/local-usage.md:103` says that revision checks reject concurrent stale updates.
   While a window polls, its next import repairs that (`PollingCatchesUp`); after a
   stop, and in a completed run, the older snapshot stays.

Met while modelling, and left without a run:

- The snapshot fingerprint is compared with the current revision only
  (`FlightRecorderService.UsageImports.cs:33`): a client that chooses its revisions
  itself can use that of an earlier snapshot for another content, contrary to the
  comment at line 20.  The collector's revisions are digests, which return only with
  their content.
- `complete_current_flight_task` may complete a task that is no longer the most recently
  started one (`FlightRecorderMcpTools.cs:172`, against its description at 164): the task
  is chosen from a run read before.
- A turn that fails completes its run before its capture is detached
  (`shared-runtime.cjs:172`), so its last usage is refused;
  `integrations/copilot-sdk/README.md:95` asks for the opposite order.  `EndedRunClosesTask` and
  `GoodTurnIsComplete` say what holds all the same.
- The viewer stays consistent, but may lose time: a poll selects the open run
  again and drops a click whose answer is to come (`app.js:125`), a late graph may
  be older than the run it is shown with (`app.js:201`), and an older run list may replace a newer
  one (`app.js:118`).

## 7. Not modelled

- **Usage sources** (`usage-sources.cjs`), redaction, trace views, exports and the
  viewer's formatting: pure functions of text or of one run.
- **In-memory store**: each call is one critical section; it is `RunLedger`.
- **API host**: wiring.  **Badge relay and device**: one frame at a time to a display nothing
  depends on.  **Release scripts**: sequential build tooling.
- **Of the modelled parts**: totals of a run (decimals may overflow in reads), the
  viewer's version label, demo, downloads, filters and list, the registration of the
  extension's commands and its MCP provider.

What would come next: a composition of the collector with the full `Recorder`, so that a
failed import and a redelivered one meet the usage limits; retention that removes
the run a collector imports into; and the badge's frames.
