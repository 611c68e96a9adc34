------------------------------ MODULE TraceStore ------------------------------
(***************************************************************************)
(* SqliteTraceRunStore: a runs table behind one SQLite file.  Requests run *)
(* concurrently, each on its own connection; a write takes the database's  *)
(* write lock (BEGIN IMMEDIATE), works on a private image and becomes      *)
(* visible and durable at COMMIT; the caller hears of it only afterwards.  *)
(* The process may die at any point and start again with another limit.    *)
(*                                                                         *)
(* A request that finds the lock taken and times out after 5 s changes     *)
(* nothing and answers 503: a stutter, so it has no action of its own.     *)
(***************************************************************************)
EXTENDS Retention

CONSTANTS Clients,    \* concurrent requests
          NoTarget,   \* what target shows while a request names no run
          MaxVersion  \* bound of the model: writes one run can receive

ASSUME MaxVersionAssumption == MaxVersion \in Nat
ASSUME NoTargetAssumption == NoTarget \notin Runs

VARIABLES db,       \* the committed table
          created,  \* history: ids that were ever committed
          health,   \* "down", "up", or "failed" (startup threw)
          limit,    \* maxCompletedRuns of the last successful start
          step,     \* where each request stands
          target,   \* the run its transaction is about
          image,    \* the table as its transaction sees it
          reply,    \* the version of that run it will report to its caller
          told      \* history: highest version of a run reported to a caller

requestVars == <<step, target, image, reply>>
vars == <<db, created, health, limit, step, target, image, reply, told>>

Steps == {"idle", "open", "written", "committed"}

Later(m, n) == IF m > n THEN m ELSE n

Init ==
    /\ db = EmptyTable
    /\ created = {}
    /\ health = "down"
    /\ limit \in Limits
    /\ step = [c \in Clients |-> "idle"]
    /\ target = [c \in Clients |-> NoTarget]
    /\ image = [c \in Clients |-> EmptyTable]
    /\ reply = [c \in Clients |-> 0]
    /\ told = [r \in Runs |-> 0]

-----------------------------------------------------------------------------
(* Startup and death of the process.                                       *)

Readable(table) == \A r \in Present(table) : table[r].sound

\* Initialize: every row must decode, then Prune with the configured limit.
Start(lim) ==
    /\ health # "up"
    /\ Readable(db)
    /\ db' \in Pruned(db, lim)
    /\ limit' = lim
    /\ health' = "up"
    /\ UNCHANGED <<created, requestVars, told>>

\* Initialize: ReadAll meets a row that does not decode and the host stops.
StartFails ==
    /\ health # "up"
    /\ ~ Readable(db)
    /\ health' = "failed"
    /\ UNCHANGED <<db, created, limit, requestVars, told>>

\* The process dies; the journal rolls every open transaction back.
Crash ==
    /\ health = "up"
    /\ health' = "down"
    /\ step' = [c \in Clients |-> "idle"]
    /\ target' = [c \in Clients |-> NoTarget]
    /\ image' = [c \in Clients |-> EmptyTable]
    /\ reply' = [c \in Clients |-> 0]
    /\ UNCHANGED <<db, created, limit, told>>

-----------------------------------------------------------------------------
(* Write requests.                                                         *)

InTransaction(c) == step[c] \in {"open", "written"}

\* Mutant of WriteLockFree: BEGIN DEFERRED, which waits for nobody.
NeverWaits == TRUE

WriteLockFree == \A c \in Clients : ~ InTransaction(c)

\* Mutant of Leave: the request is left standing where it was.
LeaveHalfway(c) ==
    /\ UNCHANGED step
    /\ target' = [target EXCEPT ![c] = NoTarget]
    /\ image' = [image EXCEPT ![c] = EmptyTable]
    /\ reply' = [reply EXCEPT ![c] = 0]

Leave(c) ==
    /\ step' = [step EXCEPT ![c] = "idle"]
    /\ target' = [target EXCEPT ![c] = NoTarget]
    /\ image' = [image EXCEPT ![c] = EmptyTable]
    /\ reply' = [reply EXCEPT ![c] = 0]

\* BeginTransaction(deferred: false)
Begin(c) ==
    /\ health = "up"
    /\ step[c] = "idle"
    /\ WriteLockFree
    /\ step' = [step EXCEPT ![c] = "open"]
    /\ image' = [image EXCEPT ![c] = db]
    /\ UNCHANGED <<db, created, health, limit, target, reply, told>>

\* Write(...) inside the transaction of request c.
WriteRow(c, r, row) ==
    /\ step' = [step EXCEPT ![c] = "written"]
    /\ target' = [target EXCEPT ![c] = r]
    /\ image' = [image EXCEPT ![c][r] = row]
    /\ UNCHANGED <<db, created, health, limit, reply, told>>

\* Add: a run under a fresh GUID.
Add(c, r, started, ended) ==
    /\ step[c] = "open"
    /\ r \notin created
    /\ WriteRow(c, r, [started |-> started, ended |-> ended,
                       version |-> 1, sound |-> TRUE])

\* Update: the callback returned a changed run.  Write does not check what
\* Decode will ask of the row, so the new row may be unsound (the model lets
\* one row of the table be, which already stops List and the next start).
Update(c, r, ended, sound) ==
    LET current == image[c][r]
    IN /\ step[c] = "open"
       /\ r \in Present(image[c])
       /\ current.sound
       /\ current.version < MaxVersion
       /\ sound \/ Readable(image[c])
       /\ WriteRow(c, r, [started |-> current.started, ended |-> ended,
                          version |-> current.version + 1, sound |-> sound])

\* Update: the callback returned the very run it was given, and the
\* transaction commits without a write.
UpdateSame(c, r) ==
    /\ step[c] = "open"
    /\ r \in Present(image[c])
    /\ image[c][r].sound
    /\ step' = [step EXCEPT ![c] = "committed"]
    /\ target' = [target EXCEPT ![c] = r]
    /\ reply' = [reply EXCEPT ![c] = image[c][r].version]
    /\ image' = [image EXCEPT ![c] = EmptyTable]
    /\ UNCHANGED <<db, created, health, limit, told>>

\* The transaction is disposed of without a commit: the run does not exist,
\* its row does not decode, the callback threw or changed the id, or SQLite
\* failed at any point up to and including the commit.
Rollback(c) ==
    /\ InTransaction(c)
    /\ Leave(c)
    /\ UNCHANGED <<db, created, health, limit, told>>

\* Prune, when the written run has ended, and COMMIT.
Commit(c) ==
    /\ step[c] = "written"
    /\ step' = [step EXCEPT ![c] = "committed"]
    /\ db' \in Settled(image[c], target[c], limit)
    /\ created' = created \cup {target[c]}
    /\ reply' = [reply EXCEPT ![c] = image[c][target[c]].version]
    /\ image' = [image EXCEPT ![c] = EmptyTable]
    /\ UNCHANGED <<health, limit, target, told>>

\* Mutant of Respond: the response does not wait for COMMIT.
RespondEarly(c) ==
    /\ step[c] \in {"written", "committed"}
    /\ told' = [told EXCEPT ![target[c]] =
                   Later(@, IF step[c] = "written" THEN image[c][target[c]].version
                            ELSE reply[c])]
    /\ Leave(c)
    /\ UNCHANGED <<db, created, health, limit>>

\* The caller receives the run it wrote (or found unchanged).
Respond(c) ==
    /\ step[c] = "committed"
    /\ told' = [told EXCEPT ![target[c]] = Later(@, reply[c])]
    /\ Leave(c)
    /\ UNCHANGED <<db, created, health, limit>>

-----------------------------------------------------------------------------

ClientStep(c) ==
    \/ Begin(c)
    \/ \E r \in Runs, started \in Starts, ended \in Ends \cup {NotEnded} :
          Add(c, r, started, ended)
    \/ \E r \in Runs, ended \in Ends \cup {NotEnded}, sound \in BOOLEAN :
          Update(c, r, ended, sound)
    \/ \E r \in Runs : UpdateSame(c, r)
    \/ Rollback(c)
    \/ Commit(c)
    \/ Respond(c)

Next ==
    \/ \E lim \in Limits : Start(lim)
    \/ StartFails
    \/ Crash
    \/ \E c \in Clients : ClientStep(c)

Spec == Init /\ [][Next]_vars

-----------------------------------------------------------------------------
(* Properties.                                                             *)

TypeOK ==
    /\ db \in Tables
    /\ created \subseteq Runs
    /\ health \in {"down", "up", "failed"}
    /\ limit \in Limits
    /\ step \in [Clients -> Steps]
    /\ target \in [Clients -> Runs \cup {NoTarget}]
    /\ \A c \in Clients : step[c] \in {"written", "committed"} => target[c] \in Runs
    /\ image \in [Clients -> Tables]
    /\ reply \in [Clients -> Nat]
    /\ told \in [Runs -> Nat]

\* However many requests complete, re-complete or edit runs, and whatever
\* limit the recorder restarts with, the committed table never holds more
\* completed runs than the limit in force (Prune in Add, Update, Initialize).
RetentionBound == Cardinality(Completed(db)) <= limit

\* A write whose response reached its caller outlives crashes and later
\* requests: its run is committed, and as long as the table holds the run it
\* is at least at the version the caller was given.
ToldSurvives ==
    \A r \in Runs :
        /\ told[r] > 0 => r \in created
        /\ r \in Present(db) => told[r] <= db[r].version

\* Prune always has exactly one outcome, also when completed runs tie on both
\* timestamps: the order by completion, start and id leaves no ties.
PruneIsDeterministic ==
    \A lim \in Limits : Cardinality(Pruned(db, lim)) = 1

Commits(c) == step[c] = "written" /\ step'[c] = "committed"

\* The row of run r as of the step being taken: the one the transaction that
\* commits in this step wrote, else the one in the table.
LastRow(r) ==
    IF \E c \in Clients : Commits(c) /\ target[c] = r
    THEN image[CHOOSE c \in Clients : Commits(c)][r]
    ELSE db[r]

\* A run disappears only when it has ended and the table is full of completed
\* runs that all outrank it; an unfinished run is never deleted.
RemovalJustified ==
    [][\A r \in Present(db) \ Present(db') :
          LET before == [db' EXCEPT ![r] = LastRow(r)]
          IN /\ r \in Completed(before)
             /\ Cardinality(Completed(db')) = limit'
             /\ \A k \in Completed(db') : Outranks(before, k, r)]_vars

\* The store implements the ledger: its commits and starts are ledger steps.
Ledger == INSTANCE RunLedger WITH runs <- db
LedgerSpec == Ledger!Spec
=============================================================================
