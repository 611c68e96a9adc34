---------------------------- MODULE OperationLock ----------------------------
(***************************************************************************)
(* LocalRecorder._locked: the lock directory by which VS Code windows that *)
(* share a profile keep their Docker operations on the local recorder      *)
(* apart.  A window prepares a directory that names it, renames it to      *)
(* .operation-lock, works, and deletes it.  The lock of a window that died *)
(* is renamed to a tombstone that carries its token and is kept.           *)
(*                                                                         *)
(* A window is one process: after a crash it comes back as another member  *)
(* of Windows.  Deleting a directory is two steps of the file system,      *)
(* unlinking owner.json and removing the directory.                        *)
(***************************************************************************)
EXTENDS Naturals

CONSTANTS Windows, NoWindow,
          Tokens,             \* bound of the model: attempts there can be
          NoLock,
          RenameOverEmpty,    \* rename replaces an empty directory (POSIX)
          DeathsInterleave    \* a window can die between the reading of its
                              \* owner.json and the check that it is alive

ASSUME NonesAssumption == NoWindow \notin Windows /\ NoLock \notin Tokens
ASSUME SwitchesAssumption == RenameOverEmpty \in BOOLEAN /\ DeathsInterleave \in BOOLEAN

VARIABLES lock,      \* the token in .operation-lock, or NoLock
          emptied,   \* that directory has lost its owner.json
          tomb,      \* .stale-lock-<token>: "none", "full", or "empty"
          owner,     \* the window whose attempt drew a token
          alive,     \* the windows that run
          step,      \* where each window stands in _locked
          mine,      \* the token of its attempt
          previous,  \* the token it read from the lock that is in its way
          recovered  \* locks it has moved away during this attempt

vars == <<lock, emptied, tomb, owner, alive, step, mine, previous, recovered>>

Steps == {"idle", "renaming", "judging", "recovering", "working", "unlinking", "removing"}

Init ==
    /\ lock = NoLock
    /\ emptied = FALSE
    /\ tomb = [t \in Tokens |-> "none"]
    /\ owner = [t \in Tokens |-> NoWindow]
    /\ alive = Windows
    /\ step = [w \in Windows |-> "idle"]
    /\ mine = [w \in Windows |-> NoLock]
    /\ previous = [w \in Windows |-> NoLock]
    /\ recovered = [w \in Windows |-> 0]

At(w, where) == w \in alive /\ step[w] = where

Goto(w, where) == step' = [step EXCEPT ![w] = where]

-----------------------------------------------------------------------------
(* Acquiring.                                                              *)

\* A candidate directory with owner.json, under a fresh token.
Prepare(w, t) ==
    /\ At(w, "idle")
    /\ owner[t] = NoWindow
    /\ owner' = [owner EXCEPT ![t] = w]
    /\ mine' = [mine EXCEPT ![w] = t]
    /\ recovered' = [recovered EXCEPT ![w] = 0]
    /\ Goto(w, "renaming")
    /\ UNCHANGED <<lock, emptied, tomb, alive, previous>>

\* What rename can replace: nothing, or on POSIX an empty directory.
LockFree == lock = NoLock \/ (emptied /\ RenameOverEmpty)

Acquire(w) ==
    /\ At(w, "renaming")
    /\ recovered[w] < 2
    /\ LockFree
    /\ lock' = mine[w]
    /\ emptied' = FALSE
    /\ Goto(w, "working")
    /\ UNCHANGED <<tomb, owner, alive, mine, previous, recovered>>

\* The rename is refused, and the owner.json in the way can be read.
ReadOwner(w) ==
    /\ At(w, "renaming")
    /\ recovered[w] < 2
    /\ lock # NoLock
    /\ ~ emptied
    /\ previous' = [previous EXCEPT ![w] = lock]
    /\ Goto(w, "judging")
    /\ UNCHANGED <<lock, emptied, tomb, owner, alive, mine, recovered>>

\* Mutant of Judge: an old lock is stale whoever holds it.
JudgeByAge(w) ==
    /\ At(w, "judging")
    /\ Goto(w, "recovering")
    /\ UNCHANGED <<lock, emptied, tomb, owner, alive, mine, previous, recovered>>

\* The owner is a process of this host that no longer runs, and the lock is at
\* least 30 s old.
Judge(w) ==
    /\ At(w, "judging")
    /\ owner[previous[w]] \notin alive
    /\ Goto(w, "recovering")
    /\ UNCHANGED <<lock, emptied, tomb, owner, alive, mine, previous, recovered>>

\* Mutant of Recover: the stale lock is deleted, not kept as a tombstone.
RecoverByDeletion(w) ==
    /\ At(w, "recovering")
    /\ lock # NoLock
    /\ lock' = NoLock
    /\ emptied' = FALSE
    /\ recovered' = [recovered EXCEPT ![w] = @ + 1]
    /\ Goto(w, "renaming")
    /\ UNCHANGED <<tomb, owner, alive, mine, previous>>

\* Whatever directory is the lock now is renamed to the tombstone of the token
\* that was read.
Recover(w) ==
    LET t == previous[w]
    IN /\ At(w, "recovering")
       /\ lock # NoLock
       /\ tomb[t] = "none" \/ (tomb[t] = "empty" /\ RenameOverEmpty)
       /\ tomb' = [tomb EXCEPT ![t] = IF emptied THEN "empty" ELSE "full"]
       /\ lock' = NoLock
       /\ emptied' = FALSE
       /\ recovered' = [recovered EXCEPT ![w] = @ + 1]
       /\ Goto(w, "renaming")
       /\ UNCHANGED <<owner, alive, mine, previous>>

\* BUSY: the owner is alive, on another host, too young or unreadable, another
\* window recovers the lock, or the second try failed; or any file operation
\* fails, or the operation is cancelled.
Fail(w) ==
    /\ \E where \in {"renaming", "judging", "recovering"} : At(w, where)
    /\ Goto(w, "idle")
    /\ UNCHANGED <<lock, emptied, tomb, owner, alive, mine, previous, recovered>>

-----------------------------------------------------------------------------
(* Releasing.                                                              *)

\* The action returned, failed or was cancelled.
Finish(w) ==
    /\ At(w, "working")
    /\ Goto(w, "unlinking")
    /\ UNCHANGED <<lock, emptied, tomb, owner, alive, mine, previous, recovered>>

\* rm of whatever directory is the lock now: first its owner.json.
Unlink(w) ==
    /\ At(w, "unlinking")
    /\ emptied' = (lock # NoLock)
    /\ Goto(w, "removing")
    /\ UNCHANGED <<lock, tomb, owner, alive, mine, previous, recovered>>

\* Then the directory, unless another window's candidate has replaced it.
RemoveDirectory(w) ==
    /\ At(w, "removing")
    /\ IF emptied THEN lock' = NoLock /\ emptied' = FALSE
       ELSE UNCHANGED <<lock, emptied>>
    /\ Goto(w, "idle")
    /\ UNCHANGED <<tomb, owner, alive, mine, previous, recovered>>

\* rm fails; the window reports an error and leaves what is left.
ReleaseFails(w) ==
    /\ At(w, "unlinking") \/ At(w, "removing")
    /\ Goto(w, "idle")
    /\ UNCHANGED <<lock, emptied, tomb, owner, alive, mine, previous, recovered>>

\* The window is closed or crashes, at any point.
Die(w) ==
    /\ w \in alive
    /\ DeathsInterleave \/ \A v \in Windows : At(v, "judging") => owner[previous[v]] # w
    /\ alive' = alive \ {w}
    /\ UNCHANGED <<lock, emptied, tomb, owner, step, mine, previous, recovered>>

-----------------------------------------------------------------------------

WindowStep(w) ==
    \/ \E t \in Tokens : Prepare(w, t)
    \/ Acquire(w)
    \/ ReadOwner(w)
    \/ Judge(w)
    \/ Recover(w)
    \/ Fail(w)
    \/ Finish(w)
    \/ Unlink(w)
    \/ RemoveDirectory(w)
    \/ ReleaseFails(w)
    \/ Die(w)

Next == \E w \in Windows : WindowStep(w)

Spec == Init /\ [][Next]_vars

-----------------------------------------------------------------------------
(* Properties.                                                             *)

TypeOK ==
    /\ lock \in Tokens \cup {NoLock}
    /\ emptied \in BOOLEAN
    /\ tomb \in [Tokens -> {"none", "full", "empty"}]
    /\ owner \in [Tokens -> Windows \cup {NoWindow}]
    /\ alive \subseteq Windows
    /\ step \in [Windows -> Steps]
    /\ mine \in [Windows -> Tokens \cup {NoLock}]
    /\ previous \in [Windows -> Tokens \cup {NoLock}]
    /\ recovered \in [Windows -> Nat]

\* Two windows never work on the recorder at the same time, whichever of them
\* die, give up, or recover the lock of a dead one.
MutualExclusion ==
    \A v, w \in Windows : At(v, "working") /\ At(w, "working") => v = w

\* Recovery and release never take the lock of another living window away.
LiveLocksStay ==
    [][\A w \in Windows :
          /\ lock = mine[w] /\ At(w, "working")
          => lock' = lock /\ emptied' = emptied]_vars
=============================================================================
