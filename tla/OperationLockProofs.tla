-------------------------- MODULE OperationLockProofs --------------------------
(***************************************************************************)
(* TLAPS proof that the operation lock excludes, on both platforms and for *)
(* any number of windows and attempts, provided no window dies between the *)
(* reading of its owner.json and the check that it is alive.               *)
(***************************************************************************)
EXTENDS OperationLock, TLAPS

USE NonesAssumption, SwitchesAssumption

-----------------------------------------------------------------------------
(* The inductive invariant.                                                *)

\* A token belongs to the window whose attempt drew it.
TokensAreOwned ==
    /\ \A w \in Windows : mine[w] # NoLock => owner[mine[w]] = w
    /\ \A w \in Windows : step[w] # "idle" => mine[w] # NoLock
    /\ lock # NoLock => owner[lock] \in Windows

\* A window that works, or is about to unlink its owner.json, has the lock.
HoldersHaveTheLock ==
    \A w \in alive :
        step[w] \in {"working", "unlinking"} => lock = mine[w] /\ ~ emptied

\* The directory a dead owner left is untouched, or kept as a full tombstone.
Left(t) == (lock = t /\ ~ emptied) \/ tomb[t] = "full"

KnowsTheDead(w) ==
    /\ previous[w] \in Tokens
    /\ owner[previous[w]] \in Windows
    /\ owner[previous[w]] \notin alive => Left(previous[w])
    /\ step[w] = "recovering" => owner[previous[w]] \notin alive

RecoverersKnowTheDead ==
    \A w \in alive : step[w] \in {"judging", "recovering"} => KnowsTheDead(w)

LInv == TypeOK /\ TokensAreOwned /\ HoldersHaveTheLock /\ RecoverersKnowTheDead

-----------------------------------------------------------------------------

LEMMA TypeInit == Init => TypeOK
<1> SUFFICES ASSUME Init PROVE TypeOK
  OBVIOUS
<1>1. recovered \in [Windows -> Nat]
  BY DEF Init
<1>2. step \in [Windows -> Steps]
  BY DEF Init, Steps
<1>3. tomb \in [Tokens -> {"none", "full", "empty"}]
  BY DEF Init
<1> QED
  BY <1>1, <1>2, <1>3 DEF Init, TypeOK

LEMMA TypeNext == TypeOK /\ [Next]_vars => TypeOK'
<1> SUFFICES ASSUME TypeOK, [Next]_vars PROVE TypeOK'
  OBVIOUS
<1> USE DEF TypeOK, Steps, At, Goto
<1>1. ASSUME NEW w \in Windows, NEW t \in Tokens, Prepare(w, t) PROVE TypeOK'
  BY <1>1 DEF Prepare
<1>2. ASSUME NEW w \in Windows, Acquire(w) PROVE TypeOK'
  BY <1>2 DEF Acquire
<1>3. ASSUME NEW w \in Windows, ReadOwner(w) PROVE TypeOK'
  BY <1>3 DEF ReadOwner
<1>4. ASSUME NEW w \in Windows, Judge(w) \/ Fail(w) \/ Finish(w) \/ ReleaseFails(w)
      PROVE  TypeOK'
  BY <1>4 DEF Judge, Fail, Finish, ReleaseFails
<1>5. ASSUME NEW w \in Windows, Recover(w) PROVE TypeOK'
  <2>1. tomb' \in [Tokens -> {"none", "full", "empty"}]
    BY <1>5 DEF Recover
  <2>2. recovered' \in [Windows -> Nat]
    BY <1>5 DEF Recover
  <2>3. step' \in [Windows -> Steps]
    BY <1>5 DEF Recover
  <2> QED
    BY <1>5, <2>1, <2>2, <2>3 DEF Recover
<1>6. ASSUME NEW w \in Windows, Unlink(w) \/ RemoveDirectory(w) PROVE TypeOK'
  BY <1>6 DEF Unlink, RemoveDirectory
<1>7. ASSUME NEW w \in Windows, Die(w) PROVE TypeOK'
  BY <1>7 DEF Die
<1>8. CASE UNCHANGED vars
  BY <1>8 DEF vars
<1> QED
  BY <1>1, <1>2, <1>3, <1>4, <1>5, <1>6, <1>7, <1>8 DEF Next, WindowStep

\* Every reachable state of the lock has the declared types.
THEOREM TypeCorrect == Spec => []TypeOK
<1> QED
  BY TypeInit, TypeNext, PTL DEF Spec

-----------------------------------------------------------------------------
(* LInv is inductive.                                                      *)

LEMMA LInvInit == Init => LInv
  BY TypeInit DEF Init, LInv, TokensAreOwned, HoldersHaveTheLock, RecoverersKnowTheDead

LEMMA TokensNext ==
    ASSUME LInv, TypeOK', [Next]_vars
    PROVE  TokensAreOwned'
<1> USE DEF LInv, TokensAreOwned, TypeOK, At, Goto
<1>1. ASSUME NEW w \in Windows, NEW t \in Tokens, Prepare(w, t) PROVE TokensAreOwned'
  BY <1>1 DEF Prepare
<1>2. ASSUME NEW w \in Windows, Acquire(w) PROVE TokensAreOwned'
  BY <1>2 DEF Acquire
<1>3. ASSUME NEW w \in Windows, ReadOwner(w) PROVE TokensAreOwned'
  BY <1>3 DEF ReadOwner
<1>4. ASSUME NEW w \in Windows, Judge(w) \/ Fail(w) \/ Finish(w) \/ ReleaseFails(w)
      PROVE  TokensAreOwned'
  BY <1>4 DEF Judge, Fail, Finish, ReleaseFails
<1>5. ASSUME NEW w \in Windows, Recover(w) PROVE TokensAreOwned'
  BY <1>5 DEF Recover
<1>6. ASSUME NEW w \in Windows, Unlink(w) \/ RemoveDirectory(w) PROVE TokensAreOwned'
  BY <1>6 DEF Unlink, RemoveDirectory
<1>7. ASSUME NEW w \in Windows, Die(w) PROVE TokensAreOwned'
  BY <1>7 DEF Die
<1>8. CASE UNCHANGED vars
  BY <1>8 DEF vars
<1> QED
  BY <1>1, <1>2, <1>3, <1>4, <1>5, <1>6, <1>7, <1>8 DEF Next, WindowStep

\* No step takes the lock of a living window that holds it, but its own unlinking.
LEMMA HeldLockStays ==
    ASSUME LInv, [Next]_vars, NEW w \in Windows,
           w \in alive, step[w] \in {"working", "unlinking"}, ~ Unlink(w)
    PROVE  lock' = lock /\ emptied' = emptied
<1> USE DEF At, Goto
<1>1. /\ lock = mine[w] /\ ~ emptied /\ lock # NoLock
      /\ owner[lock] = w
  BY DEF LInv, HoldersHaveTheLock, TokensAreOwned
<1>2. ~ LockFree
  BY <1>1 DEF LockFree
<1>3. ASSUME NEW v \in Windows, Recover(v) PROVE FALSE
  <2>1. owner[previous[v]] \notin alive /\ Left(previous[v])
    BY <1>3 DEF Recover, LInv, RecoverersKnowTheDead, KnowsTheDead
  <2>2. tomb[previous[v]] # "full"
    BY <1>3 DEF Recover
  <2>3. previous[v] = lock
    BY <2>1, <2>2 DEF Left
  <2> QED
    BY <1>1, <2>1, <2>3
<1>4. ASSUME NEW v \in Windows, Unlink(v) PROVE FALSE
  <2>1. lock = mine[v]
    BY <1>4 DEF Unlink, LInv, HoldersHaveTheLock
  <2>2. v = w
    BY <1>1, <2>1 DEF LInv, TokensAreOwned
  <2> QED
    BY <1>4, <2>2
<1>5. ASSUME NEW v \in Windows, WindowStep(v)
      PROVE  lock' = lock /\ emptied' = emptied
  BY <1>1, <1>2, <1>3, <1>4, <1>5
     DEF WindowStep, Prepare, Acquire, ReadOwner, Judge, Fail, Finish,
         RemoveDirectory, ReleaseFails, Die
<1>6. CASE UNCHANGED vars
  BY <1>6 DEF vars
<1>7. CASE Next
  BY <1>5, <1>7 DEF Next
<1> QED
  BY <1>6, <1>7

LEMMA HoldersNext ==
    ASSUME LInv, TypeOK', [Next]_vars
    PROVE  HoldersHaveTheLock'
<1> SUFFICES ASSUME NEW w \in alive', step'[w] \in {"working", "unlinking"}
             PROVE  lock' = mine'[w] /\ ~ emptied'
  BY DEF HoldersHaveTheLock
<1>1. w \in Windows /\ w \in alive
  BY DEF LInv, TypeOK, Next, WindowStep, Prepare, Acquire, ReadOwner, Judge, Recover,
     Fail, Finish, Unlink, RemoveDirectory, ReleaseFails, Die, vars
<1>2. CASE step[w] \in {"working", "unlinking"}
  <2>1. ~ Unlink(w)
    BY <1>1 DEF Unlink, Goto, LInv, TypeOK
  <2>2. lock' = lock /\ emptied' = emptied
    BY <1>1, <1>2, <2>1, HeldLockStays
  <2>3. lock = mine[w] /\ ~ emptied
    BY <1>1, <1>2 DEF LInv, HoldersHaveTheLock
  <2>4. mine'[w] = mine[w]
    BY <1>1, <1>2 DEF LInv, TypeOK, Next, WindowStep, Prepare, Acquire, ReadOwner,
       Judge, Recover, Fail, Finish, Unlink, RemoveDirectory, ReleaseFails, Die, vars,
       At, Goto
  <2> QED
    BY <2>2, <2>3, <2>4
<1>3. CASE step[w] \notin {"working", "unlinking"}
  <2>1. Acquire(w)
    BY <1>1, <1>3 DEF LInv, TypeOK, Next, WindowStep, Prepare, Acquire, ReadOwner,
       Judge, Recover, Fail, Finish, Unlink, RemoveDirectory, ReleaseFails, Die, vars,
       At, Goto
  <2> QED
    BY <2>1 DEF Acquire
<1> QED
  BY <1>2, <1>3

\* What a dead owner left stays where it is, or becomes a full tombstone.
LEMMA LeftStays ==
    ASSUME LInv, [Next]_vars, NEW t \in Tokens,
           owner[t] \in Windows, owner[t] \notin alive, Left(t)
    PROVE  Left(t)'
<1> USE DEF At, Goto, Left
<1>1. ASSUME NEW v \in Windows, Acquire(v) PROVE Left(t)'
  BY <1>1 DEF Acquire, LockFree
<1>2. ASSUME NEW v \in Windows, Recover(v) PROVE Left(t)'
  <2>1. Left(previous[v]) /\ previous[v] \in Tokens
    BY <1>2 DEF Recover, LInv, RecoverersKnowTheDead, KnowsTheDead
  <2>2. tomb[previous[v]] # "full"
    BY <1>2 DEF Recover
  <2>3. lock = previous[v] /\ ~ emptied
    BY <2>1, <2>2
  <2> QED
    BY <1>2, <2>1, <2>3 DEF Recover, LInv, TypeOK
<1>3. ASSUME NEW v \in Windows, Unlink(v) PROVE Left(t)'
  <2>1. lock = mine[v] /\ owner[mine[v]] = v /\ v \in alive
    BY <1>3 DEF Unlink, LInv, HoldersHaveTheLock, TokensAreOwned
  <2>2. lock # t
    BY <2>1
  <2> QED
    BY <1>3, <2>2 DEF Unlink
<1>4. ASSUME NEW v \in Windows, RemoveDirectory(v) PROVE Left(t)'
  BY <1>4 DEF RemoveDirectory
<1>5. CASE UNCHANGED <<lock, emptied, tomb>>
  BY <1>5
<1> QED
  BY <1>1, <1>2, <1>3, <1>4, <1>5
     DEF Next, WindowStep, Prepare, ReadOwner, Judge, Fail, Finish, ReleaseFails, Die, vars

\* A recoverer's token is that of a dead owner's directory, as long as no window
\* dies between the reading of its owner.json and the check that it is alive.
LEMMA RecoverersNext ==
    ASSUME LInv, TypeOK', [Next]_vars, ~ DeathsInterleave
    PROVE  RecoverersKnowTheDead'
<1> DEFINE Watching(w) == step[w] \in {"judging", "recovering"}
<1> SUFFICES ASSUME NEW w \in alive', step'[w] \in {"judging", "recovering"}
             PROVE  KnowsTheDead(w)'
  BY DEF RecoverersKnowTheDead
<1> USE DEF At, Goto
<1>1. w \in Windows /\ w \in alive
  BY DEF LInv, TypeOK, Next, WindowStep, Prepare, Acquire, ReadOwner, Judge, Recover,
     Fail, Finish, Unlink, RemoveDirectory, ReleaseFails, Die, vars
<1>2. CASE ~ Watching(w)
  <2>1. ReadOwner(w)
    BY <1>1, <1>2 DEF LInv, TypeOK, Next, WindowStep, Prepare, Acquire, ReadOwner,
       Judge, Recover, Fail, Finish, Unlink, RemoveDirectory, ReleaseFails, Die, vars
  <2>2. previous'[w] = lock /\ lock \in Tokens /\ ~ emptied /\ step'[w] = "judging"
    BY <1>1, <2>1 DEF ReadOwner, LInv, TypeOK
  <2>3. UNCHANGED <<lock, emptied, tomb, owner, alive>>
    BY <2>1 DEF ReadOwner
  <2>4. owner[lock] \in Windows
    BY <2>2 DEF LInv, TokensAreOwned
  <2> QED
    BY <2>2, <2>3, <2>4 DEF Left, KnowsTheDead
<1>3. CASE Watching(w)
  <2> PICK t \in Tokens : t = previous[w]
    BY <1>1, <1>3 DEF LInv, RecoverersKnowTheDead, KnowsTheDead
  <2>1. owner[t] \in Windows /\ (owner[t] \notin alive => Left(t))
    BY <1>1, <1>3 DEF LInv, RecoverersKnowTheDead, KnowsTheDead
  <2>2. previous'[w] = t
    BY <1>1, <1>3 DEF LInv, TypeOK, Next, WindowStep, Prepare, Acquire, ReadOwner,
       Judge, Recover, Fail, Finish, Unlink, RemoveDirectory, ReleaseFails, Die, vars
  <2>3. owner'[t] = owner[t]
    BY <2>1 DEF LInv, TypeOK, Next, WindowStep, Prepare, Acquire, ReadOwner, Judge,
       Recover, Fail, Finish, Unlink, RemoveDirectory, ReleaseFails, Die, vars
  <2>4. alive' \subseteq alive
    BY DEF Next, WindowStep, Prepare, Acquire, ReadOwner, Judge, Recover, Fail, Finish,
       Unlink, RemoveDirectory, ReleaseFails, Die, vars
  <2>5. CASE owner[t] \notin alive
    <3>1. Left(t)'
      BY <2>1, <2>5, LeftStays
    <3>2. owner'[t] \notin alive'
      BY <2>3, <2>4, <2>5
    <3> QED
      BY <2>1, <2>2, <2>3, <3>1, <3>2 DEF KnowsTheDead
  <2>6. CASE owner[t] \in alive
    <3>1. step[w] = "judging"
      BY <1>1, <1>3, <2>6 DEF LInv, RecoverersKnowTheDead, KnowsTheDead
    <3>2. owner[t] \in alive'
      BY <1>1, <2>6, <3>1 DEF Next, WindowStep, Prepare, Acquire, ReadOwner, Judge,
         Recover, Fail, Finish, Unlink, RemoveDirectory, ReleaseFails, Die, vars
    <3>3. ~ Judge(w)
      BY <2>6 DEF Judge
    <3>4. step'[w] # "recovering"
      BY <1>1, <3>1, <3>3 DEF LInv, TypeOK, Next, WindowStep, Prepare, Acquire,
         ReadOwner, Judge, Recover, Fail, Finish, Unlink, RemoveDirectory,
         ReleaseFails, Die, vars
    <3> QED
      BY <2>1, <2>2, <2>3, <3>2, <3>4 DEF KnowsTheDead
  <2> QED
    BY <2>5, <2>6
<1> QED
  BY <1>2, <1>3

LEMMA LInvAlways ==
    ASSUME ~ DeathsInterleave
    PROVE  Spec => []LInv
<1>1. LInv /\ [Next]_vars => LInv'
  <2> SUFFICES ASSUME LInv, [Next]_vars PROVE LInv'
    OBVIOUS
  <2>1. TypeOK'
    BY TypeNext DEF LInv
  <2> QED
    BY <2>1, TokensNext, HoldersNext, RecoverersNext DEF LInv
<1> QED
  BY <1>1, LInvInit, PTL DEF Spec

\* Two windows never work on the recorder at the same time.
THEOREM LockExcludes ==
    ASSUME ~ DeathsInterleave
    PROVE  Spec => []MutualExclusion
<1>1. LInv => MutualExclusion
  BY DEF LInv, MutualExclusion, At, HoldersHaveTheLock, TokensAreOwned
<1> QED
  BY <1>1, LInvAlways, PTL

\* Recovery and release never take the lock of another living window away.
THEOREM LiveLocksAreKept ==
    ASSUME ~ DeathsInterleave
    PROVE  Spec => LiveLocksStay
<1>1. LInv /\ [Next]_vars
      => [\A w \in Windows :
             /\ lock = mine[w] /\ At(w, "working")
             => lock' = lock /\ emptied' = emptied]_vars
  <2> SUFFICES ASSUME LInv, [Next]_vars, NEW w \in Windows, At(w, "working")
               PROVE  lock' = lock /\ emptied' = emptied
    OBVIOUS
  <2>1. ~ Unlink(w)
    BY DEF At, Unlink
  <2> QED
    BY <2>1, HeldLockStays DEF At
<1> QED
  BY <1>1, LInvAlways, PTL DEF Spec, LiveLocksStay
=============================================================================
