--------------------------- MODULE TaskContextProofs ---------------------------
(***************************************************************************)
(* What the operators of RunContent that decide the task of an event       *)
(* compute, for every run of events.  TaskContext folds a run into a stack *)
(* of tasks; the specification of the current task, MostRecentlyStarted,   *)
(* knows no stack.  The proof that they agree is an induction over the     *)
(* length of the run (StackOfRun), whose hypothesis says which tasks the   *)
(* stack holds and in which order (StackOf).                               *)
(***************************************************************************)
EXTENDS RunContent, SequenceTheorems, FiniteSetTheorems, TLAPS

USE ObservationsAssumption, NonesAssumption, MaximumAssumption

-----------------------------------------------------------------------------
(* Induction, and the fold of TaskContext.                                 *)

\* A nonempty set of naturals has a least element: the relation < of Nat is
\* well-founded.  The induction theorems of the library take an operator as a
\* parameter, so every induction below is over a set and rests on this one.
LEMMA LeastElement ==
    ASSUME NEW S, S \subseteq Nat, S # {}
    PROVE  \E n \in S : \A m \in S : n <= m
<1>0. \A R : IsWellFoundedOn(R, Nat) => \E n \in S : \A m \in S : <<m, n>> \notin R
  BY WFMin, Zenon
<1>1. PICK n \in S : \A m \in S : <<m, n>> \notin OpToRel(<, Nat)
  BY <1>0, NatLessThanWellFounded, Zenon
<1>2. \A m \in S : m \in Nat /\ (<<m, n>> \in OpToRel(<, Nat) <=> m < n)
  BY DEF OpToRel
<1>3. \A m \in S : ~ m < n /\ m \in Nat /\ n \in Nat
  BY <1>1, <1>2
<1> QED
  BY <1>3

\* Induction over the naturals, for a set of them.
LEMMA SetInduction ==
    ASSUME NEW S, 0 \in S, \A n \in Nat : n \in S => n + 1 \in S
    PROVE  Nat \subseteq S
<1> SUFFICES ASSUME Nat \ S # {}
             PROVE  FALSE
  OBVIOUS
<1>1. PICK n \in Nat \ S : \A m \in Nat \ S : n <= m
  BY LeastElement
<1>2. n # 0 /\ n - 1 \in Nat /\ n - 1 \in S
  BY <1>1
<1> QED
  BY <1>1, <1>2

\* The function by which FoldLeft runs the loop of TaskContext over the first n
\* events, one set of positions at a time, the last position of it last.
IsFold(fold, evs, n) ==
    fold = [s \in SUBSET (1..n) |->
              IF s = {} THEN <<>>
              ELSE LET x == Max(s) IN Advance(fold[s \ {x}], evs[x])]

\* The last position of a set that holds it.
LEMMA MaxOfInterval ==
    ASSUME NEW n \in Nat, NEW s, s \subseteq 1..n, n \in s
    PROVE  Max(s) = n /\ s # {}
<1>1. \A y \in s : n >= y
  OBVIOUS
<1>2. \A x \in s : (\A y \in s : x >= y) => x = n
  <2> SUFFICES ASSUME NEW x \in s, \A y \in s : x >= y
               PROVE  x = n
    OBVIOUS
  <2>1. x >= n /\ n >= x /\ x \in Nat
    BY <1>1
  <2> QED
    BY <2>1
<1>3. (CHOOSE x \in s : \A y \in s : x >= y) = n
  BY <1>1, <1>2
<1> QED
  BY <1>3 DEF Max

\* The loop has a result for every number of events.
LEMMA FoldExists ==
    ASSUME NEW evs, NEW n \in Nat
    PROVE  \E fold : IsFold(fold, evs, n)
<1> DEFINE Good == {k \in Nat : \E fold : IsFold(fold, evs, k)}
<1>1. 0 \in Good
  <2>1. IsFold([s \in SUBSET (1..0) |-> <<>>], evs, 0)
    BY DEF IsFold
  <2> QED
    BY <2>1
<1>2. ASSUME NEW k \in Nat, k \in Good
      PROVE  k + 1 \in Good
  <2>1. PICK fold : IsFold(fold, evs, k)
    BY <1>2
  <2> DEFINE more == [s \in SUBSET (1..(k + 1)) |->
                        IF k + 1 \in s THEN Advance(fold[s \ {k + 1}], evs[k + 1]) ELSE fold[s]]
  <2>2. ASSUME NEW s \in SUBSET (1..(k + 1))
        PROVE  more[s] = IF s = {} THEN <<>>
                         ELSE LET x == Max(s) IN Advance(more[s \ {x}], evs[x])
    <3>1. CASE k + 1 \in s
      <4>1. Max(s) = k + 1 /\ s # {}
        <5>1. k + 1 \in Nat /\ s \subseteq 1..(k + 1)
          OBVIOUS
        <5> QED
          BY <3>1, <5>1, MaxOfInterval
      <4>2. s \ {k + 1} \in SUBSET (1..(k + 1)) /\ k + 1 \notin s \ {k + 1}
        OBVIOUS
      <4>3. more[s \ {k + 1}] = fold[s \ {k + 1}]
        BY <4>2
      <4> HIDE DEF more
      <4>4. more[s] = Advance(fold[s \ {k + 1}], evs[k + 1])
        BY <3>1 DEF more
      <4> QED
        BY <4>1, <4>3, <4>4
    <3>2. CASE k + 1 \notin s
      <4>1. s \in SUBSET (1..k)
        BY <3>2
      <4>2. \A x : s \ {x} \in SUBSET (1..k) /\ k + 1 \notin s \ {x}
        BY <3>2, <4>1
      <4>3. more[s] = fold[s] /\ \A x : more[s \ {x}] = fold[s \ {x}]
        BY <3>2, <4>2
      <4> HIDE DEF more
      <4> QED
        BY <2>1, <4>1, <4>3 DEF IsFold
    <3> QED
      BY <3>1, <3>2
  <2>3. more = [s \in SUBSET (1..(k + 1)) |-> more[s]]
    OBVIOUS
  <2> HIDE DEF more
  <2>4. IsFold(more, evs, k + 1)
    BY <2>2, <2>3 DEF IsFold
  <2> QED
    BY <2>4
<1> HIDE DEF Good
<1>3. Nat \subseteq Good
  BY <1>1, <1>2, SetInduction
<1> QED
  BY <1>3 DEF Good

\* ActiveTasks is what the loop leaves after the last event.
LEMMA ActiveTasksIsFold ==
    ASSUME NEW evs, DOMAIN evs = 1..Len(evs), Len(evs) \in Nat
    PROVE  \E fold : IsFold(fold, evs, Len(evs)) /\ ActiveTasks(evs) = fold[1..Len(evs)]
<1> DEFINE iter == CHOOSE fold : IsFold(fold, evs, Len(evs))
<1>1. IsFold(iter, evs, Len(evs))
  BY FoldExists
<1>2. ActiveTasks(evs) = iter[1..Len(evs)]
  BY DEF ActiveTasks, FoldLeft, MapThenFoldSet, IsFold
<1> QED
  BY <1>1, <1>2

\* The loop starts with the empty stack, and each event advances it by one step.
LEMMA FoldStep ==
    ASSUME NEW n \in Nat, NEW evs, NEW fold, IsFold(fold, evs, n)
    PROVE  /\ fold[1..0] = <<>>
           /\ \A k \in 0..(n - 1) : fold[1..(k + 1)] = Advance(fold[1..k], evs[k + 1])
<1>1. 1..0 = {} /\ {} \in SUBSET (1..n)
  OBVIOUS
<1>2. fold[1..0] = <<>>
  BY <1>1 DEF IsFold
<1>3. ASSUME NEW k \in 0..(n - 1)
      PROVE  fold[1..(k + 1)] = Advance(fold[1..k], evs[k + 1])
  <2>1. k + 1 \in Nat /\ k + 1 \in 1..(k + 1)
    OBVIOUS
  <2>2. Max(1..(k + 1)) = k + 1 /\ 1..(k + 1) # {}
    BY <2>1, MaxOfInterval
  <2>3. (1..(k + 1)) \ {k + 1} = 1..k /\ 1..(k + 1) \in SUBSET (1..n)
    OBVIOUS
  <2> QED
    BY <2>2, <2>3 DEF IsFold
<1> QED
  BY <1>2, <1>3

\* What the loop leaves after n events does not depend on the events that follow.
LEMMA FoldsAgree ==
    ASSUME NEW n \in Nat, NEW m \in Nat, n <= m, NEW evs, NEW more, NEW f, NEW g,
           IsFold(f, evs, n), IsFold(g, more, m), \A i \in 1..n : more[i] = evs[i]
    PROVE  f[1..n] = g[1..n]
<1> DEFINE Good == {k \in Nat : k <= n => f[1..k] = g[1..k]}
<1>1. 0 \in Good
  BY FoldStep
<1>2. ASSUME NEW k \in Nat, k \in Good
      PROVE  k + 1 \in Good
  <2> SUFFICES ASSUME k + 1 <= n
               PROVE  f[1..(k + 1)] = g[1..(k + 1)]
    OBVIOUS
  <2>1. k \in 0..(n - 1) /\ k \in 0..(m - 1) /\ k <= n /\ more[k + 1] = evs[k + 1]
    OBVIOUS
  <2>2. f[1..k] = g[1..k]
    BY <1>2, <2>1
  <2>3. f[1..(k + 1)] = Advance(f[1..k], evs[k + 1])
    BY <2>1, FoldStep
  <2>4. g[1..(k + 1)] = Advance(g[1..k], more[k + 1])
    BY <2>1, FoldStep
  <2> QED
    BY <2>1, <2>2, <2>3, <2>4
<1> HIDE DEF Good
<1>3. n \in Good
  BY <1>1, <1>2, SetInduction
<1> QED
  BY <1>3 DEF Good

\* A run without events has no active task.
LEMMA ActiveTasksEmpty == ActiveTasks(<<>>) = <<>>
<1>1. DOMAIN <<>> = 1..0 /\ Len(<<>>) = 0 /\ 0 \in Nat /\ DOMAIN <<>> = 1..Len(<<>>)
  OBVIOUS
<1>2. PICK fold : IsFold(fold, <<>>, 0) /\ ActiveTasks(<<>>) = fold[1..0]
  BY <1>1, ActiveTasksIsFold
<1> QED
  BY <1>2, FoldStep

\* An event that is appended to a run advances the stack of its tasks by one step.
LEMMA ActiveTasksAppend ==
    ASSUME NEW evs \in Seq(Event), NEW e \in Event
    PROVE  ActiveTasks(Append(evs, e)) = Advance(ActiveTasks(evs), e)
<1> DEFINE n == Len(evs)
           more == Append(evs, e)
<1>1. /\ n \in Nat /\ DOMAIN evs = 1..n /\ Len(more) = n + 1 /\ more \in Seq(Event)
      /\ more[n + 1] = e /\ \A i \in 1..n : more[i] = evs[i]
  BY AppendProperties, LenProperties
<1>2. DOMAIN more = 1..Len(more) /\ n + 1 \in Nat
  BY <1>1, LenProperties
<1> HIDE DEF more
<1>3. PICK f : IsFold(f, evs, n) /\ ActiveTasks(evs) = f[1..n]
  BY <1>1, ActiveTasksIsFold
<1>4. PICK g : IsFold(g, more, n + 1) /\ ActiveTasks(more) = g[1..(n + 1)]
  BY <1>1, <1>2, ActiveTasksIsFold
<1> HIDE DEF n
<1>5. g[1..(n + 1)] = Advance(g[1..n], more[n + 1])
  BY <1>1, <1>2, <1>4, FoldStep
<1>6. f[1..n] = g[1..n]
  <2>1. n <= n + 1
    BY <1>1
  <2> QED
    BY <1>1, <1>2, <1>3, <1>4, <2>1, FoldsAgree
<1> QED
  BY <1>1, <1>3, <1>4, <1>5, <1>6 DEF more

-----------------------------------------------------------------------------
(* The stack.                                                              *)

\* The least member of a set of naturals.
LEMMA MinOfSet ==
    ASSUME NEW S, S \subseteq Nat, S # {}
    PROVE  Min(S) \in S /\ \A n \in S : Min(S) <= n
  BY LeastElement DEF Min

\* A member below all others is the least one.
LEMMA MinIs ==
    ASSUME NEW S, S \subseteq Nat, NEW n \in S, \A m \in S : n <= m
    PROVE  Min(S) = n
<1>1. Min(S) \in S /\ Min(S) <= n
  BY MinOfSet
<1>2. n <= Min(S) /\ Min(S) \in Nat /\ n \in Nat
  BY <1>1
<1> QED
  BY <1>1, <1>2

\* The stack without the entry at p: the entries above it move down by one.
LEMMA Removed ==
    ASSUME NEW S, NEW s \in Seq(S), NEW p \in 1..Len(s)
    PROVE  /\ Len(s) \in Nat
           /\ RemoveAt(s, p) \in Seq(S)
           /\ Len(RemoveAt(s, p)) = Len(s) - 1
           /\ \A i \in 1..(Len(s) - 1) : RemoveAt(s, p)[i] = IF i < p THEN s[i] ELSE s[i + 1]
<1> DEFINE n == Len(s)
           front == SubSeq(s, 1, p - 1)
           back == SubSeq(s, p + 1, n)
<1>1. n \in Nat /\ p \in 1..n /\ \A i \in 1..n : s[i] \in S
  BY LenProperties, ElementOfSeq
<1>2. /\ front \in Seq(S) /\ Len(front) = p - 1
      /\ \A i \in 1..(p - 1) : front[i] = s[i]
  <2>1. /\ 1 \in Int /\ p - 1 \in Int /\ \A i \in 1..(p - 1) : s[i] \in S
        /\ (p - 1) - 1 + 1 = p - 1 /\ \A i \in 1..(p - 1) : 1 + i - 1 = i
    BY <1>1
  <2>2. /\ front \in Seq(S)
        /\ Len(front) = IF 1 <= p - 1 THEN p - 1 - 1 + 1 ELSE 0
        /\ \A i \in 1..(p - 1 - 1 + 1) : front[i] = s[1 + i - 1]
    BY <2>1, SubSeqProperties
  <2> HIDE DEF front, n
  <2> QED
    BY <2>1, <2>2, <1>1
<1>3. /\ back \in Seq(S) /\ Len(back) = n - p
      /\ \A i \in 1..(n - p) : back[i] = s[p + i]
  <2>1. /\ p + 1 \in Int /\ n \in Int /\ \A i \in (p + 1)..n : s[i] \in S
        /\ \A i \in 1..(n - p) : p + 1 + i - 1 = p + i
    BY <1>1
  <2>2. /\ back \in Seq(S)
        /\ Len(back) = IF p + 1 <= n THEN n - (p + 1) + 1 ELSE 0
        /\ \A i \in 1..(n - (p + 1) + 1) : back[i] = s[p + 1 + i - 1]
    BY <2>1, SubSeqProperties
  <2>3. (p + 1 <= n \/ p = n) /\ n - (p + 1) + 1 = n - p
    BY <1>1
  <2> HIDE DEF back, n
  <2>4. Len(back) = n - p
    BY <1>1, <2>2, <2>3
  <2> QED
    BY <2>1, <2>2, <2>3, <2>4
<1>4. RemoveAt(s, p) = front \o back
  BY DEF RemoveAt
<1> HIDE DEF front, back, n
<1>5. /\ front \o back \in Seq(S) /\ Len(front \o back) = (p - 1) + (n - p)
      /\ \A i \in 1..((p - 1) + (n - p)) :
            (front \o back)[i] = IF i <= p - 1 THEN front[i] ELSE back[i - (p - 1)]
  <2>1. /\ front \o back \in Seq(S) /\ Len(front \o back) = Len(front) + Len(back)
        /\ \A i \in 1..(Len(front) + Len(back)) :
              (front \o back)[i] = IF i <= Len(front) THEN front[i] ELSE back[i - Len(front)]
    <3>1. front \in Seq(S) /\ back \in Seq(S)
      BY <1>2, <1>3
    <3> QED
      BY <3>1, ConcatProperties
  <2> QED
    BY <1>2, <1>3, <2>1
<1>6. (p - 1) + (n - p) = n - 1
  BY <1>1
<1>7. ASSUME NEW i \in 1..(n - 1)
      PROVE  (front \o back)[i] = IF i < p THEN s[i] ELSE s[i + 1]
  <2>1. CASE i < p
    <3>1. i <= p - 1 /\ i \in 1..(p - 1)
      BY <1>1, <2>1
    <3> QED
      BY <1>2, <1>5, <1>6, <2>1, <3>1
  <2>2. CASE ~ i < p
    <3>1. ~ i <= p - 1 /\ i - (p - 1) \in 1..(n - p) /\ p + (i - (p - 1)) = i + 1
      BY <1>1, <2>2
    <3> QED
      BY <1>3, <1>5, <1>6, <2>2, <3>1
  <2> QED
    BY <2>1, <2>2
<1> QED
  BY <1>1, <1>4, <1>5, <1>6, <1>7 DEF n

\* The place of the event by which an active task was started.
Since(evs, task) == Min(ActiveSince(evs, task))

\* The stack holds the active tasks, each once, in the order they were started.
StackOf(stack, evs) ==
    /\ stack \in Seq(Tasks)
    /\ \A task \in Tasks :
          (\E i \in 1..Len(stack) : stack[i] = task) <=> ActiveSince(evs, task) # {}
    /\ \A i, j \in 1..Len(stack) : i < j => Since(evs, stack[i]) < Since(evs, stack[j])

\* An active task was started by an event of the run.
LEMMA SinceFacts ==
    ASSUME NEW evs \in Seq(Event), NEW task, ActiveSince(evs, task) # {}
    PROVE  Since(evs, task) \in ActiveSince(evs, task) /\ Since(evs, task) \in 1..Len(evs)
<1>1. DOMAIN evs = 1..Len(evs) /\ Len(evs) \in Nat
  BY LenProperties
<1>2. ActiveSince(evs, task) \subseteq 1..Len(evs) /\ ActiveSince(evs, task) \subseteq Nat
  BY <1>1 DEF ActiveSince
<1>3. Since(evs, task) \in ActiveSince(evs, task)
  BY <1>2, MinOfSet DEF Since
<1> QED
  BY <1>2, <1>3

\* How one more event changes since when a task is active.
LEMMA ActiveSinceAppend ==
    ASSUME NEW evs \in Seq(Event), NEW e \in Event, NEW task
    PROVE  LET before == ActiveSince(evs, task)
               after == ActiveSince(Append(evs, e), task)
           IN /\ e.task # task => after = before
              /\ e.task = task /\ e.lifecycle = "complete" => after = {}
              /\ e.task = task /\ e.lifecycle = "start" => after = before \cup {Len(evs) + 1}
              /\ e.task = task /\ e.lifecycle = "none" => after = before
<1> DEFINE n == Len(evs)
           more == Append(evs, e)
<1>1. n \in Nat /\ DOMAIN evs = 1..n
  BY LenProperties
<1>2. DOMAIN more = 1..(n + 1) /\ more[n + 1] = e /\ \A i \in 1..n : more[i] = evs[i]
  BY AppendProperties, LenProperties
<1> HIDE DEF more, n
<1>3. \A i \in 1..(n + 1) : i \in 1..n \/ i = n + 1
  BY <1>1
<1>4. \A i \in 1..n : i \in 1..(n + 1) /\ n + 1 > i /\ i # n + 1 /\ ~ i > n + 1
  BY <1>1
<1>5. n + 1 \in 1..(n + 1) /\ ~ n + 1 > n + 1
  BY <1>1
<1>6. ASSUME NEW i \in 1..n
      PROVE  i \in ActiveSince(more, task) <=>
                i \in ActiveSince(evs, task) /\ ~ (e.task = task /\ e.lifecycle = "complete")
  BY <1>1, <1>2, <1>3, <1>4, <1>5 DEF ActiveSince
<1>7. n + 1 \in ActiveSince(more, task) <=> e.task = task /\ e.lifecycle = "start"
  BY <1>1, <1>2, <1>3, <1>4, <1>5 DEF ActiveSince
<1>8. ActiveSince(more, task) \subseteq 1..(n + 1) /\ ActiveSince(evs, task) \subseteq 1..n
  BY <1>1, <1>2 DEF ActiveSince
<1>9. \A i \in ActiveSince(more, task) : i \in 1..n \/ i = n + 1
  BY <1>3, <1>8
<1> QED
  BY <1>6, <1>7, <1>8, <1>9 DEF more, n

\* One more event and one task: it ends the task, or leaves it active since when
\* it was, or starts it at the place of the event, or leaves it inactive.
LEMMA SinceAppend ==
    ASSUME NEW evs \in Seq(Event), NEW e \in Event, NEW task
    PROVE  LET before == ActiveSince(evs, task)
               more == Append(evs, e)
               after == ActiveSince(more, task)
               completes == e.task = task /\ e.lifecycle = "complete"
               starts == e.task = task /\ e.lifecycle = "start"
           IN /\ completes => after = {}
              /\ ~ completes /\ before # {} => after # {} /\ Since(more, task) = Since(evs, task)
              /\ starts /\ before = {} => after # {} /\ Since(more, task) = Len(evs) + 1
              /\ ~ starts /\ before = {} => after = {}
<1> DEFINE before == ActiveSince(evs, task)
           more == Append(evs, e)
           after == ActiveSince(more, task)
           n == Len(evs)
<1>1. e.lifecycle \in {"none", "start", "complete"}
  BY DEF Event
<1>2. n \in Nat /\ before \subseteq 1..n
  BY LenProperties DEF ActiveSince
<1>3. /\ e.task # task => after = before
      /\ e.task = task /\ e.lifecycle = "complete" => after = {}
      /\ e.task = task /\ e.lifecycle = "start" => after = before \cup {n + 1}
      /\ e.task = task /\ e.lifecycle = "none" => after = before
  BY ActiveSinceAppend
<1> HIDE DEF before, after, n, more
<1>4. ASSUME before # {}, after = before \cup {n + 1}
      PROVE  Min(after) = Min(before)
  <2> DEFINE least == Min(before)
  <2>1. before \subseteq Nat /\ after \subseteq Nat
    BY <1>2, <1>4
  <2>2. least \in before /\ \A i \in before : least <= i
    BY <1>4, <2>1, MinOfSet
  <2> HIDE DEF least
  <2>3. \A i \in after : least <= i
    BY <1>2, <1>4, <2>2
  <2>4. least \in after
    BY <1>4, <2>2
  <2>5. Min(after) = least
    BY <2>1, <2>3, <2>4, MinIs
  <2> QED
    BY <2>5 DEF least
<1>5. ASSUME before = {}, after = before \cup {n + 1}
      PROVE  Min(after) = n + 1
  <2>1. after \subseteq Nat /\ n + 1 \in after /\ \A i \in after : n + 1 <= i
    BY <1>2, <1>5
  <2> QED
    BY <2>1, MinIs
<1> QED
  BY <1>1, <1>3, <1>4, <1>5 DEF Since, before, after, n, more

\* A start of a task that is not on the stack puts it on top.
LEMMA AdvancePush ==
    ASSUME NEW evs \in Seq(Event), NEW e \in Event, NEW stack, StackOf(stack, evs),
           e.lifecycle = "start", e.task # NoTask, ~ Contains(stack, e.task)
    PROVE  StackOf(Append(stack, e.task), Append(evs, e))
<1> DEFINE n == Len(stack)
           more == Append(evs, e)
           new == Append(stack, e.task)
<1>1. e.task \in Tasks
  BY DEF Event
<1>2. /\ stack \in Seq(Tasks) /\ n \in Nat /\ \A i \in 1..n : stack[i] \in Tasks
      /\ new \in Seq(Tasks) /\ Len(new) = n + 1
      /\ new[n + 1] = e.task /\ \A i \in 1..n : new[i] = stack[i]
  BY <1>1, AppendProperties, LenProperties, ElementOfSeq DEF StackOf
<1>3. ActiveSince(evs, e.task) = {}
  BY <1>1 DEF StackOf, Contains
<1>4. Since(more, e.task) = Len(evs) + 1 /\ ActiveSince(more, e.task) # {}
  BY <1>3, SinceAppend
<1>5. ASSUME NEW task \in Tasks, task # e.task
      PROVE  /\ ActiveSince(more, task) # {} <=> ActiveSince(evs, task) # {}
             /\ ActiveSince(evs, task) # {} => Since(more, task) = Since(evs, task)
  BY <1>5, SinceAppend
<1>6. \A i \in 1..n : stack[i] # e.task /\ ActiveSince(evs, stack[i]) # {}
  BY <1>2 DEF StackOf, Contains
<1>7. \A i \in 1..n : Since(more, stack[i]) = Since(evs, stack[i]) /\ Since(evs, stack[i]) \in 1..Len(evs)
  BY <1>2, <1>5, <1>6, SinceFacts
<1>8. \A task \in Tasks : (\E i \in 1..n : stack[i] = task) <=> ActiveSince(evs, task) # {}
  BY DEF StackOf
<1>9. \A i, j \in 1..n : i < j => Since(evs, stack[i]) < Since(evs, stack[j])
  BY DEF StackOf
<1>10. \A i \in 1..(n + 1) : i \in 1..n \/ i = n + 1
  BY <1>2
<1>11. \A i \in 1..n : i \in 1..(n + 1)
  BY <1>2
<1>12. n + 1 \in 1..(n + 1) /\ Len(evs) \in Nat
  BY <1>2, LenProperties
<1> HIDE DEF n, more, new
<1>13. ASSUME NEW task \in Tasks
       PROVE  (\E i \in 1..(n + 1) : new[i] = task) <=> ActiveSince(more, task) # {}
  <2>1. CASE task = e.task
    BY <1>2, <1>4, <1>12, <2>1
  <2>2. CASE task # e.task
    BY <1>2, <1>5, <1>8, <1>10, <1>11, <2>2
  <2> QED
    BY <2>1, <2>2
<1>14. ASSUME NEW i \in 1..(n + 1), NEW j \in 1..(n + 1), i < j
       PROVE  Since(more, new[i]) < Since(more, new[j])
  <2>1. i \in 1..n
    BY <1>2, <1>14
  <2>2. CASE j \in 1..n
    BY <1>2, <1>7, <1>9, <1>14, <2>1, <2>2
  <2>3. CASE j = n + 1
    <3>1. Since(more, new[i]) \in 1..Len(evs) /\ Since(more, new[j]) = Len(evs) + 1
      BY <1>2, <1>4, <1>7, <2>1, <2>3
    <3> QED
      BY <1>12, <3>1
  <2> QED
    BY <1>10, <2>2, <2>3
<1> QED
  BY <1>2, <1>13, <1>14 DEF StackOf, new, more

\* A completion of a task on the stack takes it out, wherever it is: the tasks
\* that were started within it and are still open stay.
LEMMA AdvancePop ==
    ASSUME NEW evs \in Seq(Event), NEW e \in Event, NEW stack, StackOf(stack, evs),
           e.lifecycle = "complete", NEW p \in 1..Len(stack), stack[p] = e.task
    PROVE  StackOf(RemoveAt(stack, p), Append(evs, e))
<1> DEFINE n == Len(stack)
           more == Append(evs, e)
           new == RemoveAt(stack, p)
           old(i) == IF i < p THEN i ELSE i + 1
<1>1. /\ stack \in Seq(Tasks) /\ n \in Nat /\ \A i \in 1..n : stack[i] \in Tasks
      /\ new \in Seq(Tasks) /\ Len(new) = n - 1
      /\ \A i \in 1..(n - 1) : new[i] = IF i < p THEN stack[i] ELSE stack[i + 1]
  <2>1. stack \in Seq(Tasks)
    BY DEF StackOf
  <2>2. n \in Nat /\ \A i \in 1..n : stack[i] \in Tasks
    BY <2>1, LenProperties, ElementOfSeq
  <2> QED
    BY <2>1, <2>2, Removed
<1>2. \A task \in Tasks : (\E i \in 1..n : stack[i] = task) <=> ActiveSince(evs, task) # {}
  BY DEF StackOf
<1>3. \A i, j \in 1..n : i < j => Since(evs, stack[i]) < Since(evs, stack[j])
  BY DEF StackOf
<1>4. ActiveSince(more, e.task) = {}
  BY SinceAppend
<1>5. \A task \in Tasks : task # e.task =>
          /\ ActiveSince(more, task) # {} <=> ActiveSince(evs, task) # {}
          /\ ActiveSince(evs, task) # {} => Since(more, task) = Since(evs, task)
  BY SinceAppend
<1>6. ASSUME NEW i \in 1..n
      PROVE  Since(evs, stack[i]) \in Nat
  <2>1. ActiveSince(evs, stack[i]) # {}
    BY <1>1, <1>2
  <2>2. Since(evs, stack[i]) \in 1..Len(evs) /\ Len(evs) \in Nat
    BY <2>1, SinceFacts, LenProperties
  <2> QED
    BY <2>2
<1>7. \A i \in 1..n : i # p => stack[i] # e.task
  <2> SUFFICES ASSUME NEW i \in 1..n, i # p, stack[i] = e.task
               PROVE  FALSE
    OBVIOUS
  <2>1. i < p \/ p < i
    BY <1>1
  <2>2. Since(evs, stack[i]) # Since(evs, stack[p])
    BY <1>3, <1>6, <2>1
  <2> QED
    BY <2>2
<1>8. p \in 1..n
  OBVIOUS
<1> HIDE DEF n, more, new
<1>9. \A i \in 1..(n - 1) : old(i) \in 1..n /\ old(i) # p /\ new[i] = stack[old(i)]
  BY <1>1, <1>8
<1>10. \A k \in 1..n : k # p => \E i \in 1..(n - 1) : old(i) = k
  <2> SUFFICES ASSUME NEW k \in 1..n, k # p
               PROVE  \E i \in 1..(n - 1) : old(i) = k
    OBVIOUS
  <2>1. CASE k < p
    <3>1. k \in 1..(n - 1) /\ old(k) = k
      BY <1>1, <1>8, <2>1
    <3> QED
      BY <3>1
  <2>2. CASE k > p
    <3>1. k - 1 \in 1..(n - 1) /\ old(k - 1) = k
      BY <1>1, <1>8, <2>2
    <3> QED
      BY <3>1
  <2> QED
    BY <1>1, <1>8, <2>1, <2>2
<1>11. \A i, j \in 1..(n - 1) : i < j => old(i) < old(j)
  BY <1>1, <1>8
<1> HIDE DEF old
<1>12. ASSUME NEW task \in Tasks
       PROVE  (\E i \in 1..(n - 1) : new[i] = task) <=> ActiveSince(more, task) # {}
  <2>1. CASE task = e.task
    BY <1>4, <1>7, <1>9, <2>1
  <2>2. CASE task # e.task
    <3>1. (\E i \in 1..n : stack[i] = task) <=> ActiveSince(more, task) # {}
      BY <1>2, <1>5, <2>2
    <3>2. ASSUME NEW k \in 1..n, stack[k] = task
          PROVE  \E i \in 1..(n - 1) : new[i] = task
      <4>1. k # p
        BY <2>2, <3>2
      <4>2. PICK i \in 1..(n - 1) : old(i) = k
        BY <1>10, <4>1
      <4> QED
        BY <1>9, <3>2, <4>2
    <3>3. ASSUME NEW i \in 1..(n - 1), new[i] = task
          PROVE  \E k \in 1..n : stack[k] = task
      BY <1>9, <3>3
    <3> QED
      BY <3>1, <3>2, <3>3
  <2> QED
    BY <2>1, <2>2
<1>13. ASSUME NEW i \in 1..(n - 1), NEW j \in 1..(n - 1), i < j
       PROVE  Since(more, new[i]) < Since(more, new[j])
  <2>1. old(i) < old(j) /\ old(i) \in 1..n /\ old(j) \in 1..n
    BY <1>9, <1>11, <1>13
  <2>2. Since(evs, stack[old(i)]) < Since(evs, stack[old(j)])
    BY <1>3, <2>1
  <2>3. \A k \in 1..n : k # p => Since(more, stack[k]) = Since(evs, stack[k])
    BY <1>1, <1>2, <1>5, <1>7
  <2>4. /\ Since(more, stack[old(i)]) = Since(evs, stack[old(i)])
        /\ Since(more, stack[old(j)]) = Since(evs, stack[old(j)])
    BY <1>9, <2>3
  <2> QED
    BY <1>9, <2>2, <2>4
<1> QED
  BY <1>1, <1>12, <1>13 DEF StackOf, new, more

\* The entries of the stack are tasks, each of them active, and no two are equal.
LEMMA StackElements ==
    ASSUME NEW evs \in Seq(Event), NEW stack, StackOf(stack, evs)
    PROVE  /\ stack \in Seq(Tasks) /\ Len(stack) \in Nat
           /\ \A i \in 1..Len(stack) : stack[i] \in Tasks /\ Since(evs, stack[i]) \in 1..Len(evs)
           /\ Len(evs) \in Nat
           /\ \A i, j \in 1..Len(stack) : stack[i] = stack[j] => i = j
<1>1. stack \in Seq(Tasks)
  BY DEF StackOf
<1>2. Len(stack) \in Nat /\ \A i \in 1..Len(stack) : stack[i] \in Tasks
  BY <1>1, LenProperties, ElementOfSeq
<1>3. Len(evs) \in Nat
  BY LenProperties
<1>4. \A i \in 1..Len(stack) : Since(evs, stack[i]) \in 1..Len(evs)
  BY <1>2, SinceFacts DEF StackOf
<1>5. ASSUME NEW i \in 1..Len(stack), NEW j \in 1..Len(stack), i < j
      PROVE  stack[i] # stack[j]
  <2>1. Since(evs, stack[i]) < Since(evs, stack[j])
    BY <1>5 DEF StackOf
  <2>2. Since(evs, stack[i]) \in Nat
    BY <1>3, <1>4
  <2> QED
    BY <2>1, <2>2
<1>6. \A i, j \in 1..Len(stack) : i < j \/ j < i \/ i = j
  BY <1>2
<1>7. \A i, j \in 1..Len(stack) : stack[i] = stack[j] => i = j
  BY <1>5, <1>6
<1> QED
  BY <1>1, <1>2, <1>3, <1>4, <1>7

\* The last place of a task that has one place only.
LEMMA LastPlace ==
    ASSUME NEW stack, Len(stack) \in Nat, NEW p \in 1..Len(stack), NEW task, stack[p] = task,
           \A i \in 1..Len(stack) : stack[i] = task => i = p
    PROVE  LET I == {i \in 1..Len(stack) : stack[i] = task} IN I # {} /\ Max(I) = p
<1>1. {i \in 1..Len(stack) : stack[i] = task} = {p}
  OBVIOUS
<1>2. p \in Nat /\ {p} \subseteq 1..p /\ p \in {p}
  OBVIOUS
<1>3. Max({p}) = p /\ {p} # {}
  BY <1>2, MaxOfInterval
<1> QED
  BY <1>1, <1>3

\* One more event, one more step of the loop.
LEMMA AdvanceStack ==
    ASSUME NEW evs \in Seq(Event), NEW e \in Event, NEW stack, StackOf(stack, evs)
    PROVE  StackOf(Advance(stack, e), Append(evs, e))
<1> DEFINE more == Append(evs, e)
<1>1. CASE e.lifecycle = "start" /\ e.task # NoTask /\ ~ Contains(stack, e.task)
  <2>1. Advance(stack, e) = Append(stack, e.task)
    BY <1>1 DEF Advance
  <2> QED
    BY <1>1, <2>1, AdvancePush
<1>2. CASE e.lifecycle = "complete" /\ Contains(stack, e.task)
  <2>1. PICK p \in 1..Len(stack) : stack[p] = e.task
    BY <1>2 DEF Contains
  <2>2. SelectLastInSeq(stack, LAMBDA t : t = e.task) = p
    <3>1. Len(stack) \in Nat /\ \A i \in 1..Len(stack) : stack[i] = e.task => i = p
      BY <2>1, StackElements
    <3>2. LET I == {i \in 1..Len(stack) : stack[i] = e.task} IN I # {} /\ Max(I) = p
      BY <2>1, <3>1, LastPlace
    <3> QED
      BY <3>2, SMTT(30) DEF SelectLastInSeq
  <2>3. Advance(stack, e) = RemoveAt(stack, p)
    BY <1>2, <2>2 DEF Advance
  <2> QED
    BY <1>2, <2>1, <2>3, AdvancePop
<1>3. CASE /\ ~ (e.lifecycle = "start" /\ e.task # NoTask /\ ~ Contains(stack, e.task))
           /\ ~ (e.lifecycle = "complete" /\ Contains(stack, e.task))
  <2>1. Advance(stack, e) = stack
    BY <1>3 DEF Advance
  <2>2. ASSUME NEW task \in Tasks
        PROVE  /\ ActiveSince(more, task) # {} <=> ActiveSince(evs, task) # {}
               /\ ActiveSince(evs, task) # {} => Since(more, task) = Since(evs, task)
    <3>1. Contains(stack, task) <=> ActiveSince(evs, task) # {}
      BY DEF StackOf, Contains
    <3>2. ~ (e.task = task /\ e.lifecycle = "complete" /\ ActiveSince(evs, task) # {})
      BY <1>3, <3>1
    <3>3. ~ (e.task = task /\ e.lifecycle = "start" /\ ActiveSince(evs, task) = {})
      BY <1>3, <3>1
    <3> QED
      BY <3>2, <3>3, SinceAppend
  <2>3. \A i \in 1..Len(stack) : stack[i] \in Tasks /\ ActiveSince(evs, stack[i]) # {}
    BY StackElements DEF StackOf
  <2> HIDE DEF more
  <2> QED
    BY <2>1, <2>2, <2>3 DEF StackOf, more
<1> QED
  BY <1>1, <1>2, <1>3

\* TaskContext's stack holds the active tasks in the order they were started.
LEMMA StackOfRun ==
    ASSUME NEW evs \in Seq(Event)
    PROVE  StackOf(ActiveTasks(evs), evs)
<1> DEFINE Good == {n \in Nat : \A s \in Seq(Event) : Len(s) = n => StackOf(ActiveTasks(s), s)}
<1>1. 0 \in Good
  <2> SUFFICES ASSUME NEW s \in Seq(Event), Len(s) = 0
               PROVE  StackOf(ActiveTasks(s), s)
    OBVIOUS
  <2>1. s = <<>>
    BY EmptySeq
  <2>2. ActiveTasks(s) = <<>>
    BY <2>1, ActiveTasksEmpty
  <2>3. <<>> \in Seq(Tasks) /\ Len(<<>>) = 0
    BY EmptySeq
  <2>4. \A task : ActiveSince(s, task) = {}
    <3>1. DOMAIN s = {}
      BY LenProperties
    <3> QED
      BY <3>1 DEF ActiveSince
  <2> QED
    BY <2>2, <2>3, <2>4 DEF StackOf
<1>2. ASSUME NEW n \in Nat, n \in Good
      PROVE  n + 1 \in Good
  <2> SUFFICES ASSUME NEW s \in Seq(Event), Len(s) = n + 1
               PROVE  StackOf(ActiveTasks(s), s)
    OBVIOUS
  <2>1. s # <<>>
    BY EmptySeq
  <2>2. PICK t \in Seq(Event), e \in Event : s = Append(t, e)
    BY <2>1, SequenceEmptyOrAppend
  <2>3. Len(t) = n
    BY <2>2, AppendProperties, LenProperties
  <2>4. StackOf(ActiveTasks(t), t)
    BY <1>2, <2>3
  <2>5. ActiveTasks(s) = Advance(ActiveTasks(t), e)
    BY <2>2, ActiveTasksAppend
  <2> HIDE DEF Good
  <2> QED
    BY <2>2, <2>4, <2>5, AdvanceStack
<1> HIDE DEF Good
<1>3. Nat \subseteq Good
  BY <1>1, <1>2, SetInduction
<1> QED
  BY <1>3, LenProperties DEF Good

\* The most recently started task, without CHOOSE.
IsMostRecent(evs, task) ==
    /\ task \in Tasks
    /\ ActiveSince(evs, task) # {}
    /\ \A other \in Tasks : ActiveSince(evs, other) # {} =>
           other = task \/ Since(evs, other) < Since(evs, task)

\* A task that was started after every other active one is what CHOOSE returns.
LEMMA MostRecentIs ==
    ASSUME NEW evs \in Seq(Event), NEW task, IsMostRecent(evs, task)
    PROVE  MostRecentlyStarted(evs) = task
<1> DEFINE active == {t \in Tasks : ActiveSince(evs, t) # {}}
<1>1. \A t \in active : Since(evs, t) \in Nat
  <2>1. Len(evs) \in Nat
    BY LenProperties
  <2> QED
    BY <2>1, SinceFacts
<1>2. task \in active /\ \A other \in active : other = task \/ Since(evs, other) < Since(evs, task)
  BY DEF IsMostRecent
<1> HIDE DEF active
<1>3. \A other \in active : Since(evs, other) <= Since(evs, task)
  BY <1>1, <1>2
<1>4. \A t \in active : (\A other \in active : Since(evs, other) <= Since(evs, t)) => t = task
  BY <1>1, <1>2
<1>5. (CHOOSE t \in active : \A other \in active : Since(evs, other) <= Since(evs, t)) = task
  BY <1>2, <1>3, <1>4
<1> QED
  BY <1>2, <1>5 DEF MostRecentlyStarted, Since, active

\* TaskContext returns the task that was started last of those that are active.
LEMMA TopOfStack ==
    ASSUME NEW evs \in Seq(Event)
    PROVE  \/ IsMostRecent(evs, CurrentTask(evs))
           \/ CurrentTask(evs) = NoTask /\ \A task \in Tasks : ActiveSince(evs, task) = {}
<1> DEFINE stack == ActiveTasks(evs)
           n == Len(stack)
<1>1. StackOf(stack, evs)
  BY StackOfRun
<1>2. stack \in Seq(Tasks) /\ n \in Nat /\ \A i \in 1..n : stack[i] \in Tasks
  BY <1>1, StackElements
<1>3. CASE stack = <<>>
  <2>1. 1..n = {}
    BY <1>3, EmptySeq
  <2> QED
    BY <1>1, <1>3, <2>1 DEF StackOf, CurrentTask
<1>4. CASE stack # <<>>
  <2>1. n \in 1..n
    BY <1>2, <1>4, EmptySeq
  <2>2. CurrentTask(evs) = stack[n] /\ stack[n] \in Tasks
    BY <1>2, <1>4, <2>1 DEF CurrentTask, Last
  <2>3. ActiveSince(evs, stack[n]) # {}
    BY <1>1, <2>1, <2>2 DEF StackOf
  <2> HIDE DEF stack
  <2>4. ASSUME NEW other \in Tasks, ActiveSince(evs, other) # {}
        PROVE  other = stack[n] \/ Since(evs, other) < Since(evs, stack[n])
    <3>1. PICK i \in 1..n : stack[i] = other
      BY <1>1, <2>4 DEF StackOf
    <3>2. i = n \/ i < n
      BY <1>2
    <3> QED
      BY <1>1, <2>1, <3>1, <3>2 DEF StackOf
  <2> QED
    BY <2>2, <2>3, <2>4 DEF IsMostRecent
<1> QED
  BY <1>3, <1>4

\* TaskContext keeps a stack, pushes a task when it starts and takes it out when
\* it completes; an event that names no task is recorded under the one on top.
\* For every run of events, whatever the order in which its tasks started and
\* completed, restarted while open or completed without a start, that task is
\* the one started most recently of those still active, and none if none is.
THEOREM CurrentIsMostRecent ==
    ASSUME NEW evs \in Seq(Event)
    PROVE  /\ CurrentTask(evs) = MostRecentlyStarted(evs)
           /\ CurrentTask(evs) \in Tasks \cup {NoTask}
<1>1. CASE IsMostRecent(evs, CurrentTask(evs))
  BY <1>1, MostRecentIs DEF IsMostRecent
<1>2. CASE CurrentTask(evs) = NoTask /\ \A task \in Tasks : ActiveSince(evs, task) = {}
  BY <1>2 DEF MostRecentlyStarted
<1> QED
  BY <1>1, <1>2, TopOfStack

\* A parent that ParentOf finds is the parent of an event.
LEMMA ParentOfType ==
    ASSUME NEW evs \in Seq(Event), NEW task
    PROVE  ParentOf(evs, task) \in Tasks \cup {NoTask}
<1> DEFINE named == {i \in 1..Len(evs) : evs[i].task = task}
<1>1. named # {} => Min(named) \in 1..Len(evs)
  <2>1. named \subseteq Nat /\ named \subseteq 1..Len(evs)
    BY LenProperties
  <2> HIDE DEF named
  <2> QED
    BY <2>1, MinOfSet
<1>2. \A i \in 1..Len(evs) : evs[i] \in Event
  BY ElementOfSeq
<1>3. \A i \in 1..Len(evs) : evs[i].parentTask \in Tasks \cup {NoTask}
  BY <1>2 DEF Event
<1> QED
  BY <1>1, <1>3 DEF ParentOf, SelectInSeq

-----------------------------------------------------------------------------
(* Attribution.                                                            *)

\* An event that named no task has the one that was current before it.
Attributed(evs) ==
    \A i \in DOMAIN evs :
        evs[i].inherits => evs[i].task = MostRecentlyStarted(SubSeq(evs, 1, i - 1))

\* The first n events of a run.
LEMMA Prefix ==
    ASSUME NEW evs \in Seq(Event), NEW n \in 0..Len(evs)
    PROVE  /\ SubSeq(evs, 1, n) \in Seq(Event)
           /\ Len(SubSeq(evs, 1, n)) = n
           /\ \A i \in 1..n : SubSeq(evs, 1, n)[i] = evs[i]
<1>1. Len(evs) \in Nat /\ \A i \in 1..n : evs[i] \in Event
  BY LenProperties, ElementOfSeq
<1>2. n \in Int /\ 1 \in Int /\ n - 1 + 1 = n /\ \A i \in 1..n : 1 + i - 1 = i
  BY <1>1
<1>3. /\ SubSeq(evs, 1, n) \in Seq(Event)
      /\ Len(SubSeq(evs, 1, n)) = IF 1 <= n THEN n - 1 + 1 ELSE 0
      /\ \A i \in 1..(n - 1 + 1) : SubSeq(evs, 1, n)[i] = evs[1 + i - 1]
  BY <1>1, <1>2, SubSeqProperties
<1>4. 1 <= n \/ n = 0
  BY <1>1
<1> QED
  BY <1>2, <1>3, <1>4

\* What is active depends on the tasks and lifecycles of the events only.
LEMMA SameMostRecent ==
    ASSUME NEW evs \in Seq(Event), NEW other \in Seq(Event), Len(other) = Len(evs),
           \A i \in 1..Len(evs) : other[i].task = evs[i].task /\ other[i].lifecycle = evs[i].lifecycle
    PROVE  MostRecentlyStarted(other) = MostRecentlyStarted(evs)
<1>1. DOMAIN evs = 1..Len(evs) /\ DOMAIN other = 1..Len(evs)
  BY LenProperties
<1>2. \A task : ActiveSince(other, task) = ActiveSince(evs, task)
  BY <1>1 DEF ActiveSince
<1>3. \A task : IsMostRecent(evs, task) => IsMostRecent(other, task)
  BY <1>2 DEF IsMostRecent, Since
<1>4. CASE IsMostRecent(evs, CurrentTask(evs))
  BY <1>3, <1>4, MostRecentIs
<1>5. CASE \A task \in Tasks : ActiveSince(evs, task) = {}
  <2>1. /\ {task \in Tasks : ActiveSince(evs, task) # {}} = {}
        /\ {task \in Tasks : ActiveSince(other, task) # {}} = {}
    BY <1>2, <1>5
  <2> QED
    BY <2>1 DEF MostRecentlyStarted
<1> QED
  BY <1>4, <1>5, TopOfStack

\* Events that keep their tasks stay attributed, whatever follows them.
LEMMA AttributedGrows ==
    ASSUME NEW evs \in Seq(Event), NEW new \in Seq(Event), Attributed(evs), Len(evs) <= Len(new),
           \A i \in 1..Len(evs) : /\ new[i].task = evs[i].task
                                  /\ new[i].lifecycle = evs[i].lifecycle
                                  /\ new[i].inherits = evs[i].inherits,
           \A i \in (Len(evs) + 1)..Len(new) :
               new[i].inherits => new[i].task = MostRecentlyStarted(SubSeq(new, 1, i - 1))
    PROVE  Attributed(new)
<1>1. /\ Len(evs) \in Nat /\ Len(new) \in Nat
      /\ DOMAIN evs = 1..Len(evs) /\ DOMAIN new = 1..Len(new)
  BY LenProperties
<1>2. ASSUME NEW i \in 1..Len(evs)
      PROVE  MostRecentlyStarted(SubSeq(new, 1, i - 1)) = MostRecentlyStarted(SubSeq(evs, 1, i - 1))
  <2> DEFINE before == SubSeq(evs, 1, i - 1)
             after == SubSeq(new, 1, i - 1)
  <2>1. /\ i - 1 \in 0..Len(evs) /\ i - 1 \in 0..Len(new)
        /\ \A j \in 1..(i - 1) : j \in 1..Len(evs)
    BY <1>1
  <2>2. /\ before \in Seq(Event) /\ after \in Seq(Event)
        /\ Len(before) = i - 1 /\ Len(after) = i - 1
        /\ \A j \in 1..(i - 1) : before[j] = evs[j] /\ after[j] = new[j]
    BY <2>1, Prefix
  <2> HIDE DEF before, after
  <2>3. \A j \in 1..Len(before) :
           after[j].task = before[j].task /\ after[j].lifecycle = before[j].lifecycle
    BY <2>1, <2>2
  <2>4. Len(after) = Len(before)
    BY <2>2
  <2>5. MostRecentlyStarted(after) = MostRecentlyStarted(before)
    BY <2>2, <2>3, <2>4, SameMostRecent
  <2> QED
    BY <2>5 DEF before, after
<1>3. \A i \in 1..Len(new) : i \in 1..Len(evs) \/ i \in (Len(evs) + 1)..Len(new)
  BY <1>1
<1> QED
  BY <1>1, <1>2, <1>3 DEF Attributed

\* An event that is recorded under the current task, as EventFor makes it, keeps
\* the events attributed.
LEMMA AttributedAppend ==
    ASSUME NEW evs \in Seq(Event), NEW e \in Event, Attributed(evs),
           e.inherits => e.task = CurrentTask(evs)
    PROVE  Attributed(Append(evs, e))
<1> DEFINE new == Append(evs, e)
           n == Len(evs)
<1>1. /\ n \in Nat /\ new \in Seq(Event) /\ Len(new) = n + 1
      /\ new[n + 1] = e /\ \A i \in 1..n : new[i] = evs[i]
  BY AppendProperties, LenProperties
<1> HIDE DEF new
<1>2. SubSeq(new, 1, n) = evs
  <2>1. n \in 0..Len(new)
    BY <1>1
  <2>2. /\ SubSeq(new, 1, n) \in Seq(Event) /\ Len(SubSeq(new, 1, n)) = n
        /\ \A i \in 1..n : SubSeq(new, 1, n)[i] = new[i]
    BY <1>1, <2>1, Prefix
  <2> QED
    BY <1>1, <2>2, SeqEqual
<1>3. \A i \in (n + 1)..(n + 1) : i = n + 1 /\ i - 1 = n
  BY <1>1
<1>4. new[n + 1].inherits => new[n + 1].task = MostRecentlyStarted(SubSeq(new, 1, n))
  BY <1>1, <1>2, CurrentIsMostRecent
<1>5. n <= n + 1
  BY <1>1
<1>6. Attributed(new)
  BY <1>1, <1>3, <1>4, <1>5, AttributedGrows
<1> QED
  BY <1>6 DEF new
=============================================================================
