--------------------------- MODULE TraceStoreProofs ---------------------------
(***************************************************************************)
(* What TLAPS proves of the run store for every number of runs, requests,  *)
(* timestamps and limits.                                                  *)
(***************************************************************************)
EXTENDS TraceStore, FiniteSetTheorems, TLAPS

USE RunsAssumption, TicksAssumption, LimitsAssumption, MaxVersionAssumption,
    NoTargetAssumption

-----------------------------------------------------------------------------
(* The retention rule.                                                     *)

\* Prune leaves a table that agrees with the one it was given on every run it
\* keeps, keeps all unfinished ones, and stays within the limit.
LEMMA PruneLemma ==
    ASSUME NEW table \in Tables, NEW lim \in Limits,
           NEW pruned \in Pruned(table, lim)
    PROVE  /\ pruned \in Tables
           /\ \A r \in Runs : pruned[r] = table[r] \/ pruned[r] = NoRow
           /\ Present(pruned) \subseteq Present(table)
           /\ Unfinished(pruned) = Unfinished(table)
           /\ Cardinality(Completed(pruned)) <= lim
<1>1. PICK K \in Retainable(table, lim) :
          pruned = [r \in Runs |-> IF r \in Completed(table) \ K
                                   THEN NoRow ELSE table[r]]
  BY DEF Pruned
<1>2. K \subseteq Completed(table) /\ Cardinality(K) <= lim
  BY DEF Retainable
<1>3. NoRow \in Row /\ NoRow.version = 0
  BY DEF NoRow, Row
<1>4. pruned \in Tables
  BY <1>1, <1>3 DEF Tables
<1>5. \A r \in Runs : pruned[r] = table[r] \/ pruned[r] = NoRow
  BY <1>1
<1>6. Present(pruned) = Present(table) \ (Completed(table) \ K)
  BY <1>1, <1>3 DEF Present, Completed, Tables, Row
<1>7. Completed(pruned) = K
  <2>1. \A r \in Present(pruned) : pruned[r] = table[r]
    BY <1>1, <1>6 DEF Present
  <2>2. Present(pruned) \cap Completed(table) = K
    BY <1>2, <1>6 DEF Completed
  <2> QED
    BY <2>1, <2>2, <1>6 DEF Completed
<1>8. Unfinished(pruned) = Unfinished(table)
  BY <1>1, <1>3, <1>6 DEF Completed, Unfinished, Present
<1> QED
  BY <1>2, <1>4, <1>5, <1>6, <1>7, <1>8

\* A write that leaves its run unfinished adds nothing to the completed runs.
LEMMA UnendedWriteLemma ==
    ASSUME NEW table \in Tables, NEW r \in Runs, NEW row \in Row,
           row.ended = NotEnded
    PROVE  /\ Completed([table EXCEPT ![r] = row]) \subseteq Completed(table)
           /\ Cardinality(Completed([table EXCEPT ![r] = row]))
                <= Cardinality(Completed(table))
<1>1. Completed([table EXCEPT ![r] = row]) \subseteq Completed(table)
  BY DEF Completed, Present, Tables
<1>2. IsFiniteSet(Completed(table))
  BY FS_Subset DEF Completed, Present
<1> QED
  BY <1>1, <1>2, FS_Subset

\* Whatever a committed write leaves is the written table, less pruned rows.
LEMMA SettledLemma ==
    ASSUME NEW table \in Tables, NEW r \in Runs, NEW lim \in Limits,
           NEW settled \in Settled(table, r, lim)
    PROVE  /\ settled \in Tables
           /\ \A q \in Runs : settled[q] = table[q] \/ settled[q] = NoRow
           /\ Present(settled) \subseteq Present(table)
           /\ table[r].ended # NotEnded => Cardinality(Completed(settled)) <= lim
<1>1. CASE table[r].ended = NotEnded
  BY <1>1 DEF Settled
<1>2. CASE table[r].ended # NotEnded
  BY <1>2, PruneLemma DEF Settled
<1> QED
  BY <1>1, <1>2

-----------------------------------------------------------------------------
(* The order of the completed runs, and that Prune has one outcome.        *)

\* The retention order, by completion, then start, then id, is a strict total order.
LEMMA OutranksIsOrder ==
    ASSUME NEW table \in Tables
    PROVE  /\ \A a, b \in Runs : Outranks(table, a, b) \/ Outranks(table, b, a) \/ a = b
           /\ \A a, b \in Runs : ~ (Outranks(table, a, b) /\ Outranks(table, b, a))
           /\ \A a, b, c \in Runs :
                 Outranks(table, a, b) /\ Outranks(table, b, c) => Outranks(table, a, c)
<1>1. \A r \in Runs : r \in Nat /\ table[r].ended \in Nat /\ table[r].started \in Nat
  BY DEF Tables, Row, NotEnded
<1>2. \A a, b \in Runs : Outranks(table, a, b) \/ Outranks(table, b, a) \/ a = b
  BY <1>1 DEF Outranks
<1>3. \A a, b \in Runs : ~ (Outranks(table, a, b) /\ Outranks(table, b, a))
  BY <1>1 DEF Outranks
<1>4. \A a, b, c \in Runs :
          Outranks(table, a, b) /\ Outranks(table, b, c) => Outranks(table, a, c)
  BY <1>1 DEF Outranks
<1> QED
  BY <1>2, <1>3, <1>4

\* The completed runs of a table are a finite set of runs.
LEMMA CompletedIsFinite ==
    \A table : /\ Completed(table) \subseteq Runs
               /\ IsFiniteSet(Completed(table))
               /\ Cardinality(Completed(table)) \in Nat
  BY FS_Subset, FS_CardinalityType DEF Completed, Present

\* How many completed runs outrank run r.
Rank(table, r) == Cardinality({q \in Completed(table) : Outranks(table, q, r)})

\* The ranks of n completed runs are 0, ..., n - 1.
LEMMA RanksAreDense ==
    ASSUME NEW table \in Tables
    PROVE  LET C == Completed(table)
               n == Cardinality(C)
           IN /\ \A r \in C : Rank(table, r) \in 0..(n - 1)
              /\ \A a, b \in C : Outranks(table, a, b) => Rank(table, a) < Rank(table, b)
              /\ \A i \in 0..(n - 1) : \E r \in C : Rank(table, r) = i
<1> DEFINE C == Completed(table)
           n == Cardinality(C)
           above(r) == {q \in C : Outranks(table, q, r)}
           rank == [r \in C |-> Cardinality(above(r))]
<1>1. C \subseteq Runs /\ IsFiniteSet(C) /\ n \in Nat
  BY CompletedIsFinite
<1>2. ASSUME NEW r \in C
      PROVE  /\ IsFiniteSet(above(r))
             /\ Cardinality(above(r)) \in Nat
             /\ Cardinality(above(r)) \in 0..(n - 1)
  <2>1. above(r) \subseteq C /\ r \in C \ above(r)
    BY <1>1, OutranksIsOrder
  <2>2. IsFiniteSet(above(r)) /\ Cardinality(above(r)) \in Nat
    BY <1>1, <2>1, FS_Subset, FS_CardinalityType
  <2>3. Cardinality(above(r)) <= n /\ Cardinality(above(r)) # n
    <3> HIDE DEF above, C
    <3> QED
      BY <1>1, <2>1, FS_Subset
  <2> QED
    BY <1>1, <2>2, <2>3
<1>3. ASSUME NEW a \in C, NEW b \in C, Outranks(table, a, b)
      PROVE  Cardinality(above(a)) < Cardinality(above(b))
  <2>1. above(a) \subseteq above(b) /\ a \in above(b) \ above(a)
    BY <1>1, <1>3, OutranksIsOrder
  <2>2. /\ IsFiniteSet(above(b))
        /\ Cardinality(above(a)) \in Nat /\ Cardinality(above(b)) \in Nat
    <3> HIDE DEF above, C
    <3> QED
      BY <1>2
  <2>3. Cardinality(above(a)) <= Cardinality(above(b)) /\ Cardinality(above(a)) # Cardinality(above(b))
    <3> HIDE DEF above, C
    <3> QED
      BY <2>1, <2>2, FS_Subset
  <2> QED
    BY <2>2, <2>3
<1> HIDE DEF above, C
<1>4. ASSUME NEW a \in C, NEW b \in C, Cardinality(above(a)) = Cardinality(above(b))
      PROVE  a = b
  <2>1. Cardinality(above(a)) \in Nat
    BY <1>2
  <2>2. ~ Outranks(table, a, b) /\ ~ Outranks(table, b, a)
    BY <1>3, <1>4, <2>1
  <2> QED
    BY <1>1, <2>2, OutranksIsOrder
<1>5. rank \in Injection(C, 0..(n - 1))
  <2>1. rank \in [C -> 0..(n - 1)]
    <3> HIDE DEF n
    <3> QED
      BY <1>2
  <2>2. \A a, b \in C : rank[a] = rank[b] => a = b
    BY <1>4
  <2> HIDE DEF n, rank
  <2> QED
    BY <2>1, <2>2 DEF Injection, IsInjective
<1>6. Cardinality(0..(n - 1)) = n /\ IsFiniteSet(0..(n - 1))
  BY <1>1, FS_Interval, SMTT(30)
<1> HIDE DEF n, rank
<1>7. rank \in Surjection(C, 0..(n - 1))
  BY <1>1, <1>5, <1>6, FS_Injection DEF n
<1>8. \A i \in 0..(n - 1) : \E r \in C : rank[r] = i
  BY <1>7 DEF Surjection
<1>9. \A r \in C : rank[r] = Rank(table, r) /\ Rank(table, r) = Cardinality(above(r))
  BY DEF rank, Rank, above, C
<1> QED
  BY <1>2, <1>3, <1>8, <1>9 DEF n, C

\* The runs of the first lim ranks can be retained.
LEMMA RetainableExists ==
    ASSUME NEW table \in Tables, NEW lim \in Limits
    PROVE  Retainable(table, lim) # {}
<1> DEFINE C == Completed(table)
           n == Cardinality(C)
           K == {r \in C : Rank(table, r) < lim}
           rank == [r \in K |-> Rank(table, r)]
<1>1. C \subseteq Runs /\ IsFiniteSet(C) /\ n \in Nat /\ lim \in Nat
  BY CompletedIsFinite
<1>2. /\ \A r \in C : Rank(table, r) \in 0..(n - 1)
      /\ \A a, b \in C : Outranks(table, a, b) => Rank(table, a) < Rank(table, b)
      /\ \A i \in 0..(n - 1) : \E r \in C : Rank(table, r) = i
  BY RanksAreDense
<1>3. ASSUME NEW k \in K, NEW d \in C \ K
      PROVE  Outranks(table, k, d)
  <2>1. k \in C /\ d \in C /\ k # d /\ Rank(table, k) < lim /\ ~ Rank(table, d) < lim
    OBVIOUS
  <2>2. Rank(table, k) \in Nat /\ Rank(table, d) \in Nat
    BY <1>1, <1>2, <2>1
  <2>3. ~ Outranks(table, d, k)
    BY <1>1, <1>2, <2>1, <2>2
  <2> QED
    BY <1>1, <2>1, <2>3, OutranksIsOrder
<1>4. CASE n <= lim
  <2>1. K = C
    BY <1>1, <1>2, <1>4
  <2> HIDE DEF K
  <2>2. C \in Retainable(table, lim)
    BY <1>4 DEF Retainable
  <2> QED
    BY <2>2
<1>5. CASE n > lim
  <2>1. \A r \in K : Rank(table, r) \in 0..(lim - 1)
    BY <1>1, <1>2
  <2>2. \A i \in 0..(lim - 1) : \E r \in K : Rank(table, r) = i
    <3> SUFFICES ASSUME NEW i \in 0..(lim - 1)
                 PROVE  \E r \in K : Rank(table, r) = i
      OBVIOUS
    <3>1. i \in 0..(n - 1) /\ i < lim
      BY <1>1, <1>5
    <3>2. PICK r \in C : Rank(table, r) = i
      BY <1>2, <3>1
    <3> QED
      BY <3>1, <3>2
  <2>3. \A a, b \in K : Rank(table, a) = Rank(table, b) => a = b
    <3> SUFFICES ASSUME NEW a \in K, NEW b \in K, Rank(table, a) = Rank(table, b)
                 PROVE  a = b
      OBVIOUS
    <3>1. a \in C /\ b \in C /\ Rank(table, a) \in Nat /\ Rank(table, b) \in Nat
      BY <1>1, <1>2
    <3>2. ~ Outranks(table, a, b) /\ ~ Outranks(table, b, a)
      BY <1>2, <3>1
    <3> QED
      BY <1>1, <3>1, <3>2, OutranksIsOrder
  <2> HIDE DEF K
  <2>4. rank \in Bijection(K, 0..(lim - 1))
    BY <2>1, <2>2, <2>3 DEF Bijection, Injection, IsInjective, Surjection
  <2>5. IsFiniteSet(K) /\ K \subseteq C
    BY <1>1, FS_Subset DEF K
  <2>6. Cardinality(K) = lim
    <3>1. 0 \in Int /\ lim - 1 \in Int /\ ~ 0 > lim - 1 /\ (lim - 1) - 0 + 1 = lim
      OBVIOUS
    <3>2. Cardinality(0..(lim - 1)) = lim
      BY <3>1, FS_Interval
    <3>3. Cardinality(K) = Cardinality(0..(lim - 1))
      BY <2>4, <2>5, FS_Bijection DEF ExistsBijection
    <3> QED
      BY <3>2, <3>3
  <2>7. K \in Retainable(table, lim)
    BY <1>1, <1>3, <2>5, <2>6 DEF Retainable
  <2> QED
    BY <2>7
<1> QED
  BY <1>1, <1>4, <1>5

\* No two sets of runs can be retained: of two, one contains the other.
LEMMA RetainableUnique ==
    ASSUME NEW table \in Tables, NEW lim \in Limits,
           NEW K \in Retainable(table, lim), NEW L \in Retainable(table, lim)
    PROVE  K = L
<1> DEFINE C == Completed(table)
<1>1. C \subseteq Runs /\ IsFiniteSet(C) /\ lim \in Nat
  BY CompletedIsFinite
<1>2. /\ K \subseteq C /\ L \subseteq C
      /\ Cardinality(K) <= lim /\ Cardinality(L) <= lim
      /\ Cardinality(K) = lim \/ K = C
      /\ Cardinality(L) = lim \/ L = C
  BY DEF Retainable
<1>3. K \subseteq L \/ L \subseteq K
  <2> SUFFICES ASSUME NEW k \in K \ L, NEW l \in L \ K
               PROVE  FALSE
    OBVIOUS
  <2>1. Outranks(table, k, l) /\ Outranks(table, l, k)
    BY <1>2 DEF Retainable
  <2> QED
    BY <1>1, <1>2, <2>1, OutranksIsOrder
<1> HIDE DEF C
<1>4. /\ IsFiniteSet(K) /\ IsFiniteSet(L)
      /\ Cardinality(K) \in Nat /\ Cardinality(L) \in Nat
  BY <1>1, <1>2, FS_Subset, FS_CardinalityType
<1>5. CASE K \subseteq L
  <2>1. Cardinality(K) <= Cardinality(L) /\ (Cardinality(K) = Cardinality(L) => K = L)
    BY <1>4, <1>5, FS_Subset
  <2>2. CASE K = C
    BY <1>2, <1>5, <2>2
  <2>3. CASE Cardinality(K) = lim
    BY <1>1, <1>2, <1>4, <2>1, <2>3
  <2> QED
    BY <1>2, <2>2, <2>3
<1>6. CASE L \subseteq K
  <2>1. Cardinality(L) <= Cardinality(K) /\ (Cardinality(K) = Cardinality(L) => K = L)
    BY <1>4, <1>6, FS_Subset
  <2>2. CASE L = C
    BY <1>2, <1>6, <2>2
  <2>3. CASE Cardinality(L) = lim
    BY <1>1, <1>2, <1>4, <2>1, <2>3
  <2> QED
    BY <1>2, <2>2, <2>3
<1> QED
  BY <1>3, <1>5, <1>6

\* Two outcomes of Prune are the same: the set it keeps is unique.
LEMMA PruneHasOneOutcome ==
    ASSUME NEW table \in Tables, NEW lim \in Limits
    PROVE  \E pruned : Pruned(table, lim) = {pruned}
<1> DEFINE without(K) == [r \in Runs |-> IF r \in Completed(table) \ K THEN NoRow ELSE table[r]]
<1>1. PICK K : K \in Retainable(table, lim)
  BY RetainableExists
<1>2. \A L \in Retainable(table, lim) : L = K
  BY <1>1, RetainableUnique
<1>3. Pruned(table, lim) = {without(L) : L \in Retainable(table, lim)}
  BY DEF Pruned
<1> HIDE DEF without
<1>4. Pruned(table, lim) = {without(K)}
  BY <1>1, <1>2, <1>3
<1> QED
  BY <1>4

\* What Prune removes had ended, and the limit is filled with runs that outrank it.
LEMMA PruneRemoves ==
    ASSUME NEW table \in Tables, NEW lim \in Limits, NEW pruned \in Pruned(table, lim),
           NEW r \in Present(table) \ Present(pruned)
    PROVE  /\ r \in Completed(table)
           /\ Cardinality(Completed(pruned)) = lim
           /\ \A k \in Completed(pruned) : Outranks(table, k, r) /\ pruned[k] = table[k] /\ k # r
<1>1. PICK K \in Retainable(table, lim) :
          pruned = [q \in Runs |-> IF q \in Completed(table) \ K THEN NoRow ELSE table[q]]
  BY DEF Pruned
<1>2. K \subseteq Completed(table) /\ Completed(table) \subseteq Runs
  BY DEF Retainable, Completed, Present
<1>3. r \in Completed(table) \ K
  BY <1>1 DEF Present
<1>4. Completed(pruned) = K
  <2>1. \A q \in K : pruned[q] = table[q] /\ q \in Present(table) /\ q \in Runs
    BY <1>1, <1>2 DEF Completed
  <2>2. \A q \in Runs : q \notin K =>
            \/ q \notin Completed(table) /\ pruned[q] = table[q]
            \/ pruned[q] = NoRow
    BY <1>1
  <2>3. \A q \in Completed(pruned) : q \in K
    BY <2>2 DEF Completed, Present, NoRow
  <2>4. \A q \in K : q \in Completed(pruned)
    BY <1>2, <2>1 DEF Completed, Present
  <2> QED
    BY <2>3, <2>4
<1>5. K # Completed(table)
  BY <1>3
<1>6. \A k \in K : Outranks(table, k, r)
  BY <1>3 DEF Retainable
<1>7. \A k \in K : pruned[k] = table[k] /\ k # r
  BY <1>1, <1>2, <1>3
<1> QED
  BY <1>3, <1>4, <1>5, <1>6, <1>7 DEF Retainable

-----------------------------------------------------------------------------
(* The inductive invariant.                                                *)

\* BEGIN IMMEDIATE: at most one request is inside a transaction.
OneWriter ==
    \A c, d \in Clients : InTransaction(c) /\ InTransaction(d) => c = d

\* Requests only exist while the process does.
RequestsNeedProcess == \A c \in Clients : step[c] # "idle" => health = "up"

\* What the table holds was committed, with a start.
CommittedRows ==
    \A r \in Present(db) : r \in created /\ db[r].started \in Starts

\* A written image is the committed table with one row replaced, by the first
\* version of a new run or the next version of a run the table holds.
PendingWrite(c) ==
    LET r == target[c]
        row == image[c][r]
    IN /\ r \in Runs
       /\ image[c] = [db EXCEPT ![r] = row]
       /\ \/ r \notin created /\ row \in RowsAt(1)
          \/ /\ r \in Present(db)
             /\ row \in RowsAt(db[r].version + 1)
             /\ row.started = db[r].started

ImagesAreCurrent ==
    \A c \in Clients :
        /\ step[c] = "open" => image[c] = db
        /\ step[c] = "written" => PendingWrite(c)

\* A reply still on its way reports a version the table has not lost.
RepliesSurvive ==
    \A c \in Clients : step[c] = "committed" =>
        /\ target[c] \in created
        /\ target[c] \in Present(db) => reply[c] <= db[target[c]].version

IInv ==
    /\ TypeOK
    /\ OneWriter
    /\ RequestsNeedProcess
    /\ CommittedRows
    /\ ImagesAreCurrent
    /\ RepliesSurvive
    /\ RetentionBound
    /\ ToldSurvives

-----------------------------------------------------------------------------
(* Type correctness.                                                       *)

LEMMA NoRowIsRow == NoRow \in Row /\ EmptyTable \in Tables
  BY DEF NoRow, Row, EmptyTable, Tables

LEMMA TypeInit == Init => TypeOK
  BY NoRowIsRow DEF Init, TypeOK, Steps

LEMMA RowFields ==
    ASSUME NEW table \in Tables, NEW r \in Runs
    PROVE  /\ table[r] \in Row
           /\ table[r].started \in Starts \cup {NotEnded}
           /\ table[r].ended \in Ends \cup {NotEnded}
           /\ table[r].version \in Nat
           /\ table[r].sound \in BOOLEAN
  BY DEF Tables, Row

LEMMA TypeNext == TypeOK /\ [Next]_vars => TypeOK'
<1> SUFFICES ASSUME TypeOK, [Next]_vars PROVE TypeOK'
  OBVIOUS
<1> USE NoRowIsRow DEF TypeOK, Steps
<1>1. ASSUME NEW lim \in Limits, Start(lim) PROVE TypeOK'
  <2>1. db' \in Tables
    BY <1>1, PruneLemma DEF Start
  <2> QED
    BY <1>1, <2>1 DEF Start, requestVars
<1>2. CASE StartFails
  BY <1>2 DEF StartFails, requestVars
<1>3. CASE Crash
  BY <1>3 DEF Crash
<1>4. ASSUME NEW c \in Clients, Begin(c) PROVE TypeOK'
  BY <1>4 DEF Begin
<1>5. ASSUME NEW c \in Clients, NEW r \in Runs, NEW row \in Row,
             WriteRow(c, r, row)
      PROVE  TypeOK'
  <2>1. image' \in [Clients -> Tables]
    BY <1>5 DEF WriteRow, Tables
  <2> QED
    BY <1>5, <2>1 DEF WriteRow
<1>6. ASSUME NEW c \in Clients, NEW r \in Runs, NEW started \in Starts,
             NEW ended \in Ends \cup {NotEnded}, Add(c, r, started, ended)
      PROVE  TypeOK'
  <2>1. [started |-> started, ended |-> ended, version |-> 1, sound |-> TRUE] \in Row
    BY DEF Row
  <2> QED
    BY <1>5, <1>6, <2>1 DEF Add
<1>7. ASSUME NEW c \in Clients, NEW r \in Runs,
             NEW ended \in Ends \cup {NotEnded}, NEW sound \in BOOLEAN,
             Update(c, r, ended, sound)
      PROVE  TypeOK'
  <2>1. [started |-> image[c][r].started, ended |-> ended,
         version |-> image[c][r].version + 1, sound |-> sound] \in Row
    BY DEF Row, Tables
  <2> QED
    BY <1>5, <1>7, <2>1 DEF Update
<1>8. ASSUME NEW c \in Clients, NEW r \in Runs, UpdateSame(c, r)
      PROVE  TypeOK'
  <2>1. image[c][r].version \in Nat
    BY DEF Row, Tables
  <2> QED
    BY <1>8, <2>1 DEF UpdateSame
<1>9. ASSUME NEW c \in Clients, Rollback(c) PROVE TypeOK'
  BY <1>9 DEF Rollback, Leave
<1>10. ASSUME NEW c \in Clients, Commit(c) PROVE TypeOK'
  <2>1. target[c] \in Runs
    BY <1>10 DEF Commit
  <2>2. db' \in Tables
    BY <1>10, <2>1, SettledLemma DEF Commit
  <2>3. image[c][target[c]].version \in Nat
    BY <2>1, RowFields
  <2>4. image' \in [Clients -> Tables] /\ reply' \in [Clients -> Nat]
    BY <1>10, <2>3 DEF Commit
  <2>5. step' \in [Clients -> Steps] /\ created' \subseteq Runs
    BY <1>10, <2>1 DEF Commit
  <2>6. \A d \in Clients : step'[d] \in {"written", "committed"} => target'[d] \in Runs
    BY <1>10, <2>1 DEF Commit
  <2> QED
    BY <1>10, <2>2, <2>4, <2>5, <2>6 DEF Commit
<1>11. ASSUME NEW c \in Clients, Respond(c) PROVE TypeOK'
  <2>1. target[c] \in Runs
    BY <1>11 DEF Respond
  <2>2. told' \in [Runs -> Nat]
    BY <1>11, <2>1 DEF Respond, Later
  <2> QED
    BY <1>11, <2>2 DEF Respond, Leave
<1>12. CASE UNCHANGED vars
  BY <1>12 DEF vars
<1> QED
  BY <1>1, <1>2, <1>3, <1>4, <1>6, <1>7, <1>8, <1>9, <1>10, <1>11, <1>12
     DEF Next, ClientStep

\* Every reachable state of the store has the declared types.
THEOREM TypeCorrect == Spec => []TypeOK
<1> QED
  BY TypeInit, TypeNext, PTL DEF Spec

-----------------------------------------------------------------------------
(* The inductive invariant holds initially and is preserved.               *)

LEMMA IInvInit == Init => IInv
<1> SUFFICES ASSUME Init PROVE IInv
  OBVIOUS
<1>1. TypeOK
  BY TypeInit
<1>2. Present(db) = {} /\ Completed(db) = {}
  BY DEF Init, EmptyTable, NoRow, Present, Completed
<1>3. Cardinality(Completed(db)) = 0 /\ limit > 0
  BY <1>2, FS_EmptySet DEF Init
<1>4. RetentionBound
  BY <1>3, <1>1 DEF RetentionBound, TypeOK
<1> QED
  BY <1>1, <1>2, <1>4 DEF Init, IInv, OneWriter, InTransaction, RequestsNeedProcess,
     CommittedRows, ImagesAreCurrent, RepliesSurvive, ToldSurvives

\* The parts of IInv that only speak of the committed table survive any step
\* that leaves it alone and reports nothing.
Quiet == UNCHANGED <<db, created, limit, told>>

LEMMA QuietLemma ==
    ASSUME IInv, Quiet
    PROVE  CommittedRows' /\ RetentionBound' /\ ToldSurvives'
  BY DEF IInv, Quiet, CommittedRows, RetentionBound, ToldSurvives

LEMMA IInvStart ==
    ASSUME IInv, TypeOK', NEW lim \in Limits, Start(lim)
    PROVE  IInv'
<1>1. db \in Tables /\ db' \in Pruned(db, lim)
  BY DEF IInv, TypeOK, Start
<1>2. \A c \in Clients : step[c] = "idle" /\ step'[c] = "idle"
  BY DEF IInv, RequestsNeedProcess, Start, requestVars, TypeOK
<1>3. RetentionBound'
  BY <1>1, PruneLemma DEF RetentionBound, Start
<1>4. \A r \in Present(db') : r \in Present(db) /\ db'[r] = db[r]
  BY <1>1, PruneLemma DEF Present, NoRow
<1>5. CommittedRows'
  BY <1>4 DEF IInv, CommittedRows, Start
<1>6. ToldSurvives'
  BY <1>4 DEF IInv, ToldSurvives, Start
<1> QED
  BY <1>2, <1>3, <1>5, <1>6 DEF IInv, OneWriter, InTransaction, RequestsNeedProcess,
     ImagesAreCurrent, RepliesSurvive

LEMMA IInvCrash ==
    ASSUME IInv, TypeOK', StartFails \/ Crash
    PROVE  IInv'
<1>1. CommittedRows' /\ RetentionBound' /\ ToldSurvives'
  BY QuietLemma DEF Quiet, StartFails, Crash
<1>2. CASE StartFails
  <2>1. \A c \in Clients : step[c] = "idle" /\ step'[c] = "idle"
    BY <1>2 DEF IInv, RequestsNeedProcess, StartFails, requestVars, TypeOK
  <2> QED
    BY <1>1, <2>1 DEF IInv, OneWriter, InTransaction, RequestsNeedProcess,
       ImagesAreCurrent, RepliesSurvive
<1>3. CASE Crash
  <2>1. \A c \in Clients : step'[c] = "idle"
    BY <1>3 DEF Crash
  <2> QED
    BY <1>1, <2>1 DEF IInv, OneWriter, InTransaction, RequestsNeedProcess,
       ImagesAreCurrent, RepliesSurvive
<1> QED
  BY <1>2, <1>3

LEMMA IInvBegin ==
    ASSUME IInv, TypeOK', NEW c \in Clients, Begin(c)
    PROVE  IInv'
<1>1. CommittedRows' /\ RetentionBound' /\ ToldSurvives'
  BY QuietLemma DEF Quiet, Begin
<1>2. \A d \in Clients : ~ InTransaction(d)
  BY DEF Begin, WriteLockFree
<1>3. \A d \in Clients \ {c} : step'[d] = step[d] /\ step[d] \notin {"open", "written"}
  BY <1>2 DEF Begin, IInv, TypeOK, InTransaction
<1>4. step'[c] = "open" /\ image'[c] = db'
  BY DEF Begin, IInv, TypeOK
<1>5. OneWriter' /\ ImagesAreCurrent'
  BY <1>3, <1>4 DEF OneWriter, InTransaction, ImagesAreCurrent
<1>6. RequestsNeedProcess'
  BY DEF Begin, RequestsNeedProcess
<1>7. RepliesSurvive'
  BY <1>3, <1>4 DEF Begin, IInv, RepliesSurvive
<1> QED
  BY <1>1, <1>5, <1>6, <1>7 DEF IInv

LEMMA IInvWrite ==
    ASSUME IInv, TypeOK', NEW c \in Clients, NEW r \in Runs, NEW row \in Row,
           step[c] = "open", WriteRow(c, r, row),
           \/ r \notin created /\ row \in RowsAt(1)
           \/ /\ r \in Present(db)
              /\ row \in RowsAt(db[r].version + 1)
              /\ row.started = db[r].started
    PROVE  IInv'
<1>1. CommittedRows' /\ RetentionBound' /\ ToldSurvives'
  BY QuietLemma DEF Quiet, WriteRow
<1>2. image[c] = db
  BY DEF IInv, ImagesAreCurrent
<1>3. step'[c] = "written" /\ target'[c] = r /\ image'[c] = [db EXCEPT ![r] = row]
  BY <1>2 DEF WriteRow, IInv, TypeOK
<1>4. image'[c][r] = row
  BY <1>3 DEF IInv, TypeOK, Tables
<1>5. PendingWrite(c)'
  <2>1. db' = db /\ created' = created
    BY DEF WriteRow
  <2>2. image'[c] = [db' EXCEPT ![target'[c]] = image'[c][target'[c]]]
    BY <1>3, <1>4, <2>1
  <2>3. \/ target'[c] \notin created' /\ image'[c][target'[c]] \in RowsAt(1)
        \/ /\ target'[c] \in Present(db')
           /\ image'[c][target'[c]] \in RowsAt(db'[target'[c]].version + 1)
           /\ image'[c][target'[c]].started = db'[target'[c]].started
    BY <1>3, <1>4, <2>1
  <2> QED
    BY <1>3, <2>2, <2>3 DEF PendingWrite
<1>6. \A d \in Clients \ {c} :
          /\ step'[d] = step[d] /\ target'[d] = target[d] /\ reply'[d] = reply[d]
          /\ ~ InTransaction(d)
  BY DEF WriteRow, IInv, TypeOK, OneWriter, InTransaction
<1>7. OneWriter' /\ ImagesAreCurrent'
  BY <1>3, <1>5, <1>6 DEF OneWriter, InTransaction, ImagesAreCurrent
<1>8. RequestsNeedProcess'
  BY <1>6 DEF WriteRow, IInv, RequestsNeedProcess
<1>9. RepliesSurvive'
  BY <1>3, <1>6 DEF WriteRow, IInv, RepliesSurvive
<1> QED
  BY <1>1, <1>7, <1>8, <1>9 DEF IInv

LEMMA IInvAdd ==
    ASSUME IInv, TypeOK', NEW c \in Clients, NEW r \in Runs, NEW started \in Starts,
           NEW ended \in Ends \cup {NotEnded}, Add(c, r, started, ended)
    PROVE  IInv'
<1> DEFINE row == [started |-> started, ended |-> ended, version |-> 1, sound |-> TRUE]
<1>1. row \in Row /\ row \in RowsAt(1)
  BY DEF Row, RowsAt
<1> QED
  BY <1>1, IInvWrite DEF Add

LEMMA IInvUpdate ==
    ASSUME IInv, TypeOK', NEW c \in Clients, NEW r \in Runs,
           NEW ended \in Ends \cup {NotEnded}, NEW sound \in BOOLEAN,
           Update(c, r, ended, sound)
    PROVE  IInv'
<1>1. image[c] = db /\ r \in Present(db)
  BY DEF Update, IInv, ImagesAreCurrent
<1> DEFINE row == [started |-> db[r].started, ended |-> ended,
                   version |-> db[r].version + 1, sound |-> sound]
<1>2. db[r].started \in Starts /\ db[r].version \in Nat
  BY <1>1, RowFields DEF IInv, TypeOK, CommittedRows
<1>3. row \in Row /\ row \in RowsAt(db[r].version + 1)
  BY <1>2 DEF Row, RowsAt
<1>4. step[c] = "open" /\ WriteRow(c, r, row)
  BY <1>1 DEF Update
<1> QED
  BY <1>1, <1>3, <1>4, IInvWrite

LEMMA IInvUpdateSame ==
    ASSUME IInv, TypeOK', NEW c \in Clients, NEW r \in Runs, UpdateSame(c, r)
    PROVE  IInv'
<1>1. CommittedRows' /\ RetentionBound' /\ ToldSurvives'
  BY QuietLemma DEF Quiet, UpdateSame
<1>2. image[c] = db /\ r \in Present(db) /\ r \in created
  BY DEF UpdateSame, IInv, ImagesAreCurrent, CommittedRows
<1>3. step'[c] = "committed" /\ target'[c] = r /\ reply'[c] = db[r].version
  BY <1>2 DEF UpdateSame, IInv, TypeOK
<1>4. \A d \in Clients \ {c} :
          /\ step'[d] = step[d] /\ target'[d] = target[d]
          /\ reply'[d] = reply[d] /\ image'[d] = image[d]
  BY DEF UpdateSame, IInv, TypeOK
<1>5. OneWriter'
  BY <1>3, <1>4 DEF IInv, OneWriter, InTransaction
<1>6. ImagesAreCurrent'
  BY <1>3, <1>4 DEF IInv, ImagesAreCurrent, PendingWrite, UpdateSame
<1>7. RequestsNeedProcess'
  BY <1>4 DEF UpdateSame, IInv, RequestsNeedProcess
<1>8. db[r].version \in Nat
  BY RowFields DEF IInv, TypeOK
<1>9. RepliesSurvive'
  BY <1>2, <1>3, <1>4, <1>8 DEF UpdateSame, IInv, RepliesSurvive
<1> QED
  BY <1>1, <1>5, <1>6, <1>7, <1>9 DEF IInv

LEMMA IInvRollback ==
    ASSUME IInv, TypeOK', NEW c \in Clients, Rollback(c)
    PROVE  IInv'
<1>1. CommittedRows' /\ RetentionBound' /\ ToldSurvives'
  BY QuietLemma DEF Quiet, Rollback
<1>2. step'[c] = "idle"
  BY DEF Rollback, Leave, IInv, TypeOK
<1>3. \A d \in Clients \ {c} :
          /\ step'[d] = step[d] /\ target'[d] = target[d]
          /\ reply'[d] = reply[d] /\ image'[d] = image[d]
  BY DEF Rollback, Leave, IInv, TypeOK
<1>4. OneWriter'
  BY <1>2, <1>3 DEF IInv, OneWriter, InTransaction
<1>5. ImagesAreCurrent'
  BY <1>2, <1>3 DEF IInv, ImagesAreCurrent, PendingWrite, Rollback
<1>6. RequestsNeedProcess' /\ RepliesSurvive'
  BY <1>2, <1>3 DEF Rollback, IInv, RequestsNeedProcess, RepliesSurvive
<1> QED
  BY <1>1, <1>4, <1>5, <1>6 DEF IInv

\* What a commit does to the table, read off the pending write.
LEMMA CommitLemma ==
    ASSUME IInv, NEW c \in Clients, Commit(c)
    PROVE  /\ target[c] \in Runs
           /\ image[c] \in Tables
           /\ image[c] = [db EXCEPT ![target[c]] = image[c][target[c]]]
           /\ image[c][target[c]].started \in Starts
           /\ image[c][target[c]].version \in Nat \ {0}
           /\ \/ target[c] \notin created
              \/ /\ target[c] \in Present(db)
                 /\ image[c][target[c]].version = db[target[c]].version + 1
           /\ \A q \in Present(db') : db'[q] = image[c][q]
           /\ \A q \in Present(db') \ {target[c]} : q \in Present(db) /\ db'[q] = db[q]
<1> DEFINE r == target[c]
           row == image[c][r]
<1>1. PendingWrite(c) /\ db \in Tables /\ image[c] \in Tables /\ limit \in Limits
  BY DEF Commit, IInv, ImagesAreCurrent, TypeOK
<1>2. r \in Runs /\ image[c] = [db EXCEPT ![r] = row]
  BY <1>1 DEF PendingWrite
<1>3. \/ r \notin created /\ row \in RowsAt(1)
      \/ /\ r \in Present(db)
         /\ row \in RowsAt(db[r].version + 1)
         /\ row.started = db[r].started
  BY <1>1 DEF PendingWrite
<1>4. db[r].version \in Nat
  BY <1>1, <1>2, RowFields
<1>5. /\ row.started \in Starts
      /\ row.version \in Nat \ {0}
      /\ r \notin created \/ (r \in Present(db) /\ row.version = db[r].version + 1)
  BY <1>3, <1>4 DEF RowsAt
<1>6. db' \in Settled(image[c], r, limit)
  BY DEF Commit
<1>7. \A q \in Present(db') : db'[q] = image[c][q]
  <2> DEFINE table == image[c]
  <2>1. table \in Tables /\ db' \in Settled(table, r, limit)
    BY <1>1, <1>6
  <2> HIDE DEF table, r
  <2>2. \A q \in Runs : db'[q] = table[q] \/ db'[q] = NoRow
    BY <1>1, <1>2, <2>1, SettledLemma
  <2>3. \A q \in Present(db') : q \in Runs /\ db'[q] # NoRow
    BY DEF Present, NoRow
  <2>4. \A q \in Present(db') : db'[q] = table[q]
    BY <2>2, <2>3
  <2> QED
    BY <2>4 DEF table
<1>8. \A q \in Present(db') \ {r} : db'[q] = db[q] /\ q \in Present(db)
  BY <1>1, <1>2, <1>7 DEF Present, Tables
<1> QED
  BY <1>1, <1>2, <1>5, <1>7, <1>8

LEMMA IInvCommit ==
    ASSUME IInv, TypeOK', NEW c \in Clients, Commit(c)
    PROVE  IInv'
<1> DEFINE r == target[c]
           row == image[c][r]
<1>1. /\ r \in Runs /\ row.started \in Starts /\ row.version \in Nat \ {0}
      /\ r \notin created \/ (r \in Present(db) /\ row.version = db[r].version + 1)
      /\ \A q \in Present(db') : db'[q] = image[c][q]
      /\ \A q \in Present(db') \ {r} : q \in Present(db) /\ db'[q] = db[q]
  BY CommitLemma
<1>2. /\ step'[c] = "committed" /\ target'[c] = r /\ reply'[c] = row.version
      /\ created' = created \cup {r} /\ told' = told
  BY DEF Commit, IInv, TypeOK
<1>3. \A d \in Clients \ {c} :
          /\ step'[d] = step[d] /\ target'[d] = target[d] /\ reply'[d] = reply[d]
          /\ ~ InTransaction(d)
  BY DEF Commit, IInv, TypeOK, OneWriter, InTransaction
<1>4. CommittedRows'
  BY <1>1, <1>2 DEF IInv, CommittedRows
<1>5. \A q \in Runs : told[q] \in Nat
  BY DEF IInv, TypeOK
<1>6. r \in Present(db) => db[r].version \in Nat
  BY RowFields DEF IInv, TypeOK, Present
<1>7. r \in Present(db') => told'[r] <= db'[r].version
  <2>1. told[r] > 0 => r \in created
    BY <1>1 DEF IInv, ToldSurvives
  <2>2. r \in Present(db) => told[r] <= db[r].version
    BY <1>1 DEF IInv, ToldSurvives
  <2>3. told[r] \in Nat /\ row.version \in Nat
    BY <1>1, <1>5
  <2>4. told[r] <= row.version
    <3>1. CASE r \notin created
      BY <2>1, <2>3, <3>1
    <3>2. CASE r \in Present(db) /\ row.version = db[r].version + 1
      BY <1>6, <2>2, <2>3, <3>2
    <3> QED
      BY <1>1, <3>1, <3>2
  <2> QED
    BY <1>1, <1>2, <2>4
<1>8. ToldSurvives'
  BY <1>1, <1>2, <1>7 DEF IInv, ToldSurvives
<1>9. RetentionBound'
  <2>1. /\ db \in Tables /\ limit \in Limits /\ limit' = limit
        /\ image[c] \in Tables /\ db' \in Settled(image[c], r, limit)
    BY DEF Commit, IInv, TypeOK
  <2>2. CASE row.ended # NotEnded
    <3>1. ASSUME NEW table \in Tables, NEW q \in Runs, table[q].ended # NotEnded,
                 NEW settled \in Settled(table, q, limit)
          PROVE  Cardinality(Completed(settled)) <= limit
      BY <2>1, <3>1, SettledLemma
    <3>2. Cardinality(Completed(db')) <= limit
      BY <1>1, <2>1, <2>2, <3>1
    <3> QED
      BY <2>1, <3>2 DEF RetentionBound
  <2>3. CASE row.ended = NotEnded
    <3>1. row \in Row /\ image[c] = [db EXCEPT ![r] = row]
      BY <1>1, <2>1, RowFields, CommitLemma
    <3>2. db' = image[c]
      BY <2>1, <2>3 DEF Settled
    <3>3. Cardinality(Completed(db')) <= Cardinality(Completed(db))
      BY <1>1, <2>1, <2>3, <3>1, <3>2, UnendedWriteLemma
    <3>4. IsFiniteSet(Completed(db)) /\ IsFiniteSet(Completed(db'))
      BY FS_Subset DEF Completed, Present
    <3>5. Cardinality(Completed(db)) \in Nat /\ Cardinality(Completed(db')) \in Nat
      BY <3>4, FS_CardinalityType
    <3>6. Cardinality(Completed(db)) <= limit
      BY DEF IInv, RetentionBound
    <3>7. limit \in Nat
      BY <2>1
    <3>8. Cardinality(Completed(db')) <= limit
      BY <3>3, <3>5, <3>6, <3>7
    <3> QED
      BY <2>1, <3>8 DEF RetentionBound
  <2> QED
    BY <2>2, <2>3
<1>10. OneWriter' /\ ImagesAreCurrent'
  BY <1>2, <1>3 DEF OneWriter, InTransaction, ImagesAreCurrent
<1>11. RequestsNeedProcess'
  BY <1>3 DEF Commit, IInv, RequestsNeedProcess
<1>12. RepliesSurvive'
  <2>1. r \in Present(db') => reply'[c] <= db'[r].version
    BY <1>1, <1>2
  <2>2. ASSUME NEW d \in Clients \ {c}, step'[d] = "committed"
        PROVE  /\ target'[d] \in created'
               /\ target'[d] \in Present(db') => reply'[d] <= db'[target'[d]].version
    <3>1. /\ target[d] \in created /\ target'[d] = target[d] /\ reply'[d] = reply[d]
          /\ target[d] \in Present(db) => reply[d] <= db[target[d]].version
      BY <1>3, <2>2 DEF IInv, RepliesSurvive
    <3>2. CASE target[d] = r
      <4>1. reply[d] \in Nat
        BY DEF IInv, TypeOK
      <4> QED
        BY <1>1, <1>2, <1>6, <3>1, <3>2, <4>1
    <3>3. CASE target[d] # r
      BY <1>1, <1>2, <3>1, <3>3
    <3> QED
      BY <3>2, <3>3
  <2> QED
    BY <1>2, <2>1, <2>2 DEF RepliesSurvive
<1> QED
  BY <1>4, <1>8, <1>9, <1>10, <1>11, <1>12 DEF IInv

LEMMA IInvRespond ==
    ASSUME IInv, TypeOK', NEW c \in Clients, Respond(c)
    PROVE  IInv'
<1>1. /\ step[c] = "committed" /\ step'[c] = "idle" /\ target[c] \in Runs
      /\ db' = db /\ created' = created /\ limit' = limit
  BY DEF Respond, Leave, IInv, TypeOK
<1>2. \A d \in Clients \ {c} :
          /\ step'[d] = step[d] /\ target'[d] = target[d]
          /\ reply'[d] = reply[d] /\ image'[d] = image[d]
  BY DEF Respond, Leave, IInv, TypeOK
<1>3. /\ target[c] \in created
      /\ target[c] \in Present(db) => reply[c] <= db[target[c]].version
  BY <1>1 DEF IInv, RepliesSurvive
<1>4. \A r \in Runs : told'[r] = told[r] \/ (r = target[c] /\ told'[r] = reply[c])
  BY DEF Respond, Later, IInv, TypeOK
<1>5. ToldSurvives'
  BY <1>1, <1>3, <1>4 DEF IInv, ToldSurvives
<1>6. CommittedRows' /\ RetentionBound'
  BY <1>1 DEF IInv, CommittedRows, RetentionBound
<1>7. OneWriter'
  BY <1>1, <1>2 DEF IInv, OneWriter, InTransaction
<1>8. ImagesAreCurrent'
  BY <1>1, <1>2 DEF IInv, ImagesAreCurrent, PendingWrite
<1>9. RequestsNeedProcess' /\ RepliesSurvive'
  BY <1>1, <1>2 DEF Respond, IInv, RequestsNeedProcess, RepliesSurvive
<1> QED
  BY <1>5, <1>6, <1>7, <1>8, <1>9 DEF IInv

LEMMA IInvNext == IInv /\ [Next]_vars => IInv'
<1> SUFFICES ASSUME IInv, [Next]_vars PROVE IInv'
  OBVIOUS
<1>1. TypeOK'
  BY TypeNext DEF IInv
<1>2. CASE UNCHANGED vars
  BY <1>1, <1>2 DEF IInv, vars, OneWriter, InTransaction, RequestsNeedProcess,
       CommittedRows, ImagesAreCurrent, PendingWrite, RepliesSurvive,
       RetentionBound, ToldSurvives
<1>3. ASSUME NEW lim \in Limits, Start(lim) PROVE IInv'
  BY <1>1, <1>3, IInvStart
<1>4. CASE StartFails \/ Crash
  BY <1>1, <1>4, IInvCrash
<1>5. ASSUME NEW c \in Clients, ClientStep(c) PROVE IInv'
  BY <1>1, <1>5, IInvBegin, IInvAdd, IInvUpdate, IInvUpdateSame, IInvRollback,
     IInvCommit, IInvRespond
     DEF ClientStep
<1> QED
  BY <1>2, <1>3, <1>4, <1>5 DEF Next

LEMMA IInvHolds == Spec => []IInv
<1> QED
  BY IInvInit, IInvNext, PTL DEF Spec

\* Retention holds for every number of runs and whatever limits the recorder
\* is restarted with: no sequence of requests, crashes and starts leaves more
\* completed runs in the table than the limit in force.
THEOREM RetentionHolds == Spec => []RetentionBound
<1>1. IInv => RetentionBound
  BY DEF IInv
<1> QED
  BY <1>1, IInvHolds, PTL

\* No crash, rollback or later request takes back what a caller was told.
THEOREM AcknowledgedWritesSurvive == Spec => []ToldSurvives
<1>1. IInv => ToldSurvives
  BY DEF IInv
<1> QED
  BY <1>1, IInvHolds, PTL

\* Prune never has to choose: the order of completion, start and id singles out the
\* runs to keep, also when completed runs tie on both timestamps.
THEOREM PruneDetermined == Spec => []PruneIsDeterministic
<1>1. TypeOK => PruneIsDeterministic
  <2> SUFFICES ASSUME TypeOK, NEW lim \in Limits
               PROVE  Cardinality(Pruned(db, lim)) = 1
    BY DEF PruneIsDeterministic
  <2>1. db \in Tables
    BY DEF TypeOK
  <2>2. PICK pruned : Pruned(db, lim) = {pruned}
    BY <2>1, PruneHasOneOutcome
  <2> QED
    BY <2>2, FS_Singleton
<1> QED
  BY <1>1, TypeCorrect, PTL

\* The row of a run that a commit or a start removes.
LEMMA RemovalsAreJustified ==
    ASSUME NEW table \in Tables, NEW lim \in Limits, NEW pruned \in Pruned(table, lim),
           NEW r \in Present(table) \ Present(pruned)
    PROVE  LET before == [pruned EXCEPT ![r] = table[r]]
           IN /\ r \in Completed(before)
              /\ Cardinality(Completed(pruned)) = lim
              /\ \A k \in Completed(pruned) : Outranks(before, k, r)
<1> DEFINE before == [pruned EXCEPT ![r] = table[r]]
<1>1. pruned \in Tables /\ r \in Runs
  BY PruneLemma DEF Present
<1>2. /\ r \in Completed(table)
      /\ Cardinality(Completed(pruned)) = lim
      /\ \A k \in Completed(pruned) : Outranks(table, k, r) /\ pruned[k] = table[k] /\ k # r
  BY PruneRemoves
<1>3. before[r] = table[r] /\ \A k \in Runs \ {r} : before[k] = pruned[k]
  BY <1>1 DEF Tables
<1> HIDE DEF before
<1>4. r \in Completed(before)
  BY <1>1, <1>2, <1>3 DEF Completed, Present
<1>5. ASSUME NEW k \in Completed(pruned)
      PROVE  Outranks(before, k, r)
  <2>1. Outranks(table, k, r) /\ before[k] = table[k]
    BY <1>2, <1>3 DEF Completed, Present
  <2> QED
    BY <1>3, <2>1 DEF Outranks
<1> QED
  BY <1>2, <1>4, <1>5 DEF before

\* No request, crash or restart deletes an unfinished run, or a completed one while
\* fewer than the limit of others outrank it.
THEOREM RemovalsJustified == Spec => RemovalJustified
<1> DEFINE Justified(r) ==
              LET before == [db' EXCEPT ![r] = LastRow(r)]
              IN /\ r \in Completed(before)
                 /\ Cardinality(Completed(db')) = limit'
                 /\ \A k \in Completed(db') : Outranks(before, k, r)
           Removed == Present(db) \ Present(db')
<1>1. IInv /\ [Next]_vars => [\A r \in Removed : Justified(r)]_vars
  <2> SUFFICES ASSUME IInv, [Next]_vars, NEW r \in Removed
               PROVE  Justified(r)
    OBVIOUS
  <2>1. db \in Tables /\ limit \in Limits /\ r \in Runs /\ db' # db
    BY DEF IInv, TypeOK, Present
  <2>2. ASSUME NEW lim \in Limits, Start(lim)
        PROVE  Justified(r)
    <3>1. db' \in Pruned(db, lim) /\ limit' = lim /\ step' = step
      BY <2>2 DEF Start, requestVars
    <3>2. LastRow(r) = db[r]
      BY <3>1 DEF LastRow, Commits
    <3> QED
      BY <2>1, <3>1, <3>2, RemovalsAreJustified
  <2>3. ASSUME NEW c \in Clients, Commit(c)
        PROVE  Justified(r)
    <3> DEFINE table == image[c]
    <3>1. /\ target[c] \in Runs /\ table \in Tables
          /\ table = [db EXCEPT ![target[c]] = table[target[c]]]
          /\ table[target[c]].version \in Nat \ {0}
      BY <2>3, CommitLemma
    <3>2. /\ db' \in Settled(table, target[c], limit) /\ limit' = limit
          /\ step[c] = "written" /\ step'[c] = "committed"
      BY <2>3 DEF Commit, IInv, TypeOK
    <3>3. \A d \in Clients : Commits(d) <=> d = c
      BY <3>2 DEF Commits, IInv, OneWriter, InTransaction
    <3>4. (CHOOSE d \in Clients : Commits(d)) = c
      BY <3>3
    <3>5. LastRow(r) = table[r]
      <4>1. CASE target[c] = r
        BY <3>3, <3>4, <4>1 DEF LastRow
      <4>2. CASE target[c] # r
        <5>1. LastRow(r) = db[r]
          BY <3>3, <4>2 DEF LastRow
        <5>2. table[r] = db[r]
          BY <2>1, <3>1, <4>2 DEF Tables
        <5> QED
          BY <5>1, <5>2
      <4> QED
        BY <4>1, <4>2
    <3> HIDE DEF table
    <3>6. r \in Present(table)
      <4>1. CASE target[c] = r
        BY <2>1, <3>1, <4>1 DEF Present
      <4>2. CASE target[c] # r
        BY <2>1, <3>1, <4>2 DEF Present, Tables
      <4> QED
        BY <4>1, <4>2
    <3>7. db' \in Pruned(table, limit)
      <4>1. db' # table
        BY <3>6
      <4> QED
        BY <3>2, <4>1 DEF Settled
    <3> QED
      BY <2>1, <3>1, <3>2, <3>5, <3>6, <3>7, RemovalsAreJustified
  <2>4. CASE StartFails \/ Crash \/ UNCHANGED vars
    BY <2>1, <2>4 DEF StartFails, Crash, vars
  <2>5. ASSUME NEW c \in Clients, ClientStep(c), ~ Commit(c)
        PROVE  FALSE
    BY <2>1, <2>5 DEF ClientStep, Begin, Add, Update, UpdateSame, Rollback, Respond, WriteRow
  <2> QED
    BY <2>2, <2>3, <2>4, <2>5 DEF Next
<1> QED
  BY <1>1, IInvHolds, PTL DEF Spec, RemovalJustified

-----------------------------------------------------------------------------
(* The store implements the ledger: a start is a Resize, a commit is an    *)
(* Enter or a Rewrite, and every other step leaves the ledger as it is.    *)

\* The ledger's copies of the retention operators are the store's.
LEMMA SamePresent == \A table : Ledger!Present(table) = Present(table)
  BY DEF Ledger!Present, Present

LEMMA SameCompleted == \A table : Ledger!Completed(table) = Completed(table)
  BY SamePresent DEF Ledger!Completed, Completed, Ledger!NotEnded, NotEnded

LEMMA SameCardinality == \A S : Ledger!Cardinality(S) = Cardinality(S)
  BY DEF Ledger!Cardinality, Cardinality

LEMMA SameRetainable ==
    ASSUME NEW table, NEW lim
    PROVE  Ledger!Retainable(table, lim) = Retainable(table, lim)
<1>1. ASSUME NEW K
      PROVE  K \in Ledger!Retainable(table, lim) <=> K \in Retainable(table, lim)
  BY SameCompleted, SameCardinality
     DEF Ledger!Retainable, Retainable, Ledger!Outranks, Outranks
<1>2. /\ Ledger!Retainable(table, lim) \subseteq Retainable(table, lim)
      /\ Retainable(table, lim) \subseteq Ledger!Retainable(table, lim)
  BY <1>1
<1> QED
  BY <1>2

LEMMA SamePruned ==
    ASSUME NEW table, NEW lim
    PROVE  Ledger!Pruned(table, lim) = Pruned(table, lim)
<1>1. Ledger!NoRow = NoRow
  BY DEF Ledger!NoRow, NoRow, Ledger!NotEnded, NotEnded
<1>2. /\ Ledger!Completed(table) = Completed(table)
      /\ Ledger!Retainable(table, lim) = Retainable(table, lim)
  BY SameCompleted, SameRetainable
<1>3. ASSUME NEW pruned
      PROVE  pruned \in Ledger!Pruned(table, lim) <=> pruned \in Pruned(table, lim)
  BY <1>1, <1>2 DEF Ledger!Pruned, Pruned
<1>4. /\ Ledger!Pruned(table, lim) \subseteq Pruned(table, lim)
      /\ Pruned(table, lim) \subseteq Ledger!Pruned(table, lim)
  BY <1>3
<1> QED
  BY <1>4

LEMMA SameSettled ==
    \A table, r, lim : Ledger!Settled(table, r, lim) = Settled(table, r, lim)
  BY SamePruned DEF Ledger!Settled, Settled, Ledger!NotEnded, NotEnded

LEMMA SameRows == \A v : Ledger!RowsAt(v) = RowsAt(v)
  BY DEF Ledger!RowsAt, RowsAt, Ledger!NotEnded, NotEnded

LEMMA InitRefines == Init => Ledger!Init
  BY DEF Init, Ledger!Init, Ledger!EmptyTable, EmptyTable, Ledger!NoRow, NoRow,
     Ledger!NotEnded, NotEnded

\* A step that leaves the table, the used ids and the limit is a stutter.
LEMMA StutterRefines ==
    ASSUME UNCHANGED <<db, created, limit>>
    PROVE  [Ledger!Next]_(Ledger!ledgerVars)
  BY DEF Ledger!ledgerVars

LEMMA StartRefines ==
    ASSUME NEW lim \in Limits, Start(lim)
    PROVE  Ledger!Next
<1>1. Ledger!Resize(lim)
  BY SamePruned DEF Start, Ledger!Resize
<1> QED
  BY <1>1 DEF Ledger!Next

LEMMA CommitRefines ==
    ASSUME IInv, NEW c \in Clients, Commit(c)
    PROVE  Ledger!Next
<1> DEFINE r == target[c]
           row == image[c][r]
<1>1. /\ PendingWrite(c) /\ db \in Tables /\ limit' = limit
      /\ created' = created \cup {r} /\ db' \in Settled(image[c], r, limit)
  BY DEF Commit, IInv, ImagesAreCurrent, TypeOK
<1>2. r \in Runs /\ image[c] = [db EXCEPT ![r] = row]
  BY <1>1 DEF PendingWrite
<1>3. db' \in Settled([db EXCEPT ![r] = row], r, limit)
  BY <1>1, <1>2
<1>4. CASE r \notin created /\ row \in RowsAt(1)
  <2>1. Ledger!Enter(r)
    BY <1>1, <1>3, <1>4, SameSettled, SameRows DEF Ledger!Enter
  <2> QED
    BY <1>2, <2>1 DEF Ledger!Next
<1>5. CASE /\ r \in Present(db)
           /\ row \in RowsAt(db[r].version + 1)
           /\ row.started = db[r].started
  <2>1. db[r].version \in Nat \ {0} /\ row.version = db[r].version + 1
    <3>1. db[r].version \in Nat
      BY <1>1, <1>2, RowFields
    <3>2. db[r].version > 0
      BY <1>5 DEF Present
    <3>3. row.version = db[r].version + 1
      BY <1>5 DEF RowsAt
    <3> QED
      BY <3>1, <3>2, <3>3
  <2>2. created' = created
    BY <1>1, <1>5 DEF IInv, CommittedRows
  <2>3. db'[r] = row \/ db'[r] = NoRow
    BY <1>1, <1>2, SettledLemma DEF IInv, TypeOK
  <2>4. db'[r].version # db[r].version
    BY <2>1, <2>3 DEF NoRow
  <2>5. Ledger!Rewrite(r)
    BY <1>1, <1>3, <1>5, <2>2, <2>4, SameSettled, SameRows, SamePresent
       DEF Ledger!Rewrite
  <2> QED
    BY <1>2, <2>5 DEF Ledger!Next
<1> QED
  BY <1>1, <1>4, <1>5 DEF PendingWrite

LEMMA NextRefines ==
    IInv /\ [Next]_vars => [Ledger!Next]_(Ledger!ledgerVars)
<1> SUFFICES ASSUME IInv, [Next]_vars
             PROVE  [Ledger!Next]_(Ledger!ledgerVars)
  OBVIOUS
<1>1. ASSUME NEW lim \in Limits, Start(lim)
      PROVE  [Ledger!Next]_(Ledger!ledgerVars)
  BY <1>1, StartRefines
<1>2. CASE StartFails \/ Crash
  BY <1>2, StutterRefines DEF StartFails, Crash
<1>3. ASSUME NEW c \in Clients, ClientStep(c)
      PROVE  [Ledger!Next]_(Ledger!ledgerVars)
  <2>1. CASE Commit(c)
    BY <2>1, CommitRefines
  <2>2. CASE Begin(c) \/ Rollback(c) \/ Respond(c)
    BY <2>2, StutterRefines DEF Begin, Rollback, Respond
  <2>3. ASSUME NEW r \in Runs, NEW started \in Starts, NEW ended \in Ends \cup {NotEnded},
               Add(c, r, started, ended)
        PROVE  [Ledger!Next]_(Ledger!ledgerVars)
    BY <2>3, StutterRefines DEF Add, WriteRow
  <2>4. ASSUME NEW r \in Runs, NEW ended \in Ends \cup {NotEnded}, NEW sound \in BOOLEAN,
               Update(c, r, ended, sound)
        PROVE  [Ledger!Next]_(Ledger!ledgerVars)
    BY <2>4, StutterRefines DEF Update, WriteRow
  <2>5. ASSUME NEW r \in Runs, UpdateSame(c, r)
        PROVE  [Ledger!Next]_(Ledger!ledgerVars)
    BY <2>5, StutterRefines DEF UpdateSame
  <2> QED
    BY <1>3, <2>1, <2>2, <2>3, <2>4, <2>5 DEF ClientStep
<1>4. CASE UNCHANGED vars
  BY <1>4, StutterRefines DEF vars
<1> QED
  BY <1>1, <1>2, <1>3, <1>4 DEF Next

\* Every behaviour of the store, with its transactions, crashes and restarts,
\* is a behaviour of the ledger: a write takes effect at one instant, on the
\* latest version of its run, and under an id never used before if it is new.
THEOREM StoreImplementsLedger == Spec => LedgerSpec
<1> QED
  BY InitRefines, NextRefines, IInvHolds, PTL DEF Spec, LedgerSpec, Ledger!Spec
=============================================================================
