------------------------------ MODULE Retention ------------------------------
(***************************************************************************)
(* The rows of the recorder's runs table and the retention rule both run   *)
(* stores apply to them: every unfinished run is kept, and of the          *)
(* completed ones only the newest MaxCompletedRuns.                        *)
(*                                                                         *)
(* A run id is a natural number whose order stands for the ordinal order   *)
(* of the GUID text.  A time is a positive number of ticks; 0 is SQL NULL. *)
(* The payload of a row is abstracted to a version (how many times the row *)
(* was written) and to whether Decode will accept it.                      *)
(***************************************************************************)
EXTENDS Naturals, FiniteSets

CONSTANTS Runs,     \* run ids
          Starts,   \* ticks a start can hold
          Ends,     \* ticks a completion can hold
          Limits    \* values MaxCompletedRuns takes from one start to the next

NotEnded == 0

ASSUME RunsAssumption == Runs \subseteq Nat /\ IsFiniteSet(Runs)
ASSUME TicksAssumption == Starts \cup Ends \subseteq Nat \ {NotEnded}
ASSUME LimitsAssumption == Limits \subseteq Nat \ {0} /\ Limits # {}

Row == [started: Starts \cup {NotEnded}, ended: Ends \cup {NotEnded},
        version: Nat, sound: BOOLEAN]

\* The row a table shows for an id it does not hold.
NoRow == [started |-> NotEnded, ended |-> NotEnded, version |-> 0, sound |-> TRUE]

\* The rows a run can be given as its v-th version.
RowsAt(v) ==
    [started: Starts, ended: Ends \cup {NotEnded}, version: {v}, sound: BOOLEAN]

Tables == [Runs -> Row]
EmptyTable == [r \in Runs |-> NoRow]

Present(table) == {r \in Runs : table[r].version > 0}
Completed(table) == {r \in Present(table) : table[r].ended # NotEnded}
Unfinished(table) == {r \in Present(table) : table[r].ended = NotEnded}

\* Mutant of Outranks: ties are left to the database.
OutranksByTimes(table, a, b) ==
    \/ table[a].ended > table[b].ended
    \/ table[a].ended = table[b].ended /\ table[a].started >= table[b].started

\* ORDER BY completed_at_utc_ticks DESC, started_at_utc_ticks DESC, id
Outranks(table, a, b) ==
    \/ table[a].ended > table[b].ended
    \/ /\ table[a].ended = table[b].ended
       /\ table[a].started > table[b].started
    \/ /\ table[a].ended = table[b].ended
       /\ table[a].started = table[b].started
       /\ a < b

\* Mutant of Retainable: any lim completed runs, in no particular order.
RetainableUnordered(table, lim) ==
    {K \in SUBSET Completed(table) :
        Cardinality(K) = lim \/ (Cardinality(K) < lim /\ K = Completed(table))}

\* The completed runs in the first lim places of that order.
Retainable(table, lim) ==
    {K \in SUBSET Completed(table) :
        /\ \A k \in K, d \in Completed(table) \ K : Outranks(table, k, d)
        /\ Cardinality(K) <= lim
        /\ Cardinality(K) = lim \/ K = Completed(table)}

\* The tables Prune can leave: one, because the order is total.
Pruned(table, lim) ==
    {[r \in Runs |-> IF r \in Completed(table) \ K THEN NoRow ELSE table[r]] :
        K \in Retainable(table, lim)}

\* Mutant of Settled: completing a run does not prune.
SettledUnpruned(table, r, lim) == {table}

\* The tables a write of run r can commit: Prune runs only if r has ended.
Settled(table, r, lim) ==
    IF table[r].ended = NotEnded THEN {table} ELSE Pruned(table, lim)
=============================================================================
