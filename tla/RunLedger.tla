------------------------------ MODULE RunLedger ------------------------------
(***************************************************************************)
(* What a run store promises to its callers, free of transactions, crashes *)
(* and connections: a ledger of runs in which every accepted write takes   *)
(* effect at once, on the latest version of the run, and is followed by    *)
(* the retention rule.  TraceStore implements it.                          *)
(***************************************************************************)
EXTENDS Retention

VARIABLES runs,     \* the ledger
          created,  \* ids that were ever entered
          limit     \* MaxCompletedRuns now in force

ledgerVars == <<runs, created, limit>>

Init ==
    /\ runs = EmptyTable
    /\ created = {}
    /\ limit \in Limits

\* A new run is entered under an id that was never used before.
Enter(r) ==
    /\ r \notin created
    /\ created' = created \cup {r}
    /\ UNCHANGED limit
    /\ \E row \in RowsAt(1) :
          runs' \in Settled([runs EXCEPT ![r] = row], r, limit)

\* A run is rewritten from its latest version; its start never moves.  Its row
\* is another one afterwards, or gone.
Rewrite(r) ==
    /\ r \in Present(runs)
    /\ UNCHANGED <<created, limit>>
    /\ runs'[r] # runs[r]
    /\ \E row \in RowsAt(runs[r].version + 1) :
          /\ row.started = runs[r].started
          /\ runs' \in Settled([runs EXCEPT ![r] = row], r, limit)

\* The recorder restarts with another limit.
Resize(lim) ==
    /\ limit' = lim
    /\ runs' \in Pruned(runs, lim)
    /\ UNCHANGED created

Next ==
    \/ \E r \in Runs : Enter(r) \/ Rewrite(r)
    \/ \E lim \in Limits : Resize(lim)

Spec == Init /\ [][Next]_ledgerVars
=============================================================================
