---------------------------- MODULE MCSharedRuntime ----------------------------
(***************************************************************************)
(* Small instances of SharedRuntime.                                       *)
(***************************************************************************)
EXTENDS SharedRuntime

CONSTANTS t1, e1, e2, e3, e4, c1, c2

\* e1 and e2 report the same call, e4 does not name its call.
MCCallOf == e1 :> c1 @@ e2 :> c1 @@ e3 :> c2 @@ e4 :> NoCall

\* Only the first turn's session reports usage.
MCEventsOf == [t \in Sessions |-> IF t = t1 THEN EventIds ELSE {}]
=============================================================================
