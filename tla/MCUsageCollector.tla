--------------------------- MODULE MCUsageCollector ---------------------------
(***************************************************************************)
(* Small instances of UsageCollector.                                      *)
(***************************************************************************)
EXTENDS UsageCollector
=============================================================================
