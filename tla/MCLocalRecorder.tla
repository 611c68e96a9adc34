---------------------------- MODULE MCLocalRecorder ----------------------------
(***************************************************************************)
(* Small instances of LocalRecorder.                                       *)
(***************************************************************************)
EXTENDS LocalRecorder, TLC

Symmetry == Permutations(Ports)
=============================================================================
