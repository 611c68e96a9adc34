------------------------------- MODULE MCViewer -------------------------------
(***************************************************************************)
(* Small instances of Viewer.                                              *)
(***************************************************************************)
EXTENDS Viewer, TLC

Symmetry == Permutations(Runs)
=============================================================================
