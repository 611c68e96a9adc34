---------------------------- MODULE MCOperationLock ----------------------------
(***************************************************************************)
(* Small instances of OperationLock.                                       *)
(***************************************************************************)
EXTENDS OperationLock, TLC

Symmetry == Permutations(Windows) \cup Permutations(Tokens)
=============================================================================
