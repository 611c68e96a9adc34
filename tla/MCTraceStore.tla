----------------------------- MODULE MCTraceStore -----------------------------
EXTENDS TraceStore, TLC

ClientSymmetry == Permutations(Clients)
=============================================================================
