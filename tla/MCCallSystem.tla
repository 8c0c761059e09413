---------------------------- MODULE MCCallSystem ----------------------------
(* The engine with the Dart calls model, for TLC.                          *)
EXTENDS CallSystem, TLC

\* No definition tells one callback thread from another.
ThreadSymmetry == Permutations(CbThreads)
=============================================================================
