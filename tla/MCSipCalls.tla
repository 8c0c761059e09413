----------------------------- MODULE MCSipCalls -----------------------------
(* The engine with the most general client, for TLC.                       *)
EXTENDS SipCalls, TLC

\* No definition tells one callback thread from another.
ThreadSymmetry == Permutations(CbThreads)
=============================================================================
