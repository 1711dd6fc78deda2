----------------------------- MODULE MCWrenMap -----------------------------
(* The instance of WrenMap that TLC checks.                                *)
EXTENDS WrenMapProofs, TLC

\* Keys differ only in what they hash to.
Symmetry == Permutations(Key) \cup Permutations(Value)
=============================================================================
