---------------------------- MODULE MCWrenFiber ----------------------------
(* The instances of WrenFiber that TLC checks.                             *)
EXTENDS WrenFiberProofs, TLC

\* No fiber is special until it is created.
Symmetry == Permutations(Fiber)
=============================================================================
