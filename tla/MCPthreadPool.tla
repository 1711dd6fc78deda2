--------------------------- MODULE MCPthreadPool ---------------------------
(* The instance of PthreadPool that TLC checks.  Workers and tasks are not *)
(* made symmetric: the run also checks liveness.                           *)
EXTENDS PthreadPoolProofs
=============================================================================
