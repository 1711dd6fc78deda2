---------------------------- MODULE MCHttpServer ----------------------------
(* The instances of HttpServer that TLC checks.                            *)
EXTENDS HttpServerProofs
=============================================================================
