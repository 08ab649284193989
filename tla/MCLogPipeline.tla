--------------------------- MODULE MCLogPipeline ---------------------------
(* A small instance of LogPipeline for TLC. *)
EXTENDS LogPipeline

CONSTANTS e1, e2

=============================================================================
