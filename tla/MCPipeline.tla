---------------------------- MODULE MCPipeline ----------------------------
(* The three suites, for TLC. *)
EXTENDS Pipeline
=============================================================================
