----------------------------- MODULE MCPipeline -----------------------------
(* Small instances of Pipeline for TLC; their constants are in the .cfg files. *)
EXTENDS Pipeline
=============================================================================
