------------------------------ MODULE MCPipeline ------------------------------
(***************************************************************************)
(* Small runs for TLC: a budget of two calls, enough for a discovery and a *)
(* reconciliation that leave nothing for the composition.                  *)
(***************************************************************************)
EXTENDS PipelineRun
=============================================================================
