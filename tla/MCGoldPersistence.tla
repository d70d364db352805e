-------------------------- MODULE MCGoldPersistence --------------------------
(* Three attempts as in the code; two calls, which may share an agent_run_id *)
(* and may wire any of the writers.                                          *)
EXTENDS GoldPersistence

MCVerdicts == {"pass", "uncertain"}
=============================================================================
