---------------------------- MODULE MCStageRuns ----------------------------
(* StageRuns on three requests and one crash. *)
EXTENDS StageRuns
=============================================================================
