----------------------------- MODULE MCPipeline ------------------------------
(* Pipeline with operations that are interchangeable. *)
EXTENDS Pipeline, TLC

Stages == <<"vision", "build", "complete">>

Interchangeable == Permutations(Operation)
=============================================================================
