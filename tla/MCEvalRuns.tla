------------------------------ MODULE MCEvalRuns ------------------------------
(* Small instances of EvalRuns. *)
EXTENDS EvalRunsRefinement, TLC

CONSTANTS e1, e2
=============================================================================
