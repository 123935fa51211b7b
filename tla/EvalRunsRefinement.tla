-------------------------- MODULE EvalRunsRefinement --------------------------
(***************************************************************************)
(* Eval runs implement EndsOnce: the UPDATE that ends a run settles that   *)
(* its writer tells of it, a cancellation is never told, and a worker that *)
(* dies between the two loses the event.                                   *)
(***************************************************************************)
EXTENDS EvalRuns

Promise == INSTANCE EndsOnce WITH
  Thing   <- Run,
  Unended <- "none",
  Silent  <- {"cancelled"},
  ending  <- [r \in Run |-> IF status[r] \in Terminal THEN status[r] ELSE "none"],
  settled <- [r \in Run |-> status[r] \in Terminal],
  owed    <- [r \in Run |-> IF task[r] = "written" THEN 1 ELSE 0],
  told    <- [r \in Run |-> IF completed[r] = "none" THEN 0 ELSE 1],
  copies  <- [r \in Run |-> 1]

\* Every step of a batch is, run by run, a step of EndsOnce or none: one ending, told by
\* the worker that wrote it or by nobody (finish_run and the _dispatch_run_event after it).
ImplementsEndsOnce == Promise!Spec
=============================================================================
