------------------------- MODULE CallEndingRefinement -------------------------
(***************************************************************************)
(* A call's ending implements EndsOnce: claim_post_call settles that the   *)
(* ending is told, and each post-call run it leads to is a telling owed.   *)
(* A redacting project's run may become two, the holder's and the          *)
(* asker's, when the holder answers too late, and no more than two.        *)
(***************************************************************************)
EXTENDS CallEnding

TheCall == {"call"}

\* What the runs under way may still send: a run begun on another replica may ask the
\* conversation's holder for one and send itself.
Tellings ==
  IF redacts THEN 2 * RunsIn(begun) + asking + RunsIn(working)
  ELSE RunsIn(begun) + RunsIn(working)

Promise == INSTANCE EndsOnce WITH
  Thing   <- TheCall,
  Unended <- "none",
  Silent  <- {"no_answer", "busy"},
  ending  <- [t \in TheCall |-> IF status \in Ended THEN status ELSE "none"],
  settled <- [t \in TheCall |-> started],
  owed    <- [t \in TheCall |-> Tellings],
  told    <- [t \in TheCall |-> sent],
  copies  <- [t \in TheCall |-> IF redacts THEN 2 ELSE 1]

\* Every step of a call is a step of EndsOnce or none: one ending, one claim, after or
\* with the ending and never of an unanswered call, and as many call.ended as it allows
\* (call_repo.claim_post_call, call_analysis_trigger._run_post_call).
ImplementsEndsOnce == Promise!Spec
=============================================================================
