----------------------------- MODULE MCCallEnding -----------------------------
(* Small instances of CallEnding: what races over one call. *)
EXTENDS CallEndingRefinement, TLC

CONSTANTS h1, h2
=============================================================================
