----------------------------- MODULE MCLiveCalls -----------------------------
(* Small instances of LiveCalls. *)
EXTENDS LiveCalls, TLC

CONSTANTS c1, c2, p1
=============================================================================
