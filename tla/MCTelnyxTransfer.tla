--------------------------- MODULE MCTelnyxTransfer ---------------------------
(* Small instances of TelnyxTransfer: a warm transfer with all its speeches, *)
(* and a cold one with none.                                                 *)
EXTENDS TelnyxTransfer, TLC

CONSTANTS r1, r2, h1, o1, o2

FullAndBare ==
  {[warm |-> TRUE, message |-> TRUE, fallback |-> TRUE],
   [warm |-> FALSE, message |-> FALSE, fallback |-> FALSE]}

\* Requests and operators' legs are interchangeable: each is treated alike.
Symmetry == Permutations({r1, r2}) \cup Permutations({o1, o2})
=============================================================================
