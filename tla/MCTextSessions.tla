---------------------------- MODULE MCTextSessions ----------------------------
(* Small instances of TextSessions: two agents that share a skill answer the messages. *)
EXTENDS TextSessions, TLC

CONSTANTS m1, m2, r1, r2, booking, billing, refunds

ListedByAgent == m1 :> {booking, billing, refunds} @@ m2 :> {billing, refunds}
CapOfAgent    == m1 :> 2 @@ m2 :> 3
WantedByModel == m1 :> {<<booking, billing>>} @@ m2 :> {<<refunds>>}
=============================================================================
