----------------------------- MODULE MCCallAgent -----------------------------
(* Small instances of CallAgent: an agent whose procedure asks, checks, and resolves or    *)
(* hands off to billing, whose own procedure is started on request and may transfer.       *)
EXTENDS CallAgent, TLC

CONSTANTS frontDesk, billing, internet, refund, c1, q1,
          ask, check, resolved, handOver, verify, paid, human, faq, rates

OwnerOf     == (internet :> frontDesk) @@ (refund :> billing)
StartOf     == (internet :> ask) @@ (refund :> verify)
MovesOf     == (ask :> {check}) @@ (check :> {resolved, handOver}) @@ (resolved :> {})
               @@ (handOver :> {}) @@ (verify :> {paid, human}) @@ (paid :> {}) @@ (human :> {})
EscalatesTo == (handOver :> billing) @@ (human :> Transfer)
SkillsOf    == (frontDesk :> {faq, rates}) @@ (billing :> {rates})
=============================================================================
