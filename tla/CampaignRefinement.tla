-------------------------- MODULE CampaignRefinement --------------------------
(***************************************************************************)
(* The campaign implements DialLicence: begin_placing is the grant, the    *)
(* worker past it holds the licence, and record_dial puts its ring on      *)
(* record.                                                                 *)
(***************************************************************************)
EXTENDS Campaign

PhaseOf(s) == CASE s \in {"pending", "dialling"} -> "waiting"
                [] s \in Final -> "done"
                [] OTHER -> s

Phase    == [t \in Target |-> PhaseOf(status[t])]
Licensed == {t \in Target : \E w \in Worker : pc[w] = "asking" /\ tgt[w] = t}
Rings    == [t \in Target |-> Len(call[t])]

Licence == INSTANCE DialLicence WITH
  phase <- Phase, licence <- Licensed, rings <- Rings, recorded <- attempts

\* Every step of the campaign is, target by target, a step of DialLicence or none:
\* one licence, one ring, and no second licence before the first ring is on record.
ImplementsDialLicence == Licence!Spec
=============================================================================
