------------------------------ MODULE DialLicence ------------------------------
(***************************************************************************)
(* What a campaign promises about the phones it rings, without workers,    *)
(* claims, janitors or databases.  A waiting target may be granted one     *)
(* licence to ring its phone.  A licence is used once or lost, whoever     *)
(* holds it and however late, and no second one is granted while it is     *)
(* out.  A target waits again only after a call that is on record, so a    *)
(* ring nobody recorded is the target's last.                              *)
(***************************************************************************)
EXTENDS Naturals

CONSTANT Target

VARIABLES
  phase,     \* "waiting", "placing", "calling" or "done"
  licence,   \* the targets whose licence is out
  rings,     \* how often each phone was rung
  recorded   \* how many of those rings are on record

vars == <<phase, licence, rings, recorded>>

Init == /\ phase = [t \in Target |-> "waiting"]
        /\ licence = {}
        /\ rings = [t \in Target |-> 0]
        /\ recorded = [t \in Target |-> 0]

KeepsLicence(t) == t \in licence' <=> t \in licence
KeepsCounts(t)  == rings'[t] = rings[t] /\ recorded'[t] = recorded[t]

Grant(t) ==
  /\ phase[t] = "waiting" /\ t \notin licence /\ rings[t] = recorded[t]
  /\ phase'[t] = "placing" /\ t \in licence'
  /\ KeepsCounts(t)

Ring(t) ==
  /\ t \in licence /\ t \notin licence'
  /\ rings'[t] = rings[t] + 1
  /\ phase'[t] = phase[t] /\ recorded'[t] = recorded[t]

Lose(t) ==
  /\ t \in licence /\ t \notin licence'
  /\ phase'[t] = phase[t] /\ KeepsCounts(t)

Record(t) ==
  /\ phase[t] = "placing" /\ t \notin licence /\ rings[t] = recorded[t] + 1
  /\ phase'[t] = "calling" /\ recorded'[t] = rings[t]
  /\ rings'[t] = rings[t] /\ KeepsLicence(t)

Again(t) ==
  /\ phase[t] = "calling" /\ phase'[t] = "waiting"
  /\ KeepsLicence(t) /\ KeepsCounts(t)

Finish(t) ==
  /\ phase[t] # "done" /\ phase'[t] = "done"
  /\ KeepsLicence(t) /\ KeepsCounts(t)

Same(t) == phase'[t] = phase[t] /\ KeepsLicence(t) /\ KeepsCounts(t)

\* One transaction may move several targets; each makes a step of its own, or none.
Next == \A t \in Target :
  Grant(t) \/ Ring(t) \/ Lose(t) \/ Record(t) \/ Again(t) \/ Finish(t) \/ Same(t)

Spec == Init /\ [][Next]_vars
=============================================================================
