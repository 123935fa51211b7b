------------------------------ MODULE MCCampaign ------------------------------
(* Small instances of Campaign: one ending the policy retries, one it does not. *)
EXTENDS CampaignRefinement

CONSTANTS w1, w2, t1, noAnswer, answered

TwoDials == [r \in Reason |-> IF r = noAnswer THEN 2 ELSE 0]
=============================================================================
