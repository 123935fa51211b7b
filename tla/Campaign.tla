------------------------------- MODULE Campaign -------------------------------
(***************************************************************************)
(* One outbound campaign: its row, its target rows, the campaign workers   *)
(* that dial them (campaigns/dialer.py), the guarded UPDATEs they race     *)
(* through (storage/repositories/campaign_repo.py), the operator's pause,  *)
(* resume and cancel, and the phones the carrier rings.                    *)
(*                                                                         *)
(* A step is one database transaction, or one request to the carrier.      *)
(* What a worker holds in memory between two steps (whether the campaign   *)
(* row it read may be dialled, the endings it read, the target it claimed) *)
(* is in pc, plan and tgt, and a crash loses exactly that.                 *)
(***************************************************************************)
EXTENDS Naturals, Sequences, FiniteSets

CONSTANTS
  Worker,      \* the campaign worker processes
  Target,      \* the campaign's targets
  NoTarget,    \* what a worker that claims nothing holds
  Reason,      \* how a placed call can end (its ended_reason)
  MaxDials,    \* retry_policy: reason -> max_attempts, 0 for a reason without a rule
  Windowed,    \* the targets that have a calling window
  MaxCrash,    \* bound: worker crashes in a behaviour
  MaxStall,    \* bound: times a live worker outlasts its claim or its reservation
  MaxTurn      \* bound: times a calling window closes

ASSUME CampaignAssumption ==
  /\ NoTarget \notin Target
  /\ {"none", "up"} \cap Reason = {}
  /\ MaxDials \in [Reason -> Nat]
  /\ Windowed \subseteq Target
  /\ MaxCrash \in Nat /\ MaxStall \in Nat /\ MaxTurn \in Nat

VARIABLES
  campaign,    \* campaigns.status
  started,     \* campaigns.started_at is set
  status,      \* campaign_targets.status
  next,        \* next_attempt_at: "null", still to come ("later"), or "due"
  stale,       \* claimed_at is older than the claim timeout
  attempts,    \* campaign_targets.attempts
  reason,      \* campaign_targets.ended_reason
  call,        \* the calls the carrier placed to each target: "up", or how it ended
  suppressed,  \* the targets whose number is on the suppression list
  open,        \* the targets whose calling window is open
  pc,          \* where each worker is in its pass
  tgt,         \* the target each worker is dialling
  plan,        \* what each worker means to do with each ended call it has read
  announced,   \* how often each campaign event was dispatched
  cancelling,  \* a cancel is committed and its event not dispatched yet
  crashes, stalls, turns

rows    == <<campaign, started, status, next, stale, attempts, reason>>
world   == <<call, suppressed, open>>
workers == <<pc, tgt, plan>>
bounds  == <<crashes, stalls, turns>>
vars    == <<rows, world, workers, announced, cancelling, bounds>>

CampaignStatus == {"queued", "running", "paused", "completed", "cancelled"}
Final          == {"completed", "suppressed", "failed", "cancelled"}
Claimed        == {"dialling", "placing", "calling"}
TargetStatus   == {"pending"} \cup Claimed \cup Final
Event          == {"started", "completed", "cancelled"}
Stage == {"idle", "open", "read", "read_only", "settle", "settle_only", "start",
          "announce_started", "next", "claimed", "checked", "asking", "asked", "suppressed", "refused",
          "handback", "finish", "announce_completed"}

\* The stages of a dial, from the committed claim to the write that closes it.
Dialling == {"claimed", "checked", "asking", "asked", "suppressed", "refused", "handback"}

Nothing == [reason |-> "none", retry |-> FALSE]
NoPlan  == [t \in Target |-> Nothing]

PlanType == [reason : Reason \cup {"none"}, retry : BOOLEAN]

RowTypes ==
  /\ campaign \in CampaignStatus /\ started \in BOOLEAN
  /\ status \in [Target -> TargetStatus]
  /\ next \in [Target -> {"null", "later", "due"}]
  /\ stale \in [Target -> BOOLEAN]
  /\ attempts \in [Target -> Nat]
  /\ reason \in [Target -> Reason \cup {"none"}]

WorldTypes ==
  /\ call \in [Target -> Seq(Reason \cup {"up"})]
  /\ suppressed \subseteq Target
  /\ open \subseteq Target

WorkerTypes ==
  /\ pc \in [Worker -> Stage]
  /\ tgt \in [Worker -> Target \cup {NoTarget}]
  /\ \A w \in Worker : pc[w] \in Dialling <=> tgt[w] # NoTarget
  /\ plan \in [Worker -> [Target -> PlanType]]
  /\ \A w \in Worker, t \in Target : plan[w][t] # Nothing => plan[w][t].reason \in Reason

CounterTypes ==
  /\ announced \in [Event -> Nat] /\ cancelling \in BOOLEAN
  /\ crashes \in Nat /\ stalls \in Nat /\ turns \in Nat

TypeOK == RowTypes /\ WorldTypes /\ WorkerTypes /\ CounterTypes

Init ==
  /\ campaign = "queued" /\ started = FALSE
  /\ status = [t \in Target |-> "pending"]
  /\ next = [t \in Target |-> "null"]
  /\ stale = [t \in Target |-> FALSE]
  /\ attempts = [t \in Target |-> 0]
  /\ reason = [t \in Target |-> "none"]
  /\ call = [t \in Target |-> <<>>]
  /\ suppressed = {}
  /\ open \in {Target, Target \ Windowed}
  /\ pc = [w \in Worker |-> "idle"]
  /\ tgt = [w \in Worker |-> NoTarget]
  /\ plan = [w \in Worker |-> NoPlan]
  /\ announced = [e \in Event |-> 0] /\ cancelling = FALSE
  /\ crashes = 0 /\ stalls = 0 /\ turns = 0

-----------------------------------------------------------------------------
(* Moves on one target row.  Each is an UPDATE that lands only from the    *)
(* statuses it names; where it does not land it changes nothing.           *)

\* _move: to status s from any of frm, with claimed_at cleared.
Move(t, frm, s) ==
  IF status[t] \in frm
    THEN status' = [status EXCEPT ![t] = s] /\ stale' = [stale EXCEPT ![t] = FALSE]
    ELSE UNCHANGED <<status, stale>>

\* Mutant: whoever finishes a target last has the last word.
FinishTargetAnyway(t, s) ==
  /\ status' = [status EXCEPT ![t] = s] /\ stale' = [stale EXCEPT ![t] = FALSE]
  /\ reason' = [reason EXCEPT ![t] = "none"]

\* finish_target guards on the status alone, not on who holds the claim; the
\* dialler's own calls of it pass no ended_reason, which clears the one there.
FinishTarget(t, s) ==
  /\ Move(t, Claimed, s)
  /\ reason' = IF status[t] \in Claimed THEN [reason EXCEPT ![t] = "none"] ELSE reason

Unclaim(t) == Move(t, {"dialling"}, "pending")

Goto(w, from, to) == pc[w] = from /\ pc' = [pc EXCEPT ![w] = to]

\* The dial is over: the worker goes on to its next target.
EndDial(w) ==
  /\ pc' = [pc EXCEPT ![w] = "next"]
  /\ tgt' = [tgt EXCEPT ![w] = NoTarget]

-----------------------------------------------------------------------------
(* A worker's pass                                                         *)

\* Mutants: a claim abandoned at the carrier is dialled again, or left as it is.
AbandonedRedialled(s) == IF s \in {"dialling", "placing"} THEN "pending" ELSE s
AbandonedForgotten(s) == IF s = "dialling" THEN "pending" ELSE s

\* Where the janitor moves a stale claim: back if the carrier was never asked.
Abandoned(s) == CASE s = "dialling" -> "pending"
                  [] s = "placing"  -> "failed"
                  [] OTHER          -> s

\* reclaim_abandoned, at the top of every pass: stale claims, whoever made them.
Reclaim(w) ==
  /\ Goto(w, "idle", "open")
  /\ status' = [t \in Target |-> IF stale[t] THEN Abandoned(status[t]) ELSE status[t]]
  /\ stale' = [t \in Target |-> stale[t] /\ status'[t] = status[t]]
  /\ UNCHANGED <<campaign, started, next, attempts, reason, world, tgt, plan,
                 announced, cancelling, bounds>>

\* Mutant: a paused or cancelled campaign is left alone.
ActiveDialling == campaign \in {"queued", "running"}

\* active_campaigns: the campaign still has something for a worker to do.
Active == \/ campaign \in {"queued", "running", "paused"}
          \/ campaign = "cancelled" /\ \E t \in Target : status[t] = "calling"

\* Mutant: max_attempts taken for the number of retries.
RetriesOneMore(r, n) == n <= MaxDials[r]

\* retry_at: whether the policy dials again after this ending and this many dials.
Retries(r, n) == n < MaxDials[r]

\* Mutant: the target's first call instead of its last.
FirstCall(t) == call[t][1]

\* calling_targets joins a target with its last recorded call; its ended_reason is
\* null while it is up.
LastCall(t) == call[t][attempts[t]]
Ended(t)    == status[t] = "calling" /\ attempts[t] \in DOMAIN call[t] /\ LastCall(t) # "up"

\* Read the campaign row, in a transaction of its own: a paused or cancelled campaign
\* is only settled.
OpenPass(w) ==
  /\ Goto(w, "open", IF campaign \in {"queued", "running"} THEN "read"
                     ELSE IF Active THEN "read_only" ELSE "idle")
  /\ UNCHANGED <<rows, world, tgt, plan, announced, cancelling, bounds>>

\* _settle reads the campaign's `calling` targets and how their calls ended.
ReadEndings(w) ==
  /\ Goto(w, "read", "settle") \/ Goto(w, "read_only", "settle_only")
  /\ plan' = [plan EXCEPT ![w] = [t \in Target |->
       IF Ended(t)
         THEN [reason |-> LastCall(t), retry |-> Retries(LastCall(t), attempts[t])]
         ELSE Nothing]]
  /\ UNCHANGED <<rows, world, tgt, announced, cancelling, bounds>>

\* _settle's writes for every ending read before: retry_target lands from
\* `calling`, finish_target from any claimed status.
Settle(w) ==
  LET Read  == {t \in Target : plan[w][t] # Nothing}
      Again == {t \in Read : plan[w][t].retry /\ status[t] = "calling"}
      Done  == {t \in Read : ~plan[w][t].retry /\ status[t] \in Claimed}
  IN /\ Goto(w, "settle", "start") \/ Goto(w, "settle_only", "idle")
     /\ status' = [t \in Target |-> CASE t \in Again -> "pending"
                                      [] t \in Done  -> "completed"
                                      [] OTHER       -> status[t]]
     /\ next' = [t \in Target |-> IF t \in Again THEN "later" ELSE next[t]]
     /\ reason' = [t \in Target |->
          IF t \in Again \cup Done THEN plan[w][t].reason ELSE reason[t]]
     /\ stale' = [t \in Target |-> stale[t] /\ t \notin Done]
     /\ plan' = [plan EXCEPT ![w] = NoPlan]
     /\ UNCHANGED <<campaign, started, attempts, world, tgt, announced,
                    cancelling, bounds>>

\* lifecycle.start: a campaign still `queued` was read `queued`, since one that has
\* run is never `queued` again.
Start(w) ==
  LET moves == campaign = "queued"
  IN /\ Goto(w, "start", IF moves THEN "announce_started" ELSE "next")
     /\ campaign' = IF moves THEN "running" ELSE campaign
     /\ started' = (started \/ moves)
     /\ UNCHANGED <<status, next, stale, attempts, reason, world, tgt, plan,
                    announced, cancelling, bounds>>

\* _announce: dispatched after the commit, by the worker whose move it was.
Announce(w) ==
  /\ \/ /\ Goto(w, "announce_started", "next")
        /\ announced' = [announced EXCEPT !["started"] = @ + 1]
     \/ /\ Goto(w, "announce_completed", "idle")
        /\ announced' = [announced EXCEPT !["completed"] = @ + 1]
  /\ UNCHANGED <<rows, world, tgt, plan, cancelling, bounds>>

\* Mutants: completed from any status, or as soon as nothing is left to claim.
AllFinalAnyStatus == \A t \in Target : status[t] \in Final
NoneToClaim       == campaign = "running" /\ \A t \in Target : status[t] \notin {"pending", "dialling"}

AllFinal == campaign = "running" /\ \A t \in Target : status[t] \in Final

\* complete_if_done, the end of a pass that could dial.
FinishIfDone(w) ==
  /\ Goto(w, "finish", IF AllFinal THEN "announce_completed" ELSE "idle")
  /\ campaign' = IF AllFinal THEN "completed" ELSE campaign
  /\ UNCHANGED <<started, status, next, stale, attempts, reason, world, tgt,
                 plan, announced, cancelling, bounds>>

-----------------------------------------------------------------------------
(* One dial                                                                *)

\* reserve_dial said no: the project's live calls or the number's rate are full.
ReserveRefused(w) ==
  /\ Goto(w, "next", "finish")
  /\ UNCHANGED <<rows, world, tgt, plan, announced, cancelling, bounds>>

\* claim_statement: a target whose time has come first, else a never-dialled one;
\* nothing at all unless the campaign is running.
Pending(n) == {t \in Target : status[t] = "pending" /\ next[t] = n}
Claimable  == IF campaign # "running" THEN {}
              ELSE IF Pending("due") # {} THEN Pending("due") ELSE Pending("null")

NothingToClaim(w) ==
  /\ Goto(w, "next", "finish")
  /\ Claimable = {}
  /\ UNCHANGED <<rows, world, tgt, plan, announced, cancelling, bounds>>

\* claim_next_target inside the target's calling window, committed before the dial.
Claim(w, t) ==
  /\ Goto(w, "next", "claimed")
  /\ t \in Claimable \cap open
  /\ status' = [status EXCEPT ![t] = "dialling"]
  /\ stale' = [stale EXCEPT ![t] = FALSE]
  /\ tgt' = [tgt EXCEPT ![w] = t]
  /\ UNCHANGED <<campaign, started, next, attempts, reason, world, plan,
                 announced, cancelling, bounds>>

\* Claimed outside its window: deferred to the next opening in the same transaction.
Defer(w, t) ==
  /\ pc[w] = "next"
  /\ t \in Claimable \ open
  /\ next' = [next EXCEPT ![t] = "later"]
  /\ stale' = [stale EXCEPT ![t] = FALSE]
  /\ UNCHANGED <<campaign, started, status, attempts, reason, world, workers,
                 announced, cancelling, bounds>>

\* place_outbound_call up to the carrier: the suppression list first, then every
\* other refusal (agent, number, account, the customer's call-init), and the limits
\* once more, which refuse only a reservation that lapsed because the dial stalled.
Check(w) ==
  LET t == tgt[w]
  IN /\ \/ t \in suppressed /\ Goto(w, "claimed", "suppressed") /\ UNCHANGED stalls
        \/ t \notin suppressed /\ Goto(w, "claimed", "checked") /\ UNCHANGED stalls
        \/ t \notin suppressed /\ Goto(w, "claimed", "refused") /\ UNCHANGED stalls
        \/ /\ t \notin suppressed /\ Goto(w, "claimed", "handback")
           /\ stalls < MaxStall /\ stalls' = stalls + 1
     /\ UNCHANGED <<rows, world, tgt, plan, announced, cancelling, crashes, turns>>

\* Mutants: begin_placing that trusts the claim, or does not look at the campaign.
MayPlaceAnyClaim(t)    == status[t] \in Claimed /\ campaign = "running"
MayPlaceAnyCampaign(t) == status[t] = "dialling"

MayPlace(t) == status[t] = "dialling" /\ campaign = "running"

\* before_carrier: begin_placing in its own transaction, the only way to the carrier.
BeginPlacing(w) ==
  LET t     == tgt[w]
      moved == MayPlace(t)
  IN /\ Goto(w, "checked", IF moved THEN "asking" ELSE "handback")
     /\ status' = IF moved THEN [status EXCEPT ![t] = "placing"] ELSE status
     /\ stale' = IF moved THEN [stale EXCEPT ![t] = FALSE] ELSE stale
     /\ UNCHANGED <<campaign, started, next, attempts, reason, world, tgt, plan,
                    announced, cancelling, bounds>>

\* The carrier is asked.  It rings the phone and says so; or refuses; or rings it
\* and the answer is lost, which the worker takes for a refusal.
AskCarrier(w) ==
  /\ \/ /\ Goto(w, "asking", "asked")
        /\ call' = [call EXCEPT ![tgt[w]] = Append(@, "up")]
     \/ /\ Goto(w, "asking", "refused")
        /\ call' \in {call, [call EXCEPT ![tgt[w]] = Append(@, "up")]}
  /\ UNCHANGED <<rows, suppressed, open, tgt, plan, announced, cancelling, bounds>>

\* record_dial, committed with the call row: `placing` to `calling`.  If the target
\* has moved on, only the call row is written.
RecordDial(w) ==
  LET t     == tgt[w]
      moved == status[t] = "placing"
  IN /\ pc[w] = "asked"
     /\ EndDial(w)
     /\ Move(t, {"placing"}, "calling")
     /\ attempts' = IF moved THEN [attempts EXCEPT ![t] = @ + 1] ELSE attempts
     /\ reason' = IF moved THEN [reason EXCEPT ![t] = "none"] ELSE reason
     /\ UNCHANGED <<campaign, started, next, world, plan, announced, cancelling,
                    bounds>>

\* Writing the dial down failed: _not_recorded ends the target, or fails as well.
NotRecorded(w) ==
  /\ pc[w] = "asked"
  /\ EndDial(w)
  /\ \/ FinishTarget(tgt[w], "failed")
     \/ UNCHANGED <<status, stale, reason>>
  /\ UNCHANGED <<campaign, started, next, attempts, world, plan, announced,
                 cancelling, bounds>>

\* Mutant: a refused dial is tried again.
RefusedAgain(t) == Move(t, Claimed, "pending") /\ UNCHANGED reason

\* The carrier, or a check, said no: a lost answer looks the same, so it is final.
Refused(t) == FinishTarget(t, "failed")

\* _not_dialled: hand the target back, or end it with why.
NotDialled(w) ==
  LET t == tgt[w]
  IN /\ \/ pc[w] = "suppressed" /\ FinishTarget(t, "suppressed")
        \/ pc[w] = "refused" /\ Refused(t)
        \/ pc[w] = "handback" /\ Unclaim(t) /\ UNCHANGED reason
     /\ EndDial(w)
     /\ UNCHANGED <<campaign, started, next, attempts, world, plan, announced,
                    cancelling, bounds>>

-----------------------------------------------------------------------------
(* The operator, the callers, time and failure                             *)

Pause ==
  /\ campaign \in {"queued", "running"}
  /\ campaign' = "paused"
  /\ UNCHANGED <<started, status, next, stale, attempts, reason, world, workers,
                 announced, cancelling, bounds>>

Resume ==
  /\ campaign = "paused"
  /\ campaign' = IF started THEN "running" ELSE "queued"
  /\ UNCHANGED <<started, status, next, stale, attempts, reason, world, workers,
                 announced, cancelling, bounds>>

\* Mutant: a cancel that overlooks the targets a worker has claimed.
NotClaimed == {t \in Target : status[t] = "pending"}

Undialled == {t \in Target : status[t] \in {"pending", "dialling"}}

\* cancel_campaign: the row, and every target not yet at the carrier.
Cancel ==
  /\ campaign \in {"queued", "running", "paused"}
  /\ campaign' = "cancelled"
  /\ status' = [t \in Target |-> IF t \in Undialled THEN "cancelled" ELSE status[t]]
  /\ stale' = [t \in Target |-> stale[t] /\ t \notin Undialled]
  /\ cancelling' = TRUE
  /\ UNCHANGED <<started, next, attempts, reason, world, workers, announced, bounds>>

\* lifecycle.cancel's dispatch, after its commit.
AnnounceCancel ==
  /\ cancelling /\ cancelling' = FALSE
  /\ announced' = [announced EXCEPT !["cancelled"] = @ + 1]
  /\ UNCHANGED <<rows, world, workers, bounds>>

\* A placed call ends.  Its row says so once the row is committed: a call outlasts
\* the commit that follows the carrier's answer.
CallEnds(t, n, r) ==
  /\ n \in DOMAIN call[t] /\ call[t][n] = "up"
  /\ ~\E w \in Worker : pc[w] = "asked" /\ tgt[w] = t
  /\ call' = [call EXCEPT ![t][n] = r]
  /\ UNCHANGED <<rows, suppressed, open, workers, announced, cancelling, bounds>>

\* The number goes on the suppression list (the operator, or a caller asking).
OptOut(t) ==
  /\ t \notin suppressed
  /\ suppressed' = suppressed \cup {t}
  /\ UNCHANGED <<rows, call, open, workers, announced, cancelling, bounds>>

Held(t) == \E w \in Worker : tgt[w] = t

\* A claim outlives the claim timeout: a dead worker's surely, a live one's rarely.
ClaimAges(t) ==
  /\ status[t] \in {"dialling", "placing"} /\ ~stale[t]
  /\ \/ ~Held(t) /\ UNCHANGED stalls
     \/ Held(t) /\ stalls < MaxStall /\ stalls' = stalls + 1
  /\ stale' = [stale EXCEPT ![t] = TRUE]
  /\ UNCHANGED <<campaign, started, status, next, attempts, reason, world, workers,
                 announced, cancelling, crashes, turns>>

\* next_attempt_at comes: next_open and retry_at both put it inside the window.
TimeComes(t) ==
  /\ next[t] = "later" /\ t \in open
  /\ next' = [next EXCEPT ![t] = "due"]
  /\ UNCHANGED <<campaign, started, status, stale, attempts, reason, world, workers,
                 announced, cancelling, bounds>>

WindowOpens(t) ==
  /\ t \notin open
  /\ open' = open \cup {t}
  /\ UNCHANGED <<rows, call, suppressed, workers, announced, cancelling, bounds>>

WindowCloses(t) ==
  /\ t \in open \cap Windowed /\ turns < MaxTurn
  /\ open' = open \ {t} /\ turns' = turns + 1
  /\ UNCHANGED <<rows, call, suppressed, workers, announced, cancelling, crashes, stalls>>

\* A worker dies, or a fault ends its pass: it starts again with nothing in memory.
Crash(w) ==
  /\ pc[w] # "idle" /\ crashes < MaxCrash
  /\ pc' = [pc EXCEPT ![w] = "idle"]
  /\ tgt' = [tgt EXCEPT ![w] = NoTarget]
  /\ plan' = [plan EXCEPT ![w] = NoPlan]
  /\ crashes' = crashes + 1
  /\ UNCHANGED <<rows, world, announced, cancelling, stalls, turns>>

Dial(w) == \/ ReserveRefused(w) \/ NothingToClaim(w)
           \/ \E t \in Target : Claim(w, t) \/ Defer(w, t)
           \/ Check(w) \/ BeginPlacing(w) \/ AskCarrier(w)
           \/ RecordDial(w) \/ NotRecorded(w) \/ NotDialled(w)

Pass(w) == \/ Reclaim(w) \/ OpenPass(w) \/ ReadEndings(w) \/ Settle(w) \/ Start(w)
           \/ Announce(w) \/ FinishIfDone(w)

Control == Pause \/ Resume \/ Cancel \/ AnnounceCancel

Environment(t) == \/ \E n \in DOMAIN call[t] : \E r \in Reason : CallEnds(t, n, r)
                  \/ OptOut(t) \/ ClaimAges(t) \/ TimeComes(t)
                  \/ WindowOpens(t) \/ WindowCloses(t)

Next == \/ \E w \in Worker : Pass(w) \/ Dial(w) \/ Crash(w)
        \/ Control
        \/ \E t \in Target : Environment(t)

Spec == Init /\ [][Next]_vars

(***************************************************************************)
(* Fairness: the event loop runs every worker; time passes (a deferred     *)
(* instant comes, a window opens, a dead worker's claim ages).  A claim    *)
(* needs strong fairness: the project's limits refuse while other calls    *)
(* hold them, and free again and again as those end.  The operator, the    *)
(* suppression list, crashes and stalls are not fair.  Nor is the end of a *)
(* call: its row ends by its pipeline, a carrier's callback or the end     *)
(* API, and a process may die with the first while the second is lost.     *)
(***************************************************************************)
Fairness ==
  /\ \A w \in Worker : /\ WF_vars(Pass(w) \/ Dial(w))
                       /\ SF_vars(\E t \in Target : Claim(w, t))
  /\ \A t \in Target : /\ WF_vars(TimeComes(t))
                       /\ WF_vars(WindowOpens(t))
                       /\ WF_vars(ClaimAges(t) /\ ~Held(t))

FairSpec == Spec /\ Fairness

-----------------------------------------------------------------------------
(* Properties                                                              *)

AtCarrier(w) == pc[w] \in {"asking", "asked"}

\* Whichever of two claimants lands begin_placing is the one that dials: two workers
\* never stand between that commit and the record of one target's dial, although a
\* stalled worker may still be running on a claim the janitor gave to another.
OneAsker == \A v, w \in Worker :
  AtCarrier(v) /\ AtCarrier(w) /\ tgt[v] = tgt[w] => v = w

\* A phone that rang with no call row to show for it (its worker died, its write
\* failed, the carrier's answer was lost) is never rung again: the target can only
\* be `placing`, waiting for the janitor, or final.
UnknownNeverRedialled == \A t \in Target :
  /\ Len(call[t]) <= attempts[t] + 1
  /\ Len(call[t]) > attempts[t] => status[t] \in {"placing"} \cup Final

\* A final target is final: no late worker, janitor or settling pass reopens it.
FinalIsFinal == [][\A t \in Target : status[t] \in Final => status'[t] = status[t]]_vars

\* A completed campaign has no target left to dial or to settle.
CompletedIsClosed == campaign = "completed" => \A t \in Target : status[t] \in Final

\* A cancel that lands between a claim and its dial stops that dial: no target of a
\* cancelled campaign is on its way to the carrier.
CancelStopsDials == campaign = "cancelled" => \A t \in Target : status[t] # "dialling"

\* A phone rings only for a target that begin_placing moved while its campaign ran,
\* so a pause that lands while a worker is about to dial still stops that dial.
RingsOnlyOnceLicensed ==
  [][\A t \in Target :
       /\ status[t] # "placing" /\ status'[t] = "placing" => campaign = "running"
       /\ Len(call'[t]) > Len(call[t]) => status[t] \in {"placing"} \cup Final]_vars

\* Each campaign event is dispatched at most once, and campaign.cancelled instead of
\* campaign.completed, however many workers and operators reach the move.
EventsOnce == /\ \A e \in Event : announced[e] <= 1
              /\ announced["completed"] + announced["cancelled"] <= 1

\* A person is on at most one call of the campaign at a time.
OneCallAtATime == \A t \in Target :
  Cardinality({n \in DOMAIN call[t] : call[t][n] = "up"}) <= 1

\* max_attempts counts dials in all: a target is rung no oftener than the most
\* generous rule of the retry policy allows, and once without a rule.
DialsWithinPolicy == \A t \in Target :
  Len(call[t]) <= 1 \/ \E r \in Reason : Len(call[t]) <= MaxDials[r]

\* A settled target reports the ending of the last call placed to it.
SettledAsEnded == \A t \in Target :
  status[t] = "completed" => /\ Len(call[t]) = attempts[t]
                             /\ reason[t] = call[t][attempts[t]]

\* A cancelled campaign leaves no target waiting to be dialled.
CancelledIsClosed == campaign = "cancelled" => \A t \in Target : status[t] # "pending"

\* A campaign does not stay `running` for ever: every target it has is dialled,
\* settled, retried or given up, whichever worker dies on the way.  This is so as far
\* as the rows of its calls end: nothing but the call's own pipeline, its carrier's
\* callback or the end API ends one (orchestrator/call_session.py:588-619,
\* webhooks/telnyx_handlers.py:326), and where all are lost its target stays `calling`
\* and its campaign running.
RowsEnd      == \A t \in Target : []<>(attempts[t] \in DOMAIN call[t] => LastCall(t) # "up")
CampaignEnds == RowsEnd => []<>(campaign # "running")

\* An ended call is settled, also when its campaign was paused or cancelled meanwhile:
\* unless the operator pauses and resumes for ever, since a worker whose dials are
\* stopped one after the other by a pause stays in the pass that read no ending.
OperatorRests    == <>[](campaign = "paused") \/ <>[](campaign # "paused")
EndedCallSettles == OperatorRests => \A t \in Target : Ended(t) ~> ~Ended(t)

-----------------------------------------------------------------------------
(* Why they hold: the invariant every step keeps                           *)

\* A worker at the carrier got there through `placing`, and only the end of the
\* target takes that status from under it.
CarrierRow == \A w \in Worker : AtCarrier(w) => status[tgt[w]] \in {"placing"} \cup Final

\* Only a ring not on record yet keeps a target `placing`; it is the worker at the
\* carrier, past the answer, that still owes its record.
RingCounts ==
  /\ \A t \in Target : /\ Len(call[t]) \in {attempts[t], attempts[t] + 1}
                       /\ Len(call[t]) > attempts[t] => status[t] \in {"placing"} \cup Final
  /\ \A w \in Worker : /\ pc[w] = "asking" => Len(call[tgt[w]]) = attempts[tgt[w]]
                       /\ pc[w] = "asked" => Len(call[tgt[w]]) = attempts[tgt[w]] + 1

\* The row, the rings and the worker at the carrier agree, at every step.
CarrierInv == OneAsker /\ CarrierRow /\ RingCounts

\* A dispatch is owed to one move of the campaign's row, which cannot be made again, by
\* the one worker that made it: `started_at` and a final status are kept for good.
StartedOnce ==
  /\ started => campaign # "queued"
  /\ announced["started"] <= 1 /\ (~started => announced["started"] = 0)
  /\ \A v \in Worker : pc[v] = "announce_started" =>
       /\ started /\ announced["started"] = 0
       /\ \A w \in Worker : pc[w] = "announce_started" => w = v

CompletedOnce ==
  /\ announced["completed"] <= 1 /\ (campaign # "completed" => announced["completed"] = 0)
  /\ \A v \in Worker : pc[v] = "announce_completed" =>
       /\ campaign = "completed" /\ announced["completed"] = 0
       /\ \A w \in Worker : pc[w] = "announce_completed" => w = v

CancelledOnce ==
  /\ announced["cancelled"] <= 1 /\ (campaign # "cancelled" => announced["cancelled"] = 0)
  /\ cancelling => campaign = "cancelled" /\ announced["cancelled"] = 0

EventsInv == StartedOnce /\ CompletedOnce /\ CancelledOnce

\* A campaign with one worker, the one deployment in which no settling pass outlives the
\* endings it read: the row and the rings of a target stay as the worker last saw them.
OneWorker == \A v, w \in Worker : v = w

\* Only the worker itself takes `placing` from under its call to the carrier.
AskedWhilePlacing == \A w \in Worker : AtCarrier(w) => status[tgt[w]] = "placing"

\* The endings read are still the last ones when they are written.
PlanIsFresh == \A w \in Worker, t \in Target : plan[w][t] # Nothing =>
  /\ pc[w] \in {"settle", "settle_only"}
  /\ status[t] = "calling" /\ attempts[t] \in DOMAIN call[t]
  /\ plan[w][t] = [reason |-> LastCall(t), retry |-> Retries(LastCall(t), attempts[t])]

\* The dials in all that some rule of the policy allows.
Within(n) == n <= 1 \/ \E r \in Reason : n <= MaxDials[r]

Redialled == {"pending", "dialling", "placing"}

\* A target waits for a dial only if the policy has one left for it.
DialsLeft == \A t \in Target :
  /\ Within(Len(call[t]))
  /\ status[t] \in Redialled => Within(attempts[t] + 1)
  /\ status[t] = "calling" => attempts[t] >= 1

\* Only the last ring is ever up, and a target waits for a dial only once it is over.
UpIsLast == \A t \in Target : \A n \in DOMAIN call[t] : call[t][n] = "up" =>
  n = Len(call[t]) /\ (n = attempts[t] => status[t] \notin Redialled)

AloneInv == OneWorker /\ AskedWhilePlacing /\ PlanIsFresh /\ DialsLeft /\ UpIsLast /\ SettledAsEnded
=============================================================================
