------------------------------ MODULE CallEnding ------------------------------
(***************************************************************************)
(* How one call ends, and who starts its post-call processing, which sends *)
(* call.ended.  A call is ended by its pipeline finishing, by the carrier  *)
(* (Twilio's status callbacks, Telnyx's hangup webhook) and by the end     *)
(* API, on any replica, in any order.  They race through guarded UPDATEs   *)
(* of the call row (storage/repositories/call_repo.py); a sweep on every   *)
(* replica starts what a dead pipeline never did.                          *)
(*                                                                         *)
(* A step is one database transaction, one request between processes, or   *)
(* one event on the line.  What a handler read of the row before its write *)
(* is in saw and says.                                                     *)
(***************************************************************************)
EXTENDS Naturals, FiniteSets

CONSTANTS
  Carrier,     \* the transports a call can be on, of {"twilio", "telnyx", "webrtc"}
  Handler,     \* the requests that can be at work on the call at once
  Redacting,   \* whether post-call processing needs the raw conversation: a set of BOOLEAN
  MaxFault     \* bound: processes that die, and channels that cannot be opened

ASSUME CallEndingAssumption ==
  /\ Carrier \subseteq {"twilio", "telnyx", "webrtc"}
  /\ Redacting \subseteq BOOLEAN
  /\ MaxFault \in Nat

VARIABLES
  carrier,    \* the call's transport
  inbound,    \* calls.direction
  redacts,    \* the project redacts and the agent's calls are analysed
  status,     \* calls.status
  attached,   \* calls.media_attached_at is set
  deferral,   \* calls.post_call_deferred_at: "no", "fresh", or past the sweep's grace
  started,    \* calls.post_call_started_at is set
  line,       \* the phone line: "ringing", "up" or "over"
  outcome,    \* how the carrier says the call ended
  owed,       \* the carrier's callbacks on their way
  pipe,       \* the call's pipeline
  broke,      \* an error ended the pipeline
  listening,  \* the pipeline's control channel has a subscriber
  held,       \* the pipeline's process holds the conversation as it was said
  hand,       \* what each handler is about to do, and the status it means to write
  sweeping,   \* the replicas whose sweep is about to start this call's processing
  begun,      \* post-call runs begun, by the process they are in
  asking,     \* runs waiting for the conversation's holder to take them over
  working,    \* runs on their way to call.ended, by the process they are in
  sent,       \* how often call.ended was sent
  faults

call  == <<status, attached, deferral, started>>
phone == <<line, outcome, owed>>
media == <<pipe, broke, listening, held>>
hands == <<hand, sweeping>>
runs  == <<begun, asking, working, sent>>
kind  == <<carrier, inbound, redacts>>
vars  == <<kind, call, phone, media, hands, runs, faults>>

Live       == {"initiated", "ringing", "in_progress", "transferring"}
Unanswered == {"no_answer", "busy", "failed"}
Ended      == {"completed"} \cup Unanswered
Place      == {"holder", "away"}
PipeStage  == {"none", "building", "opened", "running", "closing", "gone"}
Idle       == [at |-> "idle", says |-> "none"]
Busy       == [at : {"callback", "ending", "start"}, says : Live \cup Ended]

KindTypes  == carrier \in Carrier /\ inbound \in BOOLEAN /\ redacts \in Redacting
RowTypes   == /\ status \in Live \cup Ended /\ attached \in BOOLEAN
              /\ deferral \in {"no", "fresh", "overdue"} /\ started \in BOOLEAN
PhoneTypes == /\ line \in {"ringing", "up", "over"} /\ outcome \in Ended \cup {"none"}
              /\ owed \subseteq Live \cup Ended
MediaTypes == /\ pipe \in PipeStage
              /\ broke \in BOOLEAN /\ listening \in BOOLEAN /\ held \in BOOLEAN
HandTypes  == hand \in [Handler -> Busy \cup {Idle}] /\ sweeping \subseteq Place
RunTypes   == /\ begun \in [Place -> Nat] /\ working \in [Place -> Nat]
              /\ asking \in Nat /\ sent \in Nat /\ faults \in Nat

TypeOK == KindTypes /\ RowTypes /\ PhoneTypes /\ MediaTypes /\ HandTypes /\ RunTypes

Init ==
  /\ carrier \in Carrier /\ redacts \in Redacting
  /\ inbound \in (IF carrier = "webrtc" THEN {TRUE} ELSE BOOLEAN)
  /\ status = "initiated" /\ attached = FALSE /\ deferral = "no" /\ started = FALSE
  /\ line = (IF carrier = "webrtc" THEN "up" ELSE "ringing")
  /\ outcome = "none"
  /\ owed = (IF carrier = "twilio" THEN {"ringing"} ELSE {})
  /\ pipe = "none" /\ broke = FALSE /\ listening = FALSE /\ held = FALSE
  /\ hand = [h \in Handler |-> Idle] /\ sweeping = {}
  /\ begun = [p \in Place |-> 0] /\ asking = 0
  /\ working = [p \in Place |-> 0] /\ sent = 0
  /\ faults = 0

-----------------------------------------------------------------------------
(* The guarded UPDATEs of the call row                                     *)

\* Mutant: an ended call made live again.
ProgressAnyway(s) == s

\* update_call_status with a status that is no ending: an ended call is never reopened.
Progress(s) == IF status \in Ended THEN status ELSE s

\* Mutant: the claim forgets that a run was started already.
ClaimAgain(p, left) ==
  LET claimed == left => deferral # "no"
  IN /\ started' = (started \/ claimed)
     /\ begun' = IF claimed THEN [begun EXCEPT ![p] = @ + 1] ELSE begun

\* Mutant: a call something else ended is nobody's to process.
ClaimIfEnder(p, left) ==
  LET claimed == ~started /\ ~left
  IN /\ started' = (started \/ claimed)
     /\ begun' = IF claimed THEN [begun EXCEPT ![p] = @ + 1] ELSE begun

\* claim_post_call, and the run it starts: once per call; left, only if an ending left
\* the call to its pipeline.
ClaimPostCall(p, left) ==
  LET claimed == ~started /\ (left => deferral # "no")
  IN /\ started' = (started \/ claimed)
     /\ begun' = IF claimed THEN [begun EXCEPT ![p] = @ + 1] ELSE begun

\* finalize_call: end the call unless it is over, and start post-call processing if
\* this ended it, or if whoever did deferred it; one transaction.
Finalize(p, s) ==
  /\ status' = IF status \in Ended THEN status ELSE s
  /\ ClaimPostCall(p, status \in Ended)
  /\ UNCHANGED <<attached, deferral, asking, working, sent>>

\* Mutant: every ending is processed, the unanswered ones too.
ProcessesAll(s) == s \in Ended

\* Twilio's terminal callback and the end API process a completed call only.
Processes(s) == s = "completed"

\* Mutant: a call whose pipeline runs is processed at once.
NeverLeft == FALSE

\* start_or_defer_post_call: whether a pipeline runs the call, and is left its processing.
LeftToPipeline == attached

\* Mutant: the ending is not left to the pipeline either.
EndOnly(s) == status' = s /\ UNCHANGED <<attached, deferral, started>>

\* mark_call_ended, and defer_post_call in its transaction.
EndAndDefer(s) ==
  /\ status' = s
  /\ deferral' = IF Processes(s) /\ LeftToPipeline /\ deferral = "no" /\ ~started
                   THEN "fresh" ELSE deferral
  /\ UNCHANGED <<attached, started>>

\* VALID_TRANSITIONS, of the statuses a call is seen in: `handed_off` is set and left
\* in one transaction, and nothing sets `voicemail`.
ValidFrom(s) ==
  CASE s = "initiated"    -> {"ringing", "in_progress"} \cup Unanswered
    [] s = "ringing"      -> {"in_progress", "completed"} \cup Unanswered
    [] s = "in_progress"  -> {"transferring", "completed", "failed"}
    [] s = "transferring" -> {"in_progress", "completed", "failed"}
    [] OTHER              -> {}

-----------------------------------------------------------------------------
(* The line                                                                *)

Answers ==
  /\ line = "ringing" /\ line' = "up"
  /\ owed' = IF carrier = "twilio" THEN owed \cup {"in_progress"} ELSE owed
  /\ UNCHANGED <<kind, call, outcome, media, hands, runs, faults>>

\* Either side hangs up, the end API's request to the carrier included.
HangsUp ==
  /\ line = "up" /\ line' = "over"
  /\ outcome' = "completed"
  /\ owed' = IF carrier = "webrtc" THEN owed ELSE owed \cup {"completed"}
  /\ UNCHANGED <<kind, call, media, hands, runs, faults>>

\* How a call nobody answered reads.  A Telnyx hangup is an unanswered dial only on a
\* call we placed and for a known cause, and reads as completed otherwise.
DialOutcomes ==
  CASE carrier = "twilio"              -> Unanswered
    [] carrier = "telnyx" /\ inbound   -> {"completed"}
    [] OTHER                           -> Unanswered \cup {"completed"}

RingsOut ==
  /\ line = "ringing" /\ line' = "over"
  /\ outcome' \in DialOutcomes
  /\ owed' = owed \cup {outcome'}
  /\ UNCHANGED <<kind, call, media, hands, runs, faults>>

\* A callback never arrives.
Lost(c) ==
  /\ c \in owed /\ owed' = owed \ {c}
  /\ UNCHANGED <<kind, call, line, outcome, media, hands, runs, faults>>

-----------------------------------------------------------------------------
(* The pipeline                                                            *)

\* attach_media: one stream per call, never for an ended call.  A browser's call has
\* no media stream: its pipeline is built by the request that opens it.
Attach ==
  /\ pipe = "none" /\ pipe' = "building"
  /\ line # "ringing" /\ outcome \in {"none", "completed"}
  /\ IF carrier = "webrtc" THEN line = "up" /\ UNCHANGED attached
     ELSE ~attached /\ status \notin Ended /\ attached' = TRUE
  /\ UNCHANGED <<kind, status, deferral, started, phone, broke, listening, held, hands,
                 runs, faults>>

\* No agent config, or an error before the pipeline is built: the stream is dropped and
\* nothing ends the call.
StreamDropped ==
  /\ pipe = "building" /\ pipe' = "gone"
  /\ UNCHANGED <<kind, call, phone, broke, listening, held, hands, runs, faults>>

\* The pipeline cannot be built: fail_unstarted_call, which finalizes.
BuildFails ==
  /\ pipe = "building" /\ pipe' = "closing" /\ broke' = TRUE
  /\ UNCHANGED <<kind, call, phone, listening, held, hands, runs, faults>>

\* The control channel opens before the call reads as live; without Redis the call
\* goes on without one.
Opens ==
  /\ pipe = "building" /\ pipe' = "opened"
  /\ \/ listening' = TRUE /\ UNCHANGED faults
     \/ listening' = FALSE /\ faults < MaxFault /\ faults' = faults + 1
  /\ UNCHANGED <<kind, call, phone, broke, held, hands, runs>>

\* _update_call_status(in_progress), best-effort, never on an ended call.
Runs ==
  /\ pipe = "opened" /\ pipe' = "running"
  /\ status' \in {status, Progress("in_progress")}
  /\ UNCHANGED <<kind, attached, deferral, started, phone, broke, listening, held, hands,
                 runs, faults>>

\* The conversation is held from its first line.
Said ==
  /\ pipe = "running" /\ held' = TRUE
  /\ UNCHANGED <<kind, call, phone, pipe, broke, listening, hands, runs, faults>>

\* The caller left, the agent hung up, the call's time is up, or an error: the last
\* lines are stored and the channel closes.
Stops ==
  /\ pipe = "running" /\ pipe' = "closing"
  /\ broke' \in BOOLEAN /\ listening' = FALSE
  /\ UNCHANGED <<kind, call, phone, held, hands, runs, faults>>

\* _finalize_call, or fail_unstarted_call's.
PipelineFinalizes ==
  /\ pipe = "closing" /\ pipe' = "gone"
  /\ Finalize("holder", IF broke THEN "failed" ELSE "completed")
  /\ UNCHANGED <<kind, phone, broke, listening, held, hands, faults>>

\* Its database transaction fails: the exception is logged.
FinalizeFails ==
  /\ pipe = "closing" /\ pipe' = "gone"
  /\ faults < MaxFault /\ faults' = faults + 1
  /\ UNCHANGED <<kind, call, phone, broke, listening, held, hands, runs>>

\* A transfer, by the agent or the API, of a call that reads as in progress; and one that
\* failed, back to the agent.
Transfers ==
  /\ \/ status = "in_progress" /\ status' = "transferring"
     \/ status = "transferring" /\ status' = "in_progress"
  /\ UNCHANGED <<kind, attached, deferral, started, phone, media, hands, runs, faults>>

\* KEEP_AFTER_CALL_SECONDS after the pipeline stopped.
Forgets ==
  /\ pipe = "gone" /\ held /\ held' = FALSE
  /\ UNCHANGED <<kind, call, phone, pipe, broke, listening, hands, runs, faults>>

-----------------------------------------------------------------------------
(* Requests, on any replica                                                *)

Takes(h, stage, s) == hand[h] = Idle /\ hand' = [hand EXCEPT ![h] = [at |-> stage, says |-> s]]
Done(h, stage)     == hand[h].at = stage /\ hand' = [hand EXCEPT ![h] = Idle]

\* A callback arrives, and may again: Twilio's is dropped unless the row it reads may
\* move there; Telnyx's hangup unless no pipeline is on the row yet.
Arrives(h, c) ==
  /\ c \in owed /\ owed' \in {owed, owed \ {c}}
  /\ \/ carrier = "twilio" /\ c \in ValidFrom(status)
     \/ carrier = "telnyx" /\ status \in {"initiated", "ringing"}
  /\ Takes(h, "callback", c)
  /\ UNCHANGED <<kind, call, line, outcome, media, sweeping, runs, faults>>

\* The end API, on a call that may be completed.
EndApi(h) ==
  /\ "completed" \in ValidFrom(status)
  /\ Takes(h, "ending", "completed")
  /\ UNCHANGED <<kind, call, phone, media, sweeping, runs, faults>>

\* A Twilio callback that is no ending: update_call_status.
WritesProgress(h) ==
  /\ carrier = "twilio" /\ hand[h].says \in Live
  /\ Done(h, "callback")
  /\ status' = Progress(hand[h].says)
  /\ UNCHANGED <<kind, attached, deferral, started, phone, media, sweeping, runs, faults>>

\* Twilio's terminal callback, or the end API.  Post-call processing of a completed call
\* no pipeline ran is started in a second transaction.
WritesEnding(h) ==
  LET s == hand[h].says
      starts == status \notin Ended /\ Processes(s) /\ ~LeftToPipeline
  IN /\ s \in Ended
     /\ hand[h].at = "ending" \/ (carrier = "twilio" /\ hand[h].at = "callback")
     /\ hand' = [hand EXCEPT ![h] = IF starts THEN [@ EXCEPT !.at = "start"] ELSE Idle]
     /\ IF status \in Ended THEN UNCHANGED call ELSE EndAndDefer(s)
     /\ UNCHANGED <<kind, phone, media, sweeping, runs, faults>>

\* start_post_call, after the commit of the ending.
StartsPostCall(h, p) ==
  /\ Done(h, "start")
  /\ ClaimPostCall(p, FALSE)
  /\ UNCHANGED <<kind, status, attached, deferral, phone, media, sweeping, asking, working,
                 sent, faults>>

\* Telnyx's hangup: an unanswered dial gets its status whatever the row says by now; any
\* other call is finalized.
WritesHangup(h, p) ==
  /\ carrier = "telnyx"
  /\ Done(h, "callback")
  /\ IF hand[h].says = "completed" THEN Finalize(p, "completed")
     ELSE status' = hand[h].says /\ UNCHANGED <<attached, deferral, started, runs>>
  /\ UNCHANGED <<kind, phone, media, sweeping, faults>>

\* Telnyx could not be asked to answer: the call fails, though the answer may have got
\* through and its stream, its pipeline and its end may have come first.
AnswerFails(p) ==
  /\ carrier = "telnyx" /\ inbound
  /\ faults < MaxFault /\ faults' = faults + 1
  /\ Finalize(p, "failed")
  /\ UNCHANGED <<kind, phone, media, hands>>

\* sweep_deferred: a call deferred longer than the grace ago whose pipeline does not
\* listen; then the claim.
SweepSees(p) ==
  /\ deferral = "overdue" /\ ~started /\ ~listening
  /\ p \notin sweeping /\ sweeping' = sweeping \cup {p}
  /\ UNCHANGED <<kind, call, phone, media, hand, runs, faults>>

SweepStarts(p) ==
  /\ p \in sweeping /\ sweeping' = sweeping \ {p}
  /\ ClaimPostCall(p, TRUE)
  /\ UNCHANGED <<kind, status, attached, deferral, phone, media, hand, asking, working,
                 sent, faults>>

\* SWEEP_GRACE_SECONDS pass.  A pipeline builds, opens and finalizes well within them.
DeferralAges ==
  /\ deferral = "fresh" /\ deferral' = "overdue"
  /\ pipe \notin {"building", "opened", "closing"}
  /\ UNCHANGED <<kind, status, attached, started, phone, media, hands, runs, faults>>

-----------------------------------------------------------------------------
(* Post-call processing                                                    *)

\* A run goes on where it is: it needs no conversation, or has it, or reaches no holder.
GoesOn(p) ==
  /\ begun[p] > 0 /\ begun' = [begun EXCEPT ![p] = @ - 1]
  /\ working' = [working EXCEPT ![p] = @ + 1]
  /\ UNCHANGED <<kind, call, phone, media, hands, asking, sent, faults>>

\* ask_holder: the holder starts a run of its own before it answers.
AsksHolder ==
  /\ begun["away"] > 0 /\ begun' = [begun EXCEPT !["away"] = @ - 1]
  /\ redacts /\ held
  /\ working' = [working EXCEPT !["holder"] = @ + 1]
  /\ asking' = asking + 1
  /\ UNCHANGED <<kind, call, phone, media, hands, sent, faults>>

\* The answer comes in time, or it does not and the run goes on alone.
HolderAnswers ==
  /\ asking > 0 /\ asking' = asking - 1
  /\ \/ UNCHANGED working
     \/ working' = [working EXCEPT !["away"] = @ + 1]
  /\ UNCHANGED <<kind, call, phone, media, hands, begun, sent, faults>>

Sends(p) ==
  /\ working[p] > 0 /\ working' = [working EXCEPT ![p] = @ - 1]
  /\ sent' = sent + 1
  /\ UNCHANGED <<kind, call, phone, media, hands, begun, asking, faults>>

-----------------------------------------------------------------------------
(* Processes die                                                           *)

\* The pipeline's process, with its runs and the conversation.
HolderDies ==
  /\ faults < MaxFault /\ faults' = faults + 1
  /\ pipe # "none" /\ pipe' = "gone"
  /\ listening' = FALSE /\ held' = FALSE
  /\ sweeping' = sweeping \ {"holder"}
  /\ begun' = [begun EXCEPT !["holder"] = 0]
  /\ working' = [working EXCEPT !["holder"] = 0]
  /\ UNCHANGED <<kind, call, phone, broke, hand, asking, sent>>

\* Another replica, with its requests and runs.
ReplicaDies ==
  /\ faults < MaxFault /\ faults' = faults + 1
  /\ hand' = [h \in Handler |-> Idle] /\ sweeping' = sweeping \ {"away"}
  /\ begun' = [begun EXCEPT !["away"] = 0] /\ asking' = 0
  /\ working' = [working EXCEPT !["away"] = 0]
  /\ UNCHANGED <<kind, call, phone, media, sent>>

Phone == Answers \/ HangsUp \/ RingsOut \/ \E c \in owed : Lost(c)

Build    == StreamDropped \/ BuildFails \/ Opens
Pipeline == \/ Attach \/ Build \/ Runs \/ Said \/ Stops \/ PipelineFinalizes \/ FinalizeFails
            \/ Transfers \/ Forgets

Request(h) == \/ \E c \in owed : Arrives(h, c)
              \/ EndApi(h) \/ WritesProgress(h) \/ WritesEnding(h)
              \/ \E p \in Place : StartsPostCall(h, p) \/ WritesHangup(h, p)

Sweep(p) == SweepSees(p) \/ SweepStarts(p)

Proceeds == AsksHolder \/ \E p \in Place : GoesOn(p)

Next == \/ Phone \/ Pipeline \/ DeferralAges
        \/ \E h \in Handler : Request(h)
        \/ \E p \in Place : AnswerFails(p) \/ Sweep(p) \/ Sends(p)
        \/ Proceeds \/ HolderAnswers
        \/ HolderDies \/ ReplicaDies

Spec == Init /\ [][Next]_vars

\* What the event loops and timers of the processes see to.  Nothing is assumed of the
\* line, of the carrier's callbacks or of the API's clients.
Fairness ==
  /\ WF_vars(Build) /\ WF_vars(Runs) /\ WF_vars(Stops) /\ WF_vars(PipelineFinalizes)
  /\ WF_vars(DeferralAges) /\ WF_vars(Proceeds) /\ WF_vars(HolderAnswers)
  /\ \A h \in Handler : WF_vars(\E p \in Place : StartsPostCall(h, p))
  /\ \A p \in Place : WF_vars(SweepSees(p)) /\ WF_vars(SweepStarts(p)) /\ WF_vars(Sends(p))

FairSpec == Spec /\ Fairness

-----------------------------------------------------------------------------
(* Properties                                                              *)

\* An ended call is never reopened and never ends a second way: a pipeline starting, a
\* transfer failing back, a stale progress callback and every second ending come too
\* late (call_repo.update_call_status, mark_call_ended, telnyx_handlers._not_answered).
EndingStands == [][(status \in Ended) => (status' = status)]_vars

\* Post-call processing is of an ended call, and only a completed one is ever left to
\* its pipeline (call_repo.claim_post_call, defer_post_call).
PostCallOfEnded == (started => status \in Ended) /\ (deferral # "no" => status = "completed")

RunsIn(f) == f["holder"] + f["away"]

\* However a call's endings race and whatever dies, at most one post-call run is begun,
\* so call.ended is sent at most once; for a project whose runs need no conversation.
OneRun == ~redacts => RunsIn(begun) + RunsIn(working) + sent <= 1

\* call.ended is sent once (call_repo.claim_post_call), a redacting project's too.
SentOnce == sent <= 1

StillTalks == pipe \in {"building", "opened", "running"}

\* A call's post-call processing starts when its pipeline's last lines are stored, if it
\* has a pipeline (start_or_defer_post_call); the sweep may run ahead only of one
\* whose control channel it cannot hear.
LastLinesFirst == started /\ StillTalks => pipe = "running" /\ ~listening

\* The same, of a Twilio call.
LastLinesFirstTwilio == carrier = "twilio" => LastLinesFirst

\* A call nobody answered gets no post-call processing, and so no comprehensive
\* call.ended (twilio_handlers.status_callback, telnyx_handlers._not_answered,
\* finalize_call on a call ended without deferring).
UnansweredIsSilent == status \in {"no_answer", "busy"} => ~started

\* A call left to its pipeline is processed, by the pipeline or by a sweep if the
\* pipeline's process died or could not finish.
DeferredIsProcessed == deferral # "no" ~> started

\* A call whose pipeline talked gets its call.ended, whatever else ended it, unless
\* something failed.
TalkedIsHeard == pipe = "running" ~> (sent > 0 \/ faults > 0)

-----------------------------------------------------------------------------
(* What makes the invariants inductive                                     *)

\* A request about to start post-call processing ended the call itself, as completed.
StartsOfCompleted == \A h \in Handler : hand[h].at = "start" => status = "completed"

\* On Telnyx, an unanswered dial's hangup can only be written to a call nothing else
\* ends: no pipeline ran it, the end API refuses it, and no inbound call reads so.
UnansweredDial ==
  carrier = "telnyx" =>
    /\ outcome # "none" => line = "over"
    /\ line = "ringing" => /\ pipe = "none"
                           /\ status = "initiated" \/ (inbound /\ status = "failed")
    /\ \A c \in owed : c = outcome
    /\ \A h \in Handler : /\ hand[h].at = "callback" => hand[h].says = outcome
                          /\ hand[h].at = "ending" => line # "ringing" /\ outcome \notin Unanswered
    /\ outcome \in Unanswered => /\ ~inbound /\ pipe = "none"
                                 /\ status \in {"initiated", outcome} /\ ~started

\* The post-call runs counted: none before the claim; no run asks a holder in vain.
RunsCounted ==
  /\ ~started => RunsIn(begun) = 0 /\ RunsIn(working) = 0 /\ asking = 0 /\ sent = 0
  /\ ~redacts => asking = 0

\* On Twilio a call is attached from its pipeline's first step, no request starts the
\* processing of an attached one, and a sweep only of one it could not hear.
TwilioMedia ==
  carrier = "twilio" =>
    /\ attached <=> pipe # "none"
    /\ listening => pipe \in {"opened", "running"}
    /\ \A h \in Handler : hand[h].at = "start" => ~attached
    /\ deferral # "no" => attached
    /\ deferral = "overdue" => pipe \notin {"building", "opened"}
    /\ sweeping # {} => deferral = "overdue" /\ ~listening

CallInv == /\ TypeOK /\ PostCallOfEnded /\ StartsOfCompleted /\ UnansweredDial
           /\ UnansweredIsSilent /\ RunsCounted /\ OneRun /\ TwilioMedia /\ LastLinesFirstTwilio
=============================================================================
