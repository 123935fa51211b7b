---------------------------- MODULE TelnyxTransfer ----------------------------
(***************************************************************************)
(* Transfers of one live Telnyx call to an operator                        *)
(* (services/call_control.py, services/telnyx_transfer.py).  A request     *)
(* parks an intent in Redis and takes the call away from its agent; each   *)
(* webhook that follows takes the transfer a step on; and the end of the   *)
(* call's media stream, which otherwise hangs the caller up, must leave    *)
(* alone one who is being transferred (webhooks/telnyx_media_stream.py).   *)
(*                                                                         *)
(* A step is one command to Telnyx, one read or write of the intent, or    *)
(* one of the call's row.  What Telnyx, the caller and the operators do is *)
(* the world's.                                                            *)
(***************************************************************************)
EXTENDS Naturals, FiniteSets, Bags

CONSTANTS
  Request,   \* transfers asked for, by the model's tool or the API
  Kind,      \* what a transfer may ask for
  Hook,      \* bound: webhooks handled at once
  Operator,  \* bound: legs dialled
  Caller,    \* the call's own leg
  None,
  MaxFault   \* bound: faults

Step   == {"operator", "briefing", "bridged"}
Leg    == Operator \cup {Caller}
Intent == [of : Request, operator : Operator \cup {None}]
Actor  == Request \cup Hook
Faults == {"refused", "lost answer", "raised", "again", "expired"}

ASSUME TelnyxTransferAssumption ==
  /\ Kind \subseteq [warm : BOOLEAN, message : BOOLEAN, fallback : BOOLEAN]
  /\ Request \cap Hook = {} /\ Caller \notin Operator
  /\ None \notin Request \cup Leg \cup Intent \cup Step
  /\ MaxFault \in Nat

VARIABLES
  kind,     \* what each request asks for
  job,      \* what each request and each webhook's handler does next
  late,     \* the requests whose write found the call ended
  status,   \* calls.status
  writer,   \* the request whose transaction has the call's row
  intent,   \* the intent in Redis: whose it is, and the operator's leg once known
  stream,   \* the call's media stream, and what its end does
  leg,      \* where each leg is
  step,     \* the client_state on each operator's leg
  events,   \* the webhooks Telnyx will send: a bag
  faults,   \* the faults so far: a bag
  givenUp   \* the legs whose hangup was refused, or whose briefing was not built: a history

requests == <<kind, job, late>>
stored   == <<status, writer, intent>>
telnyx   == <<leg, step, events>>
vars     == <<requests, stored, stream, telnyx, faults, givenUp>>

Event  == [type : {"said"}, leg : Leg, step : {"message", "fallback", "briefing"}]
            \cup [type : {"answered", "hangup"}, leg : Leg, step : Step \cup {None}]
Do     == {"idle", "writing", "parking", "stopping", "telling", "dialling", "linking",
           "committing", "done", "dropping", "clearing", "releasing", "failed",
           "briefing", "bridging", "freeing", "apologising"}

\* A job knows whose transfer it is about, or which operator's leg, where it needs to.
Job ==
  {j \in [do : Do, leg : Operator \cup {None}, of : Request \cup {None}] :
     /\ j.do \in {"writing", "parking", "stopping", "telling", "dialling", "linking"} => j.of # None
     /\ j.do \in {"linking", "briefing", "bridging", "freeing"} => j.leg # None}

Rests == [do |-> "idle", leg |-> None, of |-> None]

FaultsOK == IsABag(faults) /\ BagToSet(faults) \subseteq Faults

TypeOK ==
  /\ kind \in [Request -> Kind] /\ job \in [Actor -> Job] /\ late \subseteq Request
  /\ status \in {"in_progress", "transferring", "ended"}
  /\ writer \in Request \cup {None} /\ intent \in Intent \cup {None}
  /\ stream \in {"up", "ended", "finalized", "closing", "over"}
  /\ leg \in [Leg -> {"none", "ringing", "up", "bridged", "gone"}]
  /\ step \in [Operator -> Step \cup {None}]
  /\ IsABag(events) /\ BagToSet(events) \subseteq Event
  /\ FaultsOK
  /\ givenUp \subseteq Leg

Init ==
  /\ kind \in [Request -> Kind] /\ job = [a \in Actor |-> Rests] /\ late = {}
  /\ status = "in_progress" /\ writer = None /\ intent = None
  /\ stream = "up"
  /\ leg = [l \in Leg |-> IF l = Caller THEN "up" ELSE "none"]
  /\ step = [l \in Operator |-> None]
  /\ events = EmptyBag
  /\ faults = EmptyBag /\ givenUp = {}

-----------------------------------------------------------------------------
(* Commands to Telnyx                                                      *)

Fault(f) ==
  /\ BagCardinality(faults) < MaxFault
  /\ faults' = faults (+) SetToBag({f})

Happened == BagToSet(faults)

Up(l)     == leg[l] \in {"up", "bridged"}
OnLine(l) == leg[l] \in {"ringing", "up", "bridged"}

\* A command to legs ls is done, is refused, or is done and its answer lost.
Commanded(ls, how) ==
  \/ how = "done" /\ (\A l \in ls : Up(l)) /\ faults' = faults
  \/ how = "lost" /\ (\A l \in ls : Up(l)) /\ Fault("lost answer")
  \/ how = "refused" /\ IF \A l \in ls : Up(l) THEN Fault("refused") ELSE faults' = faults

How == {"done", "lost", "refused"}

Finished == {"idle", "done", "failed"}

\* Actor a goes on to do; one that is finished keeps nothing.
Goes(a, do) ==
  job' = [job EXCEPT ![a] = IF do \in Finished THEN [Rests EXCEPT !.do = do]
                            ELSE [@ EXCEPT !.do = do]]

\* What a handler does after a command: go on, or take the failure's path.
Follows(a, how, on, failed) == Goes(a, IF how = "done" THEN on ELSE failed)

EventOf(type, l, s) == SetToBag({[type |-> type, leg |-> l, step |-> s]})

\* speak: its end is reported with the step it was asked with.
Speak(l, s, how) ==
  events' = IF how = "refused" THEN events ELSE events (+) EventOf("said", l, s)

\* Two legs that are bridged end together.
End(l) ==
  LET ls == IF leg[l] = "bridged" THEN {m \in Leg : leg[m] = "bridged"} ELSE {l}
  IN /\ leg' = [m \in Leg |-> IF m \in ls THEN "gone" ELSE leg[m]]
     /\ events' = events (+) SetToBag({[type |-> "hangup", leg |-> m,
                     step |-> IF m = Caller THEN None ELSE step[m]] : m \in ls})

\* _hang_up: a leg that has ended counts as hung up, and a refusal is logged: nobody
\* tries again.
HangUp(l) ==
  \/ OnLine(l) /\ End(l) /\ UNCHANGED <<faults, givenUp>>
  \/ OnLine(l) /\ Fault("refused") /\ givenUp' = givenUp \cup {l} /\ UNCHANGED <<leg, events>>
  \/ ~OnLine(l) /\ UNCHANGED <<leg, events, faults, givenUp>>

\* The agent's stream ends with the caller's leg.
StreamFollows ==
  stream' = IF stream = "up" /\ leg'[Caller] = "gone" THEN "ended" ELSE stream

-----------------------------------------------------------------------------
(* A request                                                               *)

\* transfer_call's test of the status it read; the wait for the redactor follows.
Check(r) ==
  /\ job[r].do = "idle" /\ status = "in_progress"
  /\ job' = [job EXCEPT ![r] = [do |-> "writing", leg |-> None, of |-> r]]
  /\ UNCHANGED <<kind, late, givenUp, stored, stream, telnyx, faults>>

\* Mutant: the status is committed at once.
NoHold(r) == None

\* The request's transaction has the row until it ends.
Hold(r) == r

\* update_call_status: an ended call keeps its status, and the transfer goes on.
Write(r) ==
  /\ job[r].do = "writing" /\ writer = None
  /\ IF status = "ended"
     THEN late' = late \cup {r} /\ UNCHANGED <<status, writer>>
     ELSE late' = late /\ status' = "transferring" /\ writer' = Hold(r)
  /\ Goes(r, "parking")
  /\ UNCHANGED <<kind, givenUp, intent, stream, telnyx, faults>>

\* store_transfer_intent.
ParkIntent(r) ==
  /\ job[r].do = "parking"
  /\ intent' = [of |-> r, operator |-> None]
  /\ Goes(r, "stopping")
  /\ UNCHANGED <<kind, late, givenUp, status, writer, stream, telnyx, faults>>

\* start: the agent's stream is stopped, which Telnyx may refuse where it has ended.
StopStream(r) ==
  /\ job[r].do = "stopping"
  /\ \E how \in How :
       /\ IF how = "refused" /\ stream # "up" THEN faults' = faults
          ELSE Commanded({Caller}, how)
       /\ stream' = IF how # "refused" /\ stream = "up" THEN "ended" ELSE stream
       /\ Follows(r, how, IF kind[r].message THEN "telling" ELSE "dialling", "clearing")
  /\ UNCHANGED <<kind, late, givenUp, stored, telnyx>>

\* The transfer message, whose end goes on.
Tell(r) ==
  /\ job[r].do = "telling"
  /\ \E how \in How :
       /\ Commanded({Caller}, how) /\ Speak(Caller, "message", how)
       /\ Follows(r, how, "committing", "dropping")
  /\ UNCHANGED <<kind, late, givenUp, stored, stream, leg, step>>

\* clear_transfer_intent, of a transfer that did not start.
Clear(r) ==
  /\ job[r].do = "clearing"
  /\ intent' = None
  /\ Goes(r, "releasing")
  /\ UNCHANGED <<kind, late, givenUp, status, writer, stream, telnyx, faults>>

LetGo(r) == writer' = IF writer = r THEN None ELSE writer

\* The transaction ends: the transfer is under way.
Commit(r) ==
  /\ job[r].do = "committing"
  /\ LetGo(r)
  /\ Goes(r, "done")
  /\ UNCHANGED <<kind, late, givenUp, status, intent, stream, telnyx, faults>>

\* The transaction ends: the call is in progress again, unless it has ended.
Release(r) ==
  /\ job[r].do = "releasing" /\ writer \in {r, None}
  /\ status' = IF status = "ended" THEN "ended" ELSE "in_progress"
  /\ LetGo(r)
  /\ Goes(r, "failed")
  /\ UNCHANGED <<kind, late, givenUp, intent, stream, telnyx, faults>>

-----------------------------------------------------------------------------
(* Ringing the operator: by the request, or by the handler of its          *)
(* message's end.                                                          *)

Linked(a) == IF a \in Request THEN "committing" ELSE "idle"

\* Mutant: a dial that raises is tried again.
DialAgain == "dialling"

\* What a dial that raises leads to.
Undialled == "dropping"

\* Ringback to the caller, then the operator's leg.  A dial whose answer is lost rings.
Dial(a, l) ==
  /\ job[a].do = "dialling" /\ leg[l] = "none"
  /\ \E how \in How :
       /\ IF how = "refused" /\ ~Up(Caller) THEN faults' = faults
          ELSE Commanded({}, how)
       /\ IF how = "refused" THEN UNCHANGED <<leg, step>>
          ELSE /\ leg' = [leg EXCEPT ![l] = "ringing"]
               /\ step' = [step EXCEPT ![l] = "operator"]
       /\ job' = [job EXCEPT ![a].do = IF how = "done" THEN "linking" ELSE Undialled,
                             ![a].leg = IF how = "done" THEN l ELSE None]
  /\ UNCHANGED <<kind, late, givenUp, stored, stream, events>>

\* The operator's leg is added to the intent as it was read.
Link(a) ==
  /\ job[a].do = "linking"
  /\ intent' = [of |-> job[a].of, operator |-> job[a].leg]
  /\ Goes(a, Linked(a))
  /\ UNCHANGED <<kind, late, givenUp, status, writer, stream, telnyx, faults>>

\* The caller is hung up: nobody else would.
Drop(a) ==
  /\ job[a].do = "dropping"
  /\ HangUp(Caller) /\ StreamFollows
  /\ Goes(a, IF a \in Request THEN "clearing" ELSE "idle")
  /\ UNCHANGED <<kind, late, stored, step>>

-----------------------------------------------------------------------------
(* Webhooks                                                                *)

\* Telnyx sends a webhook again when it waits too long for its answer.
Takes(h, e) ==
  /\ job[h].do = "idle" /\ BagIn(e, events)
  /\ \/ events' = events (-) SetToBag({e}) /\ faults' = faults
     \/ events' = events /\ Fault("again")

Turns(h, do, l, of) == job' = [job EXCEPT ![h] = [do |-> do, leg |-> l, of |-> of]]

Parked == IF intent = None THEN None ELSE intent.of
HasLeg == intent # None /\ intent.operator # None

\* _on_caller_event: the caller is gone, and so must the operator be.
CallerGone(h, e) ==
  /\ e.leg = Caller /\ e.type = "hangup" /\ Takes(h, e)
  /\ IF HasLeg THEN Turns(h, "freeing", intent.operator, None) ELSE job' = job
  /\ UNCHANGED <<kind, late, givenUp, stored, stream, leg, step>>

\* _on_caller_event: a message has been said, and its intent may have expired.
CallerTold(h, e) ==
  /\ e.leg = Caller /\ e.type = "said" /\ Takes(h, e)
  /\ Turns(h, IF e.step = "message" /\ intent # None THEN "dialling" ELSE "dropping",
           None, Parked)
  /\ UNCHANGED <<kind, late, givenUp, stored, stream, leg, step>>

\* _on_operator_event, _answered: whose briefing it is, is read now.
Answered(h, e) ==
  /\ e.leg # Caller /\ e.type = "answered" /\ e.step = "operator" /\ Takes(h, e)
  /\ Turns(h, IF intent # None /\ kind[intent.of].warm THEN "briefing" ELSE "bridging",
           e.leg, None)
  /\ UNCHANGED <<kind, late, givenUp, stored, stream, leg, step>>

Briefed(h, e) ==
  /\ e.leg # Caller /\ e.type = "said" /\ Takes(h, e)
  /\ Turns(h, "bridging", e.leg, None)
  /\ UNCHANGED <<kind, late, givenUp, stored, stream, leg, step>>

\* _not_connected: a fallback message is for one who never answered.
OperatorGone(h, e) ==
  /\ e.leg # Caller /\ e.type = "hangup" /\ Takes(h, e)
  /\ IF e.step = "bridged" THEN job' = job
     ELSE Goes(h, IF e.step = "operator" /\ intent # None /\ kind[intent.of].fallback
                  THEN "apologising" ELSE "dropping")
  /\ UNCHANGED <<kind, late, givenUp, stored, stream, leg, step>>

\* A speech that a hangup cut short is reported as such, and ignored.
CutShort(e) ==
  /\ BagIn(e, events) /\ e.type = "said" /\ leg[e.leg] = "gone"
  /\ events' = events (-) SetToBag({e})
  /\ UNCHANGED <<requests, givenUp, stored, stream, leg, step, faults>>

\* The briefing, which takes a model's time to write.  Unsaid, it is skipped.
Brief(h) ==
  /\ job[h].do = "briefing"
  /\ LET l == job[h].leg
     IN \E how \in How :
          /\ Commanded({l}, how) /\ Speak(l, "briefing", how)
          /\ step' = IF how = "refused" THEN step ELSE [step EXCEPT ![l] = "briefing"]
          /\ Follows(h, how, "idle", "bridging")
  /\ UNCHANGED <<kind, late, givenUp, stored, stream, leg>>

\* resolve_briefing_text raises, outside the try: on_event logs it, and the operator is
\* neither briefed nor connected.
BriefingRaises(h) ==
  /\ job[h].do = "briefing"
  /\ Fault("raised") /\ givenUp' = givenUp \cup {job[h].leg}
  /\ Goes(h, "idle")
  /\ UNCHANGED <<kind, late, stored, stream, telnyx>>

\* Mutant: an operator who cannot be connected is left on the line.
LeftAlone == "idle"

\* An operator who cannot be connected is hung up.
Unbridged == "freeing"

\* _bridge.  A caller bridged to one operator is taken from that one.
Bridge(h) ==
  /\ job[h].do = "bridging"
  /\ LET l == job[h].leg
     IN \E how \in How :
          /\ Commanded({l, Caller}, how)
          /\ IF how = "refused" THEN UNCHANGED <<leg, step>>
             ELSE /\ leg' = [m \in Leg |-> IF m \in {l, Caller} THEN "bridged"
                                           ELSE IF leg[m] = "bridged" THEN "gone" ELSE leg[m]]
                  /\ step' = [step EXCEPT ![l] = "bridged"]
          /\ Follows(h, how, "idle", Unbridged)
  /\ UNCHANGED <<kind, late, givenUp, stored, stream, events>>

Free(h) ==
  /\ job[h].do = "freeing"
  /\ HangUp(job[h].leg) /\ StreamFollows
  /\ Goes(h, "idle")
  /\ UNCHANGED <<kind, late, stored, step>>

\* The fallback message, whose end hangs up the caller.
Apologise(h) ==
  /\ job[h].do = "apologising"
  /\ \E how \in How :
       /\ Commanded({Caller}, how) /\ Speak(Caller, "fallback", how)
       /\ Follows(h, how, "idle", "dropping")
  /\ UNCHANGED <<kind, late, givenUp, stored, stream, leg, step>>

-----------------------------------------------------------------------------
(* The media stream                                                        *)

\* The pipeline ends by itself: a goodbye, or the call's longest duration.
PipelineEnds ==
  /\ stream = "up" /\ stream' = "ended"
  /\ UNCHANGED <<requests, givenUp, stored, telnyx, faults>>

\* finalize_call, whose write waits for the row.
Finalize ==
  /\ stream = "ended" /\ writer = None
  /\ status' = "ended" /\ stream' = "finalized"
  /\ UNCHANGED <<requests, givenUp, writer, intent, telnyx, faults>>

\* _transferring: a parked intent leaves the caller on the line.
Judge ==
  /\ stream = "finalized"
  /\ stream' = IF intent = None THEN "closing" ELSE "over"
  /\ UNCHANGED <<requests, givenUp, stored, telnyx, faults>>

\* The edge's _hang_up.
Close ==
  /\ stream = "closing" /\ stream' = "over"
  /\ HangUp(Caller)
  /\ UNCHANGED <<requests, stored, step>>

-----------------------------------------------------------------------------
(* The world                                                               *)

OperatorAnswers(l) ==
  /\ leg[l] = "ringing"
  /\ leg' = [leg EXCEPT ![l] = "up"]
  /\ events' = events (+) EventOf("answered", l, step[l])
  /\ UNCHANGED <<requests, givenUp, stored, stream, step, faults>>

\* Either hangs up, or an operator's phone rings out.
LegEnds(l) ==
  /\ OnLine(l)
  /\ End(l) /\ StreamFollows
  /\ UNCHANGED <<requests, givenUp, stored, step, faults>>

Asked == {r \in Request : job[r].do # "idle"}
AtWork(a) == job[a].do \notin Finished

\* The intent's 300 seconds are over, which no request and no end of a stream takes.
Expires ==
  /\ intent # None /\ \A r \in Request : ~AtWork(r)
  /\ stream \notin {"ended", "finalized"}
  /\ Fault("expired")
  /\ intent' = None
  /\ UNCHANGED <<requests, givenUp, status, writer, stream, telnyx>>

-----------------------------------------------------------------------------

Transfer(r) ==
  \/ Check(r) \/ Write(r) \/ ParkIntent(r) \/ StopStream(r) \/ Tell(r)
  \/ Clear(r) \/ Commit(r) \/ Release(r)

Rings(a) == (\E l \in Operator : Dial(a, l)) \/ Link(a) \/ Drop(a)

Handles(h) ==
  \/ \E e \in BagToSet(events) :
       CallerGone(h, e) \/ CallerTold(h, e) \/ Answered(h, e) \/ Briefed(h, e) \/ OperatorGone(h, e)
  \/ Brief(h) \/ BriefingRaises(h) \/ Bridge(h) \/ Free(h) \/ Apologise(h)

Edge == PipelineEnds \/ Finalize \/ Judge \/ Close

World ==
  \/ \E l \in Operator : OperatorAnswers(l)
  \/ \E l \in Leg : LegEnds(l)
  \/ \E e \in BagToSet(events) : CutShort(e)
  \/ Expires

Next ==
  \/ \E r \in Request : Transfer(r)
  \/ \E a \in Actor : Rings(a)
  \/ \E h \in Hook : Handles(h)
  \/ Edge
  \/ World

Spec == Init /\ [][Next]_vars

-----------------------------------------------------------------------------
(* Properties                                                              *)

\* Nothing is on its way: every handler is done, every webhook taken, no
\* phone rings, and the stream's end has been seen to.
AllDone ==
  /\ \A a \in Actor : ~AtWork(a)
  /\ events = EmptyBag
  /\ \A l \in Operator : leg[l] # "ringing"
  /\ stream = "over"

\* Once nothing is on its way any more, the caller and every operator are talking
\* or have hung up, whichever commands failed or were done with their answer lost.
\* Whoever is left on a silent line had its own hangup refused, or a briefing that
\* raised, neither of which the code tries again; or is the caller of such an
\* operator, whose leg still stands for one who is being connected
\* (services/telnyx_transfer.py, start, _answered, _bridge and _hang_up;
\* telnyx_media_stream.py, the edge's end).  Except where a call ended between a
\* request's check and its write.
NobodyLeft ==
  AllDone /\ late = {} => \A l \in Leg :
    \/ leg[l] \in {"none", "bridged", "gone"}
    \/ l \in givenUp
    \/ l = Caller /\ \E o \in Operator : leg[o] = "up" /\ o \in givenUp

\* A lone transfer rings one operator at most, whatever fails, as long as no webhook
\* is sent again (services/telnyx_transfer.py, on_event: "a retried step is a second
\* dial").  Of two that overlap, one may be rung twice: the later parks its intent
\* over the other's, whose message's end then dials for it.
OperatorRungOnce ==
  \A r \in Request : Asked = {r} /\ "again" \notin Happened =>
    \A l, m \in Operator : leg[l] # "none" /\ leg[m] # "none" => l = m

\* The media edge does not hang up a caller whose transfer has begun, however
\* the end of the agent's pipeline and the transfer interleave: of a lone
\* request, on a call that had not ended (telnyx_media_stream.py,
\* _transferring; call_control.py, transfer_call).
EdgeLeavesTransfer ==
  \A r \in Request :
    Asked = {r} /\ stream = "closing" /\ late = {} /\ "expired" \notin Happened
      => job[r].do \notin {"telling", "dialling", "linking", "committing", "done"}

=============================================================================
