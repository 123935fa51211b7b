------------------------- MODULE TelnyxTransferProofs -------------------------
(***************************************************************************)
(* What TelnyxTransfer guarantees for every set of requests, handlers and  *)
(* legs and any faults: its types; that the end of the agent's stream      *)
(* leaves a caller alone whose transfer has begun; that somebody still has *)
(* in hand whoever is alone on a line without the agent, or was refused    *)
(* its hangup; and that each rung operator is paid for by one request.     *)
(***************************************************************************)
EXTENDS TelnyxTransfer, FiniteSetTheorems, TLAPS

USE TelnyxTransferAssumption
USE DEF Leg, Actor, requests, stored, telnyx, Happened, FaultsOK

-----------------------------------------------------------------------------
(* Helpers                                                                 *)

LEMMA BagGrows ==
  ASSUME NEW B, IsABag(B), NEW S
  PROVE  IsABag(B (+) SetToBag(S)) /\ BagToSet(B (+) SetToBag(S)) = BagToSet(B) \cup S
BY DEF IsABag, BagToSet, SetToBag, (+)

LEMMA BagShrinks ==
  ASSUME NEW B, IsABag(B), NEW S
  PROVE  IsABag(B (-) SetToBag(S)) /\ BagToSet(B (-) SetToBag(S)) \subseteq BagToSet(B)
BY DEF IsABag, BagToSet, SetToBag, (-)

LEMMA BagKeeps ==
  ASSUME NEW B, IsABag(B), NEW S
  PROVE  BagToSet(B) \ S \subseteq BagToSet(B (-) SetToBag(S))
BY DEF IsABag, BagToSet, SetToBag, (-)

\* A fault is one more in the bag.
LEMMA FaultCounts ==
  ASSUME FaultsOK, NEW f \in Faults, Fault(f)
  PROVE  FaultsOK' /\ Happened' = Happened \cup {f}
BY BagGrows DEF Fault

LEMMA FaultsTyped ==
  ASSUME NEW ls, NEW how \in How, Commanded(ls, how), FaultsOK
  PROVE  FaultsOK' /\ Happened \subseteq Happened'
<1>1. faults' = faults \/ Fault("refused") \/ Fault("lost answer")
  BY Zenon DEF Commanded
<1>2. \A f \in {"refused", "lost answer"} :
        Fault(f) => FaultsOK' /\ Happened \subseteq Happened'
  BY FaultCounts DEF Faults
<1> QED
  BY <1>1, <1>2

\* Goes changes the job of one actor, who knows what it needs to.
LEMMA GoesTyped ==
  ASSUME job \in [Actor -> Job], NEW a \in Actor, NEW do \in Do, Goes(a, do),
         do \in {"writing", "parking", "stopping", "telling", "dialling", "linking"}
           => job[a].of # None,
         do \in {"linking", "briefing", "bridging", "freeing"} => job[a].leg # None
  PROVE  /\ job' \in [Actor -> Job] /\ job'[a].do = do
         /\ \A b \in Actor \ {a} : job'[b] = job[b]
<1> DEFINE new == IF do \in Finished THEN [Rests EXCEPT !.do = do] ELSE [job[a] EXCEPT !.do = do]
<1>1. new \in Job /\ new.do = do
  BY DEF Job, Rests, Finished
<1>2. job' = [job EXCEPT ![a] = new]
  BY DEF Goes
<1> HIDE DEF new
<1> QED
  BY <1>1, <1>2

\* An actor that is not finished keeps the leg and the transfer it knows.
LEMMA GoesOn ==
  ASSUME job \in [Actor -> Job], NEW a \in Actor, NEW do \in Do \ Finished, Goes(a, do)
  PROVE  job'[a].do = do /\ job'[a].leg = job[a].leg /\ job'[a].of = job[a].of
<1>1. job' = [job EXCEPT ![a] = [job[a] EXCEPT !.do = do]]
  BY DEF Goes
<1>2. job[a] \in Job
  OBVIOUS
<1> QED
  BY <1>1, <1>2 DEF Job

LEMMA EndTyped ==
  ASSUME TypeOK, NEW l \in Leg, End(l)
  PROVE  /\ leg' \in [Leg -> {"none", "ringing", "up", "bridged", "gone"}]
         /\ IsABag(events') /\ BagToSet(events') \subseteq Event
<1> DEFINE ls == IF leg[l] = "bridged" THEN {m \in Leg : leg[m] = "bridged"} ELSE {l}
           es == {[type |-> "hangup", leg |-> m,
                   step |-> IF m = Caller THEN None ELSE step[m]] : m \in ls}
<1>1. leg' = [m \in Leg |-> IF m \in ls THEN "gone" ELSE leg[m]] /\ events' = events (+) SetToBag(es)
  BY DEF End
<1>2. ls \subseteq Leg
  OBVIOUS
<1>3. \A m \in Leg : (IF m = Caller THEN None ELSE step[m]) \in Step \cup {None}
  BY DEF TypeOK
<1>4. es \subseteq Event
  BY <1>2, <1>3 DEF Event
<1> QED
  BY <1>1, <1>4, BagGrows DEF TypeOK

LEMMA HangUpTyped ==
  ASSUME TypeOK, NEW l \in Leg, HangUp(l)
  PROVE  /\ leg' \in [Leg -> {"none", "ringing", "up", "bridged", "gone"}]
         /\ IsABag(events') /\ BagToSet(events') \subseteq Event
         /\ FaultsOK' /\ Happened \subseteq Happened'
         /\ givenUp' \subseteq Leg
<1>1. CASE OnLine(l) /\ End(l) /\ UNCHANGED <<faults, givenUp>>
  BY <1>1, EndTyped DEF TypeOK
<1>2. CASE Fault("refused") /\ givenUp' = givenUp \cup {l} /\ UNCHANGED <<leg, events>>
  BY <1>2, FaultCounts DEF TypeOK, Faults
<1>3. CASE UNCHANGED <<leg, events, faults, givenUp>>
  BY <1>3 DEF TypeOK
<1> QED
  BY <1>1, <1>2, <1>3 DEF HangUp

LEMMA SpeakTyped ==
  ASSUME TypeOK, NEW l \in Leg, NEW s \in {"message", "fallback", "briefing"}, NEW how, Speak(l, s, how)
  PROVE  IsABag(events') /\ BagToSet(events') \subseteq Event
<1>1. {[type |-> "said", leg |-> l, step |-> s]} \subseteq Event
  BY DEF Event
<1> QED
  BY <1>1, BagGrows DEF Speak, EventOf, TypeOK

LEMMA TakesTyped ==
  ASSUME TypeOK, NEW h, NEW e, Takes(h, e)
  PROVE  /\ IsABag(events') /\ BagToSet(events') \subseteq Event /\ e \in Event
         /\ FaultsOK' /\ Happened \subseteq Happened'
<1>1. e \in Event /\ job[h].do = "idle"
  BY DEF Takes, BagIn, TypeOK
<1>2. CASE events' = events (-) SetToBag({e}) /\ faults' = faults
  BY <1>1, <1>2, BagShrinks DEF TypeOK
<1>3. CASE events' = events /\ Fault("again")
  BY <1>1, <1>3, FaultCounts DEF TypeOK, Faults
<1> QED
  BY <1>2, <1>3 DEF Takes

-----------------------------------------------------------------------------
(* Types                                                                   *)

LEMMA RequestTyped ==
  ASSUME TypeOK, NEW r \in Request, Transfer(r)
  PROVE  TypeOK'
<1> USE DEF Do, Job
<1> r \in Actor
  OBVIOUS
<1>1. CASE Check(r)
  <2> [do |-> "writing", leg |-> None, of |-> r] \in Job
    BY DEF Job
  <2> job' \in [Actor -> Job]
    BY <1>1 DEF Check, TypeOK
  <2> QED
    BY <1>1 DEF Check, TypeOK
<1>2. CASE Write(r)
  <2> job' \in [Actor -> Job]
    BY <1>2, GoesTyped DEF Write, TypeOK
  <2> QED
    BY <1>2 DEF Write, TypeOK, Hold
<1>3. CASE ParkIntent(r)
  <2> job' \in [Actor -> Job]
    BY <1>3, GoesTyped DEF ParkIntent, TypeOK
  <2> intent' \in Intent
    BY <1>3 DEF ParkIntent, Intent
  <2> QED
    BY <1>3 DEF ParkIntent, TypeOK
<1>4. CASE StopStream(r)
  <2>1. PICK how \in How :
          /\ IF how = "refused" /\ stream # "up" THEN faults' = faults
             ELSE Commanded({Caller}, how)
          /\ stream' = IF how # "refused" /\ stream = "up" THEN "ended" ELSE stream
          /\ Follows(r, how, IF kind[r].message THEN "telling" ELSE "dialling", "clearing")
    BY <1>4 DEF StopStream
  <2>2. FaultsOK'
    BY <2>1, FaultsTyped DEF TypeOK
  <2>3. job' \in [Actor -> Job]
    <3> DEFINE do == IF how = "done" THEN IF kind[r].message THEN "telling" ELSE "dialling"
                     ELSE "clearing"
    <3>1. Goes(r, do) /\ do \in {"telling", "dialling", "clearing"}
      BY <2>1 DEF Follows
    <3>2. job[r].of # None
      BY <1>4 DEF StopStream, TypeOK
    <3> HIDE DEF do
    <3> QED
      BY <3>1, <3>2, GoesTyped DEF TypeOK
  <2> QED
    BY <1>4, <2>1, <2>2, <2>3 DEF StopStream, TypeOK
<1>5. CASE Tell(r)
  <2>1. PICK how \in How : /\ Commanded({Caller}, how) /\ Speak(Caller, "message", how)
                           /\ Follows(r, how, "committing", "dropping")
    BY <1>5 DEF Tell
  <2>2. FaultsOK'
    BY <2>1, FaultsTyped DEF TypeOK
  <2>3. job' \in [Actor -> Job]
    BY <2>1, GoesTyped DEF Follows, TypeOK
  <2>4. IsABag(events') /\ BagToSet(events') \subseteq Event
    BY <2>1, SpeakTyped
  <2> QED
    BY <1>5, <2>2, <2>3, <2>4 DEF Tell, TypeOK
<1>6. CASE Clear(r)
  <2> job' \in [Actor -> Job]
    BY <1>6, GoesTyped DEF Clear, TypeOK
  <2> QED
    BY <1>6 DEF Clear, TypeOK
<1>7. CASE Commit(r)
  <2> job' \in [Actor -> Job]
    BY <1>7, GoesTyped DEF Commit, TypeOK
  <2> QED
    BY <1>7 DEF Commit, TypeOK, LetGo
<1>8. CASE Release(r)
  <2> job' \in [Actor -> Job]
    BY <1>8, GoesTyped DEF Release, TypeOK
  <2> QED
    BY <1>8 DEF Release, TypeOK, LetGo
<1> QED
  BY <1>1, <1>2, <1>3, <1>4, <1>5, <1>6, <1>7, <1>8 DEF Transfer

LEMMA RingTyped ==
  ASSUME TypeOK, NEW a \in Actor, Rings(a)
  PROVE  TypeOK'
<1> USE DEF Do, Job
<1>1. CASE \E l \in Operator : Dial(a, l)
  <2>1. PICK l \in Operator : Dial(a, l)
    BY <1>1
  <2>2. PICK how \in How :
          /\ IF how = "refused" /\ ~Up(Caller) THEN faults' = faults
             ELSE Commanded({}, how)
          /\ IF how = "refused" THEN UNCHANGED <<leg, step>>
             ELSE /\ leg' = [leg EXCEPT ![l] = "ringing"]
                  /\ step' = [step EXCEPT ![l] = "operator"]
          /\ job' = [job EXCEPT ![a].do = IF how = "done" THEN "linking" ELSE Undialled,
                                ![a].leg = IF how = "done" THEN l ELSE None]
    BY <2>1 DEF Dial
  <2>3. FaultsOK'
    BY <2>2, FaultsTyped DEF TypeOK
  <2>4. job' \in [Actor -> Job]
    <3> DEFINE new == [job[a] EXCEPT !.do = IF how = "done" THEN "linking" ELSE Undialled,
                                     !.leg = IF how = "done" THEN l ELSE None]
    <3> job[a] \in Job /\ job[a].of # None
      BY <2>1 DEF TypeOK, Dial
    <3>1. new \in Job
      <4>1. CASE how = "done"
        BY <4>1
      <4>2. CASE how # "done"
        BY <4>2 DEF Undialled
      <4> QED
        BY <4>1, <4>2
    <3>2. job' = [job EXCEPT ![a] = new]
      BY <2>2 DEF TypeOK
    <3> HIDE DEF new
    <3> QED
      BY <3>1, <3>2 DEF TypeOK
  <2>5. leg' \in [Leg -> {"none", "ringing", "up", "bridged", "gone"}] /\ step' \in [Operator -> Step \cup {None}]
    BY <2>2 DEF TypeOK, Step
  <2> QED
    BY <2>1, <2>3, <2>4, <2>5 DEF Dial, TypeOK
<1>2. CASE Link(a)
  <2>1. job' \in [Actor -> Job]
    BY <1>2, GoesTyped DEF Link, Linked, TypeOK
  <2>2. intent' \in Intent
    BY <1>2 DEF Link, Intent, TypeOK, Job
  <2> QED
    BY <1>2, <2>1, <2>2 DEF Link, TypeOK
<1>3. CASE Drop(a)
  <2>1. job' \in [Actor -> Job]
    BY <1>3, GoesTyped DEF Drop, TypeOK
  <2>2. stream' \in {"up", "ended", "finalized", "closing", "over"}
    BY <1>3 DEF Drop, StreamFollows, TypeOK
  <2> QED
    BY <1>3, <2>1, <2>2, HangUpTyped DEF Drop, TypeOK
<1> QED
  BY <1>1, <1>2, <1>3 DEF Rings

LEMMA HandlerTyped ==
  ASSUME TypeOK, NEW h \in Hook, Handles(h)
  PROVE  TypeOK'
<1> USE DEF Do, Job
<1> h \in Actor
  OBVIOUS
<1>1. ASSUME NEW e \in BagToSet(events),
             CallerGone(h, e) \/ CallerTold(h, e) \/ Answered(h, e) \/ Briefed(h, e) \/ OperatorGone(h, e)
      PROVE  TypeOK'
  <2>1. Takes(h, e) /\ UNCHANGED <<kind, late, givenUp, stored, stream, leg, step>>
    BY <1>1 DEF CallerGone, CallerTold, Answered, Briefed, OperatorGone
  <2>2. /\ IsABag(events') /\ BagToSet(events') \subseteq Event /\ e \in Event
        /\ FaultsOK'
    BY <2>1, TakesTyped
  <2>3. e.leg \in Leg
    BY <2>2 DEF Event
  <2>4. job' \in [Actor -> Job]
    <3>1. CASE CallerGone(h, e)
      BY <3>1 DEF CallerGone, HasLeg, Turns, TypeOK, Intent
    <3>2. CASE CallerTold(h, e)
      <4> DEFINE do == IF e.step = "message" /\ intent # None THEN "dialling" ELSE "dropping"
                 new == [do |-> do, leg |-> None, of |-> Parked]
      <4>1. new \in Job
        BY DEF Parked, TypeOK, Intent
      <4>2. job' = [job EXCEPT ![h] = new]
        BY <3>2 DEF CallerTold, Turns
      <4> HIDE DEF new
      <4> QED
        BY <4>1, <4>2 DEF TypeOK
    <3>3. CASE Answered(h, e)
      <4> DEFINE do == IF intent # None /\ kind[intent.of].warm THEN "briefing" ELSE "bridging"
                 new == [do |-> do, leg |-> e.leg, of |-> None]
      <4>1. do \in {"briefing", "bridging"}
        OBVIOUS
      <4>2. job' = [job EXCEPT ![h] = new] /\ e.leg # Caller
        BY <3>3 DEF Answered, Turns
      <4> HIDE DEF do
      <4>3. new \in Job
        BY <2>3, <4>1, <4>2
      <4> HIDE DEF new
      <4> QED
        BY <4>2, <4>3 DEF TypeOK
    <3>4. CASE Briefed(h, e)
      BY <2>3, <3>4 DEF Briefed, Turns, TypeOK
    <3>5. CASE OperatorGone(h, e)
      BY <3>5, GoesTyped DEF OperatorGone, TypeOK
    <3> QED
      BY <1>1, <3>1, <3>2, <3>3, <3>4, <3>5
  <2> QED
    BY <2>1, <2>2, <2>4 DEF TypeOK
<1>2. CASE Brief(h)
  <2> DEFINE l == job[h].leg
  <2>1. PICK how \in How :
          /\ Commanded({l}, how) /\ Speak(l, "briefing", how)
          /\ step' = IF how = "refused" THEN step ELSE [step EXCEPT ![l] = "briefing"]
          /\ Follows(h, how, "idle", "bridging")
    BY <1>2 DEF Brief
  <2>2. l \in Operator
    BY <1>2 DEF Brief, TypeOK
  <2>3. FaultsOK'
    BY <2>1, FaultsTyped DEF TypeOK
  <2>4. job' \in [Actor -> Job]
    BY <2>1, <2>2, GoesTyped DEF Follows, TypeOK
  <2>5. IsABag(events') /\ BagToSet(events') \subseteq Event
    BY <2>1, <2>2, SpeakTyped
  <2>6. step' \in [Operator -> Step \cup {None}]
    BY <2>1, <2>2 DEF TypeOK, Step
  <2> QED
    BY <1>2, <2>3, <2>4, <2>5, <2>6 DEF Brief, TypeOK
<1>3. CASE Bridge(h)
  <2> DEFINE l == job[h].leg
  <2>1. PICK how \in How :
          /\ Commanded({l, Caller}, how)
          /\ IF how = "refused" THEN UNCHANGED <<leg, step>>
             ELSE /\ leg' = [m \in Leg |-> IF m \in {l, Caller} THEN "bridged"
                                           ELSE IF leg[m] = "bridged" THEN "gone" ELSE leg[m]]
                  /\ step' = [step EXCEPT ![l] = "bridged"]
          /\ Follows(h, how, "idle", Unbridged)
    BY <1>3 DEF Bridge
  <2>2. l \in Operator
    BY <1>3 DEF Bridge, TypeOK
  <2>3. FaultsOK'
    BY <2>1, FaultsTyped DEF TypeOK
  <2>4. job' \in [Actor -> Job]
    BY <2>1, <2>2, GoesTyped DEF Follows, Unbridged, TypeOK
  <2>5. leg' \in [Leg -> {"none", "ringing", "up", "bridged", "gone"}] /\ step' \in [Operator -> Step \cup {None}]
    BY <2>1, <2>2 DEF TypeOK, Step
  <2> QED
    BY <1>3, <2>3, <2>4, <2>5 DEF Bridge, TypeOK
<1>4. CASE Free(h)
  <2>1. job[h].leg \in Leg
    BY <1>4 DEF Free, TypeOK
  <2>2. job' \in [Actor -> Job]
    BY <1>4, GoesTyped DEF Free, TypeOK
  <2>3. stream' \in {"up", "ended", "finalized", "closing", "over"}
    BY <1>4 DEF Free, StreamFollows, TypeOK
  <2> QED
    BY <1>4, <2>1, <2>2, <2>3, HangUpTyped DEF Free, TypeOK
<1>5. CASE BriefingRaises(h)
  <2>1. job[h].leg \in Operator /\ "raised" \in Faults
    BY <1>5 DEF BriefingRaises, TypeOK, Faults
  <2>2. job' \in [Actor -> Job]
    BY <1>5, GoesTyped DEF BriefingRaises, TypeOK
  <2>3. FaultsOK' /\ givenUp' \subseteq Leg
    BY <1>5, <2>1, FaultCounts DEF BriefingRaises, TypeOK
  <2> QED
    BY <1>5, <2>2, <2>3 DEF BriefingRaises, TypeOK
<1>6. CASE Apologise(h)
  <2>1. PICK how \in How : /\ Commanded({Caller}, how) /\ Speak(Caller, "fallback", how)
                           /\ Follows(h, how, "idle", "dropping")
    BY <1>6 DEF Apologise
  <2>2. FaultsOK'
    BY <2>1, FaultsTyped DEF TypeOK
  <2>3. job' \in [Actor -> Job]
    BY <2>1, GoesTyped DEF Follows, TypeOK
  <2>4. IsABag(events') /\ BagToSet(events') \subseteq Event
    BY <2>1, SpeakTyped
  <2> QED
    BY <1>6, <2>2, <2>3, <2>4 DEF Apologise, TypeOK
<1> QED
  BY <1>1, <1>2, <1>3, <1>4, <1>5, <1>6 DEF Handles

LEMMA WorldTyped ==
  ASSUME TypeOK, Edge \/ World
  PROVE  TypeOK'
<1>1. CASE PipelineEnds \/ Finalize \/ Judge
  BY <1>1 DEF PipelineEnds, Finalize, Judge, TypeOK
<1>2. CASE Close
  BY <1>2, HangUpTyped DEF Close, TypeOK
<1>3. ASSUME NEW l \in Operator, OperatorAnswers(l)
      PROVE  TypeOK'
  <2>1. {[type |-> "answered", leg |-> l, step |-> step[l]]} \subseteq Event
    BY DEF Event, TypeOK
  <2>2. IsABag(events') /\ BagToSet(events') \subseteq Event
    BY <1>3, <2>1, BagGrows DEF OperatorAnswers, EventOf, TypeOK
  <2> QED
    BY <1>3, <2>2 DEF OperatorAnswers, TypeOK
<1>4. ASSUME NEW l \in Leg, LegEnds(l)
      PROVE  TypeOK'
  <2>1. stream' \in {"up", "ended", "finalized", "closing", "over"}
    BY <1>4 DEF LegEnds, StreamFollows, TypeOK
  <2> QED
    BY <1>4, <2>1, EndTyped DEF LegEnds, TypeOK
<1>5. ASSUME NEW e \in BagToSet(events), CutShort(e)
      PROVE  TypeOK'
  BY <1>5, BagShrinks DEF CutShort, TypeOK
<1>6. CASE Expires
  BY <1>6, FaultCounts DEF Expires, Faults, TypeOK
<1> QED
  BY <1>1, <1>2, <1>3, <1>4, <1>5, <1>6 DEF Edge, World

LEMMA InitTyped == Init => TypeOK
<1> SUFFICES ASSUME Init PROVE TypeOK
  OBVIOUS
<1>1. Rests \in Job
  BY DEF Rests, Job, Do
<1>2. IsABag(events) /\ BagToSet(events) = {} /\ IsABag(faults) /\ BagToSet(faults) = {}
  BY DEF Init, EmptyBag, IsABag, BagToSet, SetToBag
<1> QED
  BY <1>1, <1>2 DEF Init, TypeOK

LEMMA NextTyped == TypeOK /\ [Next]_vars => TypeOK'
<1> SUFFICES ASSUME TypeOK, [Next]_vars PROVE TypeOK'
  OBVIOUS
<1>1. CASE UNCHANGED vars
  BY <1>1 DEF vars, TypeOK
<1>2. CASE Next
  BY <1>2, RequestTyped, RingTyped, HandlerTyped, WorldTyped DEF Next
<1> QED
  BY <1>1, <1>2

\* Every row, intent, job, leg and webhook is one there can be, and a handler
\* knows the leg and the transfer it goes on with (services/telnyx_transfer.py).
THEOREM TypeCorrect == Spec => []TypeOK
BY InitTyped, NextTyped, PTL DEF Spec

-----------------------------------------------------------------------------
(* The end of the stream                                                   *)

\* A request's transaction, from its write to its end.
Holding == {"parking", "stopping", "telling", "dialling", "linking", "committing",
            "dropping", "clearing", "releasing"}

\* While a transfer is being asked for and once it is under way, an intent is parked.
AfterPark == {"stopping", "telling", "dialling", "linking", "committing", "dropping", "done"}

\* Who has the call's row is in its transaction, which has it from its write on.
RowHeld ==
  \A r \in Request : /\ writer = r => job[r].do \in Holding
                     /\ job[r].do \in Holding /\ r \notin late => writer = r

\* The end is not written while the row is held, and the edge looks only after it.
EndWaits ==
  /\ writer # None => status # "ended"
  /\ stream \in {"finalized", "closing", "over"} => status = "ended"

Lone(r) == Asked = {r} /\ late = {} /\ "expired" \notin Happened

\* Nobody else clears a lone request's intent.
IntentKept == \A r \in Request : Lone(r) /\ job[r].do \in AfterPark => intent # None

EdgeInv == TypeOK /\ RowHeld /\ EndWaits /\ IntentKept /\ EdgeLeavesTransfer

\* What stays as it is when requests rest: their jobs, the row and the intent.
RequestsRest ==
  /\ \A r \in Request : job'[r] = job[r]
  /\ UNCHANGED <<late, stored>>
  /\ "expired" \in Happened => "expired" \in Happened'

LEMMA RestKeeps ==
  ASSUME EdgeInv, TypeOK', RequestsRest, stream' \in {stream, "ended", "over"},
         stream' = "over" => stream \in {"closing", "over"}
  PROVE  EdgeInv'
<1>1. Asked' = Asked
  BY DEF RequestsRest, Asked
<1>2. \A r \in Request : Lone(r)' => Lone(r)
  BY <1>1 DEF RequestsRest, Lone
<1>3. RowHeld' /\ EndWaits' /\ IntentKept'
  BY <1>2 DEF EdgeInv, RequestsRest, RowHeld, EndWaits, IntentKept
<1>4. EdgeLeavesTransfer'
  BY <1>1 DEF EdgeInv, RequestsRest, EdgeLeavesTransfer
<1> QED
  BY <1>3, <1>4 DEF EdgeInv

\* A step of request r, which is neither its first nor takes the intent from it.
LEMMA RequestMoves ==
  ASSUME EdgeInv, TypeOK', RowHeld', EndWaits', NEW r \in Request,
         \A s \in Request \ {r} : job'[s] = job[s],
         job[r].do # "idle", job'[r].do # "idle",
         Happened \subseteq Happened', late \subseteq late', stream' \in {stream, "ended"},
         job'[r].do \in AfterPark => intent' # None \/ (job[r].do \in AfterPark /\ intent' = intent),
         job'[r].do = "done" => job[r].do \in Holding
  PROVE  EdgeInv'
<1>1. Asked' = Asked /\ r \in Asked
  BY DEF Asked
<1>2. \A s \in Request : Lone(s)' => Lone(s) /\ s = r
  BY <1>1 DEF Lone
<1>3. IntentKept'
  BY <1>2 DEF EdgeInv, IntentKept
<1>4. EdgeLeavesTransfer'
  <2> SUFFICES ASSUME Asked' = {r}, stream' = "closing", late' = {}, "expired" \notin Happened'
               PROVE  job'[r].do \notin {"telling", "dialling", "linking", "committing", "done"}
    BY <1>1 DEF EdgeLeavesTransfer
  <2>1. stream = "closing" /\ late = {} /\ status = "ended" /\ status' = "ended"
    BY DEF EdgeInv, EndWaits
  <2>2. writer = None /\ writer' = None
    BY <2>1 DEF EdgeInv, EndWaits
  <2>3. r # None
    OBVIOUS
  <2>4. job[r].do \notin Holding /\ job'[r].do \notin Holding
    BY <2>1, <2>2, <2>3 DEF EdgeInv, RowHeld
  <2> QED
    BY <2>4 DEF Holding
<1> QED
  BY <1>3, <1>4 DEF EdgeInv

LEMMA RequestKeeps ==
  ASSUME EdgeInv, TypeOK', NEW r \in Request, Transfer(r)
  PROVE  EdgeInv'
<1> USE DEF Do
<1>0. r \in Actor /\ job \in [Actor -> Job] /\ TypeOK
  BY DEF EdgeInv, TypeOK
<1>1. CASE Check(r)
  <2>1. /\ status # "ended" /\ stream \notin {"finalized", "closing", "over"}
        /\ job[r].do = "idle" /\ job'[r].do = "writing"
        /\ \A s \in Request \ {r} : job'[s] = job[s]
        /\ UNCHANGED <<late, stored, stream, faults>>
    BY <1>0, <1>1 DEF Check, EdgeInv, EndWaits
  <2>2. RowHeld' /\ EndWaits' /\ EdgeLeavesTransfer'
    BY <2>1 DEF EdgeInv, RowHeld, EndWaits, EdgeLeavesTransfer, Holding
  <2>3. \A s \in Request : Lone(s)' => s = r
    BY <2>1 DEF Lone, Asked
  <2>4. IntentKept'
    BY <2>1, <2>3 DEF IntentKept, AfterPark
  <2> QED
    BY <2>2, <2>4 DEF EdgeInv
<1>2. CASE Write(r)
  <2>1. job[r].do = "writing" /\ job'[r].do = "parking" /\ \A s \in Request \ {r} : job'[s] = job[s]
    <3> Goes(r, "parking") /\ job[r].do = "writing" /\ job[r].of # None
      BY <1>0, <1>2 DEF Write, Job
    <3> QED
      BY <1>0, GoesTyped
  <2>2. RowHeld' /\ EndWaits'
    BY <1>2, <2>1 DEF Write, Hold, EdgeInv, RowHeld, EndWaits, Holding
  <2> QED
    BY <1>2, <2>1, <2>2, RequestMoves DEF Write, AfterPark
<1>3. CASE ParkIntent(r)
  <2>1. job[r].do = "parking" /\ job'[r].do = "stopping" /\ \A s \in Request \ {r} : job'[s] = job[s]
    <3> Goes(r, "stopping") /\ job[r].do = "parking" /\ job[r].of # None
      BY <1>0, <1>3 DEF ParkIntent, Job
    <3> QED
      BY <1>0, GoesTyped
  <2>2. intent' # None
    BY <1>3 DEF ParkIntent, Intent
  <2>3. RowHeld' /\ EndWaits'
    BY <1>3, <2>1 DEF ParkIntent, EdgeInv, RowHeld, EndWaits, Holding
  <2> QED
    BY <1>3, <2>1, <2>2, <2>3, RequestMoves DEF ParkIntent
<1>4. CASE StopStream(r)
  <2>1. PICK how \in How :
          /\ IF how = "refused" /\ stream # "up" THEN faults' = faults
             ELSE Commanded({Caller}, how)
          /\ stream' = IF how # "refused" /\ stream = "up" THEN "ended" ELSE stream
          /\ Follows(r, how, IF kind[r].message THEN "telling" ELSE "dialling", "clearing")
    BY <1>4 DEF StopStream
  <2>2. Happened \subseteq Happened'
    BY <1>0, <2>1, FaultsTyped DEF TypeOK
  <2>3. /\ job[r].do = "stopping" /\ job'[r].do \in {"telling", "dialling", "clearing"}
        /\ \A s \in Request \ {r} : job'[s] = job[s]
    <3> DEFINE do == IF how = "done" THEN IF kind[r].message THEN "telling" ELSE "dialling"
                     ELSE "clearing"
    <3>1. Goes(r, do) /\ do \in {"telling", "dialling", "clearing"}
      BY <2>1 DEF Follows
    <3>2. job[r].do = "stopping" /\ job[r].of # None
      BY <1>0, <1>4 DEF StopStream, Job
    <3> HIDE DEF do
    <3> QED
      BY <1>0, <3>1, <3>2, GoesTyped
  <2>4. RowHeld' /\ EndWaits'
    BY <1>4, <2>1, <2>3 DEF StopStream, EdgeInv, RowHeld, EndWaits, Holding
  <2> QED
    BY <1>4, <2>1, <2>2, <2>3, <2>4, RequestMoves DEF StopStream, AfterPark
<1>5. CASE Tell(r)
  <2>1. PICK how \in How : /\ Commanded({Caller}, how) /\ Speak(Caller, "message", how)
                           /\ Follows(r, how, "committing", "dropping")
    BY <1>5 DEF Tell
  <2>2. Happened \subseteq Happened'
    BY <1>0, <2>1, FaultsTyped DEF TypeOK
  <2>3. /\ job[r].do = "telling" /\ job'[r].do \in {"committing", "dropping"}
        /\ \A s \in Request \ {r} : job'[s] = job[s]
    BY <1>0, <1>5, <2>1, GoesTyped DEF Follows, Tell
  <2>4. RowHeld' /\ EndWaits'
    BY <1>5, <2>3 DEF Tell, EdgeInv, RowHeld, EndWaits, Holding
  <2> QED
    BY <1>5, <2>2, <2>3, <2>4, RequestMoves DEF Tell, AfterPark
<1>6. CASE Clear(r)
  <2>1. job[r].do = "clearing" /\ job'[r].do = "releasing" /\ \A s \in Request \ {r} : job'[s] = job[s]
    BY <1>0, <1>6, GoesTyped DEF Clear
  <2>2. RowHeld' /\ EndWaits'
    BY <1>6, <2>1 DEF Clear, EdgeInv, RowHeld, EndWaits, Holding
  <2> QED
    BY <1>6, <2>1, <2>2, RequestMoves DEF Clear, AfterPark
<1>7. CASE Commit(r)
  <2>1. job[r].do = "committing" /\ job'[r].do = "done" /\ \A s \in Request \ {r} : job'[s] = job[s]
    BY <1>0, <1>7, GoesTyped DEF Commit
  <2>2. RowHeld' /\ EndWaits'
    BY <1>7, <2>1 DEF Commit, LetGo, EdgeInv, RowHeld, EndWaits, Holding
  <2> QED
    BY <1>7, <2>1, <2>2, RequestMoves DEF Commit, AfterPark, Holding
<1>8. CASE Release(r)
  <2>1. job[r].do = "releasing" /\ job'[r].do = "failed" /\ \A s \in Request \ {r} : job'[s] = job[s]
    BY <1>0, <1>8, GoesTyped DEF Release
  <2>2. RowHeld' /\ EndWaits'
    BY <1>8, <2>1 DEF Release, LetGo, EdgeInv, RowHeld, EndWaits, Holding
  <2> QED
    BY <1>8, <2>1, <2>2, RequestMoves DEF Release, AfterPark
<1> QED
  BY <1>1, <1>2, <1>3, <1>4, <1>5, <1>6, <1>7, <1>8 DEF Transfer

LEMMA RingKeeps ==
  ASSUME EdgeInv, TypeOK', NEW a \in Actor, Rings(a)
  PROVE  EdgeInv'
<1> USE DEF Do
<1>0. job \in [Actor -> Job] /\ TypeOK
  BY DEF EdgeInv, TypeOK
<1>1. CASE \E l \in Operator : Dial(a, l)
  <2>1. PICK l \in Operator : Dial(a, l)
    BY <1>1
  <2>2. PICK how \in How :
          /\ IF how = "refused" /\ ~Up(Caller) THEN faults' = faults
             ELSE Commanded({}, how)
          /\ job' = [job EXCEPT ![a].do = IF how = "done" THEN "linking" ELSE Undialled,
                                ![a].leg = IF how = "done" THEN l ELSE None]
    BY <2>1 DEF Dial
  <2>3. Happened \subseteq Happened'
    BY <1>0, <2>2, FaultsTyped DEF TypeOK
  <2>4. /\ job[a].do = "dialling" /\ job'[a].do \in {"linking", "dropping"}
        /\ \A s \in Actor \ {a} : job'[s] = job[s]
    BY <1>0, <2>1, <2>2 DEF Dial, Undialled, Job
  <2>5. UNCHANGED <<late, stored, stream>>
    BY <2>1 DEF Dial
  <2>6. CASE a \in Request
    <3>1. RowHeld' /\ EndWaits'
      BY <2>4, <2>5, <2>6 DEF EdgeInv, RowHeld, EndWaits, Holding
    <3> QED
      BY <2>3, <2>4, <2>5, <2>6, <3>1, RequestMoves DEF AfterPark
  <2>7. CASE a \in Hook
    BY <2>3, <2>4, <2>5, <2>7, RestKeeps DEF RequestsRest
  <2> QED
    BY <2>6, <2>7
<1>2. CASE Link(a)
  <2>1. /\ job[a].do = "linking" /\ job'[a].do = Linked(a)
        /\ \A s \in Actor \ {a} : job'[s] = job[s]
    BY <1>0, <1>2, GoesTyped DEF Link, Linked
  <2>2. UNCHANGED <<late, status, writer, stream, faults>> /\ intent' # None
    BY <1>0, <1>2 DEF Link, Intent, Job
  <2>3. CASE a \in Request
    <3>1. RowHeld' /\ EndWaits'
      BY <2>1, <2>2, <2>3 DEF Linked, EdgeInv, RowHeld, EndWaits, Holding
    <3> QED
      BY <2>1, <2>2, <2>3, <3>1, RequestMoves DEF Linked
  <2>4. CASE a \in Hook
    <3>1. \A r \in Request : job'[r] = job[r]
      BY <2>1, <2>4
    <3>2. Asked' = Asked /\ \A r \in Request : Lone(r)' => Lone(r)
      BY <2>2, <3>1 DEF Asked, Lone
    <3>3. RowHeld' /\ EndWaits' /\ IntentKept'
      BY <2>2, <3>1 DEF EdgeInv, RowHeld, EndWaits, IntentKept
    <3>4. EdgeLeavesTransfer'
      BY <2>2, <3>1, <3>2 DEF EdgeInv, EdgeLeavesTransfer
    <3> QED
      BY <3>3, <3>4 DEF EdgeInv
  <2> QED
    BY <2>3, <2>4
<1>3. CASE Drop(a)
  <2>1. /\ job[a].do = "dropping" /\ job'[a].do = IF a \in Request THEN "clearing" ELSE "idle"
        /\ \A s \in Actor \ {a} : job'[s] = job[s]
    BY <1>0, <1>3, GoesTyped DEF Drop
  <2>2. UNCHANGED <<late, stored>> /\ Happened \subseteq Happened' /\ stream' \in {stream, "ended"}
    BY <1>0, <1>3, HangUpTyped DEF Drop, StreamFollows
  <2>3. CASE a \in Request
    <3>1. RowHeld' /\ EndWaits'
      BY <2>1, <2>2, <2>3 DEF EdgeInv, RowHeld, EndWaits, Holding
    <3> QED
      BY <2>1, <2>2, <2>3, <3>1, RequestMoves DEF AfterPark
  <2>4. CASE a \in Hook
    BY <2>1, <2>2, <2>4, RestKeeps DEF RequestsRest, EdgeInv, EndWaits
  <2> QED
    BY <2>3, <2>4
<1> QED
  BY <1>1, <1>2, <1>3 DEF Rings

LEMMA HandlerKeeps ==
  ASSUME EdgeInv, TypeOK', NEW h \in Hook, Handles(h)
  PROVE  EdgeInv'
<1>0. TypeOK /\ job \in [Actor -> Job]
  BY DEF EdgeInv, TypeOK
<1>1. ASSUME NEW e \in BagToSet(events),
             CallerGone(h, e) \/ CallerTold(h, e) \/ Answered(h, e) \/ Briefed(h, e) \/ OperatorGone(h, e)
      PROVE  RequestsRest /\ stream' = stream
  <2>1. Takes(h, e) /\ UNCHANGED <<late, stored, stream>>
    BY <1>1 DEF CallerGone, CallerTold, Answered, Briefed, OperatorGone
  <2>2. Happened \subseteq Happened'
    BY <1>0, <2>1, TakesTyped
  <2>3. \A r \in Request : job'[r] = job[r]
    BY <1>0, <1>1 DEF CallerGone, CallerTold, Answered, Briefed, OperatorGone, Turns, Goes
  <2> QED
    BY <2>1, <2>2, <2>3 DEF RequestsRest
<1>2. CASE Brief(h) \/ Bridge(h) \/ Apologise(h)
  <2>1. Happened \subseteq Happened'
    BY <1>0, <1>2, FaultsTyped DEF Brief, Bridge, Apologise, TypeOK
  <2>2. \A r \in Request : job'[r] = job[r]
    BY <1>0, <1>2 DEF Brief, Bridge, Apologise, Follows, Goes
  <2>3. UNCHANGED <<late, stored, stream>>
    BY <1>2 DEF Brief, Bridge, Apologise
  <2> QED
    BY <2>1, <2>2, <2>3, RestKeeps DEF RequestsRest
<1>3. CASE Free(h)
  <2>1. job[h].leg \in Leg
    BY <1>0, <1>3 DEF Free, Job
  <2>2. Happened \subseteq Happened'
    BY <1>0, <1>3, <2>1, HangUpTyped DEF Free
  <2>3. RequestsRest /\ stream' \in {stream, "ended"}
    BY <1>0, <1>3, <2>2 DEF Free, Goes, StreamFollows, RequestsRest
  <2> QED
    BY <2>3, RestKeeps
<1>4. CASE BriefingRaises(h)
  <2>1. Happened \subseteq Happened'
    BY <1>0, <1>4, FaultCounts DEF BriefingRaises, Faults, TypeOK
  <2>2. RequestsRest /\ stream' = stream
    BY <1>0, <1>4, <2>1 DEF BriefingRaises, Goes, RequestsRest
  <2> QED
    BY <2>2, RestKeeps
<1> QED
  BY <1>1, <1>2, <1>3, <1>4, RestKeeps DEF Handles

LEMMA WorldKeeps ==
  ASSUME EdgeInv, TypeOK', Edge \/ World
  PROVE  EdgeInv'
<1>1. CASE PipelineEnds
  BY <1>1, RestKeeps DEF PipelineEnds, RequestsRest
<1>2. CASE Finalize
  <2>1. /\ UNCHANGED <<job, late, writer, intent, faults>> /\ writer = None
        /\ status' = "ended" /\ stream' = "finalized"
    BY <1>2 DEF Finalize
  <2>2. RowHeld' /\ EndWaits' /\ IntentKept' /\ EdgeLeavesTransfer'
    BY <2>1 DEF EdgeInv, RowHeld, EndWaits, IntentKept, EdgeLeavesTransfer, Lone, Asked
  <2> QED
    BY <2>2 DEF EdgeInv
<1>3. CASE Judge
  <2>1. /\ UNCHANGED <<job, late, stored, faults>> /\ stream = "finalized"
        /\ stream' = IF intent = None THEN "closing" ELSE "over"
    BY <1>3 DEF Judge
  <2>2. RowHeld' /\ EndWaits' /\ IntentKept'
    BY <2>1 DEF EdgeInv, RowHeld, EndWaits, IntentKept, Lone, Asked
  <2>3. EdgeLeavesTransfer'
    <3> SUFFICES ASSUME NEW r \in Request, Lone(r), intent = None
                 PROVE  job[r].do \notin {"telling", "dialling", "linking", "committing", "done"}
      BY <2>1 DEF EdgeLeavesTransfer, Lone, Asked
    <3> QED
      BY DEF EdgeInv, IntentKept, AfterPark
  <2> QED
    BY <2>2, <2>3 DEF EdgeInv
<1>4. CASE Close
  <2>1. Happened \subseteq Happened'
    BY <1>4, HangUpTyped DEF Close, EdgeInv
  <2> QED
    BY <1>4, <2>1, RestKeeps DEF Close, RequestsRest
<1>5. CASE \/ \E l \in Operator : OperatorAnswers(l)
           \/ \E e \in BagToSet(events) : CutShort(e)
  <2>1. RequestsRest /\ stream' = stream
    BY <1>5 DEF OperatorAnswers, CutShort, RequestsRest
  <2> QED
    BY <2>1, RestKeeps
<1>6. ASSUME NEW l \in Leg, LegEnds(l)
      PROVE  EdgeInv'
  <2>1. RequestsRest /\ stream' \in {stream, "ended"}
    BY <1>6 DEF LegEnds, StreamFollows, RequestsRest
  <2> QED
    BY <2>1, RestKeeps
<1>7. CASE Expires
  <2>1. UNCHANGED <<job, late, status, writer, stream>> /\ "expired" \in Happened'
    BY <1>7, FaultCounts DEF Expires, Faults, EdgeInv, TypeOK
  <2>2. RowHeld' /\ EndWaits' /\ IntentKept' /\ EdgeLeavesTransfer'
    BY <2>1 DEF EdgeInv, RowHeld, EndWaits, IntentKept, EdgeLeavesTransfer, Lone
  <2> QED
    BY <2>2 DEF EdgeInv
<1> QED
  BY <1>1, <1>2, <1>3, <1>4, <1>5, <1>6, <1>7 DEF Edge, World

\* The row's lock makes the edge wait: the end is written, and the intent
\* looked for, only once a transfer that holds the row has parked it or given
\* up (call_control.py, transfer_call; telnyx_media_stream.py, _transferring).
THEOREM EdgeAgrees == Spec => []EdgeInv
<1>1. Init => EdgeInv
  <2> SUFFICES ASSUME Init, TypeOK PROVE EdgeInv
    BY InitTyped
  <2>1. \A r \in Request : job[r].do = "idle" /\ writer # r
    BY DEF Init, Rests
  <2> QED
    BY <2>1 DEF Init, EdgeInv, RowHeld, EndWaits, IntentKept, EdgeLeavesTransfer, Holding, AfterPark
<1>2. EdgeInv /\ [Next]_vars => EdgeInv'
  <2> SUFFICES ASSUME EdgeInv, [Next]_vars PROVE EdgeInv'
    OBVIOUS
  <2>1. TypeOK'
    BY NextTyped DEF EdgeInv
  <2>2. CASE UNCHANGED vars
    BY <2>1, <2>2, RestKeeps DEF vars, RequestsRest
  <2>3. CASE Next
    BY <2>1, <2>3, RequestKeeps, RingKeeps, HandlerKeeps, WorldKeeps DEF Next
  <2> QED
    BY <2>2, <2>3
<1> QED
  BY <1>1, <1>2, PTL DEF Spec

\* However the end of the agent's pipeline and a lone transfer interleave, the
\* media edge does not hang up a caller whose transfer has begun.
THEOREM EdgeLeavesTransferHolds == Spec => []EdgeLeavesTransfer
BY EdgeAgrees, PTL DEF EdgeInv

-----------------------------------------------------------------------------
(* What one step does to a leg, to a webhook on its way, and to a job      *)

Said(l, s)   == [type |-> "said", leg |-> l, step |-> s]
Picked(l)    == [type |-> "answered", leg |-> l, step |-> "operator"]
Hangup(l, s) == [type |-> "hangup", leg |-> l, step |-> s]
Coming(e)    == e \in BagToSet(events)
WillCome(e)  == e \in BagToSet(events')

\* While the caller is on the line alone, no operator is bridged; who rings has the step
\* of an operator's leg.
OnlyBridged ==
  /\ leg[Caller] \in {"up", "bridged", "gone"}
  /\ \A l \in Operator :
       /\ leg[Caller] = "up" => leg[l] # "bridged" /\ step[l] # "bridged"
       /\ leg[l] = "ringing" => step[l] = "operator"

\* An answer and a hangup are always reported; a leg dialled stays dialled.
LegsStep ==
  /\ leg'[Caller] \in {"up", "bridged", "gone"}
  /\ leg'[Caller] = "up" => leg[Caller] = "up"
  /\ \A l \in Operator :
       /\ leg[l] # "none" => leg'[l] # "none"
       /\ leg'[l] = "ringing" => step'[l] = "operator"
       /\ leg'[l] = "up" /\ leg[l] # "up" => WillCome(Picked(l))
       /\ leg'[Caller] = "up" => /\ leg'[l] = "bridged" => leg[l] = "bridged"
                                 /\ step'[l] = "bridged" => step[l] = "bridged"
                                 /\ leg'[l] = "gone" /\ leg[l] # "gone" => WillCome(Hangup(l, step[l]))

LEMMA LegsRest ==
  ASSUME OnlyBridged, UNCHANGED <<leg, step>>
  PROVE  LegsStep
BY DEF OnlyBridged, LegsStep

LEMMA EndSteps ==
  ASSUME TypeOK, OnlyBridged, NEW l \in Leg, End(l), step' = step
  PROVE  LegsStep /\ leg'[l] # "up"
<1> DEFINE ls == IF leg[l] = "bridged" THEN {m \in Leg : leg[m] = "bridged"} ELSE {l}
           es == {[type |-> "hangup", leg |-> m,
                   step |-> IF m = Caller THEN None ELSE step[m]] : m \in ls}
<1>1. leg' = [m \in Leg |-> IF m \in ls THEN "gone" ELSE leg[m]] /\ events' = events (+) SetToBag(es)
  BY DEF End
<1>2. l \in ls /\ ls \subseteq Leg
  OBVIOUS
<1>3. \A m \in ls : m \in Operator => Hangup(m, step[m]) \in es
  BY DEF Hangup
<1>4. BagToSet(events') = BagToSet(events) \cup es
  BY <1>1, BagGrows DEF TypeOK
<1>5. \A m \in ls : m \in Operator => WillCome(Hangup(m, step[m]))
  BY <1>3, <1>4 DEF Coming, WillCome, Hangup
<1>6. \A m \in Leg : leg'[m] = IF m \in ls THEN "gone" ELSE leg[m]
  BY <1>1
<1> HIDE DEF ls, es
<1> QED
  BY <1>2, <1>5, <1>6 DEF OnlyBridged, LegsStep

\* A leg that is to be hung up is up no more, or it is given up.
LEMMA HangUpSteps ==
  ASSUME TypeOK, OnlyBridged, NEW l \in Leg, HangUp(l), step' = step
  PROVE  /\ LegsStep
         /\ leg'[l] # "up" \/ l \in givenUp'
<1>1. CASE End(l)
  BY <1>1, EndSteps
<1>2. CASE givenUp' = givenUp \cup {l} /\ leg' = leg
  BY <1>2, LegsRest
<1>3. CASE ~OnLine(l) /\ leg' = leg
  BY <1>3, LegsRest DEF OnLine
<1> QED
  BY <1>1, <1>2, <1>3 DEF HangUp

LEMMA LegsMove ==
  ASSUME TypeOK, OnlyBridged, Next
  PROVE  LegsStep
<1>1. ASSUME NEW r \in Request, Transfer(r) PROVE LegsStep
  <2>1. UNCHANGED <<leg, step>>
    BY <1>1 DEF Transfer, Check, Write, ParkIntent, StopStream, Tell, Clear, Commit, Release
  <2> QED
    BY <2>1, LegsRest
<1>2. ASSUME NEW a \in Actor, Rings(a) PROVE LegsStep
  <2>1. ASSUME NEW l \in Operator, Dial(a, l) PROVE LegsStep
    <3>1. leg[l] = "none" /\ \/ UNCHANGED <<leg, step>>
                             \/ /\ leg' = [leg EXCEPT ![l] = "ringing"]
                                /\ step' = [step EXCEPT ![l] = "operator"]
      BY <2>1 DEF Dial
    <3> QED
      BY <3>1, LegsRest DEF TypeOK, OnlyBridged, LegsStep
  <2>2. CASE Link(a)
    BY <2>2, LegsRest DEF Link
  <2>3. CASE Drop(a)
    BY <2>3, HangUpSteps DEF Drop
  <2> QED
    BY <1>2, <2>1, <2>2, <2>3 DEF Rings
<1>3. ASSUME NEW h \in Hook, Handles(h) PROVE LegsStep
  <2>1. ASSUME NEW e \in BagToSet(events),
               CallerGone(h, e) \/ CallerTold(h, e) \/ Answered(h, e) \/ Briefed(h, e) \/ OperatorGone(h, e)
        PROVE  LegsStep
    BY <2>1, LegsRest DEF CallerGone, CallerTold, Answered, Briefed, OperatorGone
  <2>2. CASE Brief(h)
    <3> DEFINE l == job[h].leg
    <3>1. l \in Operator
      BY <2>2 DEF Brief, TypeOK, Job
    <3>2. leg' = leg /\ (step' = step \/ (leg[l] \in {"up", "bridged"} /\ step' = [step EXCEPT ![l] = "briefing"]))
      BY <2>2 DEF Brief, Commanded, Up
    <3> QED
      BY <3>1, <3>2, LegsRest DEF TypeOK, OnlyBridged, LegsStep
  <2>3. CASE Bridge(h)
    <3> DEFINE l == job[h].leg
    <3>1. l \in Operator
      BY <2>3 DEF Bridge, TypeOK, Job
    <3>2. \/ UNCHANGED <<leg, step>>
          \/ /\ leg[l] \in {"up", "bridged"}
             /\ leg' = [m \in Leg |-> IF m \in {l, Caller} THEN "bridged"
                                      ELSE IF leg[m] = "bridged" THEN "gone" ELSE leg[m]]
             /\ step' = [step EXCEPT ![l] = "bridged"]
      BY <2>3 DEF Bridge, Commanded, Up
    <3> QED
      BY <3>1, <3>2, LegsRest DEF TypeOK, OnlyBridged, LegsStep
  <2>4. CASE Free(h)
    <3>1. job[h].leg \in Operator
      BY <2>4 DEF Free, TypeOK, Job
    <3> QED
      BY <2>4, <3>1, HangUpSteps DEF Free
  <2>5. CASE Apologise(h)
    BY <2>5, LegsRest DEF Apologise
  <2>6. CASE BriefingRaises(h)
    BY <2>6, LegsRest DEF BriefingRaises
  <2> QED
    BY <1>3, <2>1, <2>2, <2>3, <2>4, <2>5, <2>6 DEF Handles
<1>4. CASE Edge
  BY <1>4, LegsRest, HangUpSteps DEF Edge, PipelineEnds, Finalize, Judge, Close
<1>5. CASE World
  <2>1. ASSUME NEW l \in Operator, OperatorAnswers(l) PROVE LegsStep
    <3>1. leg[l] = "ringing" /\ leg' = [leg EXCEPT ![l] = "up"] /\ step' = step
      BY <2>1 DEF OperatorAnswers
    <3>2. step[l] = "operator"
      BY <3>1 DEF OnlyBridged
    <3>3. WillCome(Picked(l))
      BY <2>1, <3>2, BagGrows DEF OperatorAnswers, EventOf, TypeOK, WillCome, Picked
    <3> QED
      BY <3>1, <3>3 DEF TypeOK, OnlyBridged, LegsStep
  <2>2. ASSUME NEW l \in Leg, LegEnds(l) PROVE LegsStep
    BY <2>2, EndSteps DEF LegEnds
  <2>3. CASE Expires \/ \E e \in BagToSet(events) : CutShort(e)
    BY <2>3, LegsRest DEF Expires, CutShort
  <2> QED
    BY <1>5, <2>1, <2>2, <2>3 DEF World
<1> QED
  BY <1>1, <1>2, <1>3, <1>4, <1>5 DEF Next

LEMMA LegsAgree == Spec => []OnlyBridged
<1>1. Init => OnlyBridged
  BY DEF Init, OnlyBridged, Step
<1>2. TypeOK /\ OnlyBridged /\ [Next]_vars => OnlyBridged'
  <2> SUFFICES ASSUME TypeOK, OnlyBridged, [Next]_vars PROVE OnlyBridged'
    OBVIOUS
  <2>1. LegsStep
    BY LegsMove, LegsRest DEF vars
  <2> QED
    BY <2>1 DEF OnlyBridged, LegsStep
<1> QED
  BY TypeCorrect, <1>1, <1>2, PTL DEF Spec

\* A webhook on its way stays so until a handler takes it, or a hangup cuts its speech short.
TakenBy(h, e) ==
  CallerGone(h, e) \/ CallerTold(h, e) \/ Answered(h, e) \/ Briefed(h, e) \/ OperatorGone(h, e)

LEMMA EventsMove ==
  ASSUME TypeOK, Next, NEW e, Coming(e), ~WillCome(e)
  PROVE  CutShort(e) \/ \E h \in Hook : TakenBy(h, e)
<1> USE DEF Coming, WillCome
<1>0. IsABag(events)
  BY DEF TypeOK
<1>1. ASSUME NEW r \in Request, Transfer(r) PROVE FALSE
  <2>1. events' = events \/ \E l, s : events' = events (+) EventOf("said", l, s)
    BY <1>1 DEF Transfer, Check, Write, ParkIntent, StopStream, Tell, Speak, Clear, Commit, Release
  <2> QED
    BY <1>0, <2>1, BagGrows DEF EventOf
<1>2. ASSUME NEW l \in Leg, HangUp(l) PROVE FALSE
  <2>1. events' = events \/ \E es : events' = events (+) SetToBag(es)
    BY <1>2 DEF HangUp, End
  <2> QED
    BY <1>0, <2>1, BagGrows
<1>3. ASSUME NEW a \in Actor, Rings(a) PROVE FALSE
  BY <1>2, <1>3 DEF Rings, Dial, Link, Drop
<1>4. ASSUME NEW h \in Hook, Handles(h) PROVE TakenBy(h, e)
  <2>1. ASSUME NEW d \in BagToSet(events), TakenBy(h, d) PROVE TakenBy(h, e)
    <3>1. events' = events \/ events' = events (-) SetToBag({d})
      BY <2>1 DEF TakenBy, CallerGone, CallerTold, Answered, Briefed, OperatorGone, Takes
    <3>2. e = d
      BY <1>0, <3>1, BagKeeps
    <3> QED
      BY <2>1, <3>2
  <2>2. CASE Brief(h) \/ Apologise(h)
    <3>1. events' = events \/ \E l, s : events' = events (+) EventOf("said", l, s)
      BY <2>2 DEF Brief, Apologise, Speak
    <3> QED
      BY <1>0, <3>1, BagGrows DEF EventOf
  <2>3. CASE Bridge(h) \/ BriefingRaises(h)
    BY <2>3 DEF Bridge, BriefingRaises
  <2>4. CASE Free(h)
    BY <1>2, <2>4 DEF Free, TypeOK, Job
  <2> QED
    BY <1>4, <2>1, <2>2, <2>3, <2>4 DEF Handles, TakenBy
<1>5. CASE Edge
  BY <1>2, <1>5 DEF Edge, PipelineEnds, Finalize, Judge, Close
<1>6. CASE World
  <2>1. ASSUME NEW l \in Operator, OperatorAnswers(l) PROVE FALSE
    BY <1>0, <2>1, BagGrows DEF OperatorAnswers, EventOf
  <2>2. ASSUME NEW l \in Leg, LegEnds(l) PROVE FALSE
    BY <1>0, <2>2, BagGrows DEF LegEnds, End
  <2>3. ASSUME NEW d \in BagToSet(events), CutShort(d) PROVE CutShort(e)
    <3>1. events' = events (-) SetToBag({d})
      BY <2>3 DEF CutShort
    <3>2. e = d
      BY <1>0, <3>1, BagKeeps
    <3> QED
      BY <2>3, <3>2
  <2>4. CASE Expires
    BY <2>4 DEF Expires
  <2> QED
    BY <1>6, <2>1, <2>2, <2>3, <2>4 DEF World
<1> QED
  BY <1>1, <1>3, <1>4, <1>5, <1>6 DEF Next

\* What a job that moves leaves behind: the next step of its path, a webhook to come, or
\* what it was there to do.
Dialled == \E l \in Operator : leg[l] # "none"

JobStep(a) ==
  LET j == job[a]
      k == job'[a]
  IN /\ j.do = "stopping"    => k.do \in {"telling", "dialling", "clearing"}
     /\ j.do = "telling"     => k.do = "dropping" \/ WillCome(Said(Caller, "message"))
     /\ j.do = "dialling"    => k.do = "dropping" \/ (k.do = "linking" /\ Dialled')
     /\ j.do = "dropping"    => leg'[Caller] # "up" \/ Caller \in givenUp'
     /\ j.do = "clearing"    => intent' = None
     /\ j.do = "apologising" => k.do = "dropping" \/ WillCome(Said(Caller, "fallback"))
     /\ j.do = "briefing"    => \/ k.do = "bridging" /\ k.leg = j.leg
                                \/ WillCome(Said(j.leg, "briefing")) \/ j.leg \in givenUp'
     /\ j.do = "bridging"    => (k.do = "freeing" /\ k.leg = j.leg) \/ leg'[j.leg] = "bridged"
     /\ j.do = "freeing"     => leg'[j.leg] # "up" \/ j.leg \in givenUp'
     /\ k.do = "linking"     => Dialled'

LEMMA SpeakReports ==
  ASSUME TypeOK, NEW l, NEW s, NEW how, how # "refused", Speak(l, s, how)
  PROVE  WillCome(Said(l, s))
BY BagGrows DEF Speak, EventOf, TypeOK, WillCome, Said

LEMMA JobsMove ==
  ASSUME TypeOK, OnlyBridged, Next, NEW a \in Actor, job'[a] # job[a]
  PROVE  JobStep(a)
<1> USE DEF Do
<1>0. job \in [Actor -> Job]
  BY DEF TypeOK
<1>1. ASSUME NEW r \in Request, Transfer(r) PROVE JobStep(a)
  <2>1. a = r
    BY <1>0, <1>1 DEF Transfer, Check, Write, ParkIntent, StopStream, Tell, Clear, Commit, Release,
       Follows, Goes
  <2>2. CASE Check(r)
    BY <1>0, <2>1, <2>2 DEF Check, JobStep
  <2>3. CASE Write(r)
    BY <1>0, <2>1, <2>3, GoesOn DEF Write, JobStep, Finished
  <2>4. CASE ParkIntent(r)
    BY <1>0, <2>1, <2>4, GoesOn DEF ParkIntent, JobStep, Finished
  <2>5. CASE StopStream(r)
    <3>1. PICK do \in {"telling", "dialling", "clearing"} : Goes(r, do)
      BY <2>5 DEF StopStream, Follows
    <3>2. job'[r].do = do
      BY <1>0, <3>1, GoesOn DEF Finished
    <3> QED
      BY <2>1, <2>5, <3>2 DEF StopStream, JobStep
  <2>6. CASE Tell(r)
    <3>1. PICK how \in How : /\ Speak(Caller, "message", how)
                             /\ Goes(r, IF how = "done" THEN "committing" ELSE "dropping")
      BY <2>6 DEF Tell, Follows
    <3>2. job'[r].do = IF how = "done" THEN "committing" ELSE "dropping"
      BY <1>0, <3>1, GoesOn DEF Finished
    <3>3. how = "done" => WillCome(Said(Caller, "message"))
      BY <3>1, SpeakReports
    <3> QED
      BY <2>1, <2>6, <3>2, <3>3 DEF Tell, JobStep
  <2>7. CASE Clear(r)
    BY <1>0, <2>1, <2>7, GoesOn DEF Clear, JobStep, Finished
  <2>8. CASE Commit(r) \/ Release(r)
    BY <1>0, <2>1, <2>8, GoesTyped DEF Commit, Release, JobStep
  <2> QED
    BY <1>1, <2>2, <2>3, <2>4, <2>5, <2>6, <2>7, <2>8 DEF Transfer
<1>2. ASSUME NEW b \in Actor, Rings(b) PROVE JobStep(a)
  <2>1. ASSUME NEW l \in Operator, Dial(b, l) PROVE JobStep(a)
    <3>1. a = b
      BY <1>0, <2>1 DEF Dial
    <3>2. PICK how \in How :
            /\ how # "refused" => leg' = [leg EXCEPT ![l] = "ringing"]
            /\ job' = [job EXCEPT ![b].do = IF how = "done" THEN "linking" ELSE Undialled,
                                  ![b].leg = IF how = "done" THEN l ELSE None]
      BY <2>1 DEF Dial
    <3>3. job[a].do = "dialling" /\ job'[a].do = IF how = "done" THEN "linking" ELSE "dropping"
      BY <1>0, <2>1, <3>1, <3>2 DEF Dial, Undialled, Job
    <3>4. how = "done" => Dialled'
      BY <3>2 DEF Dialled, TypeOK
    <3> QED
      BY <3>3, <3>4 DEF JobStep
  <2>2. CASE Link(b)
    BY <1>0, <2>2, GoesTyped DEF Link, Linked, Goes, JobStep
  <2>3. CASE Drop(b)
    <3>1. a = b /\ job[a].do = "dropping" /\ (leg'[Caller] # "up" \/ Caller \in givenUp')
      BY <1>0, <2>3, HangUpSteps DEF Drop, Goes
    <3>2. job'[a].do # "linking"
      BY <1>0, <2>3, <3>1, GoesTyped DEF Drop
    <3> QED
      BY <3>1, <3>2 DEF JobStep
  <2> QED
    BY <1>2, <2>1, <2>2, <2>3 DEF Rings
<1>3. ASSUME NEW h \in Hook, Handles(h) PROVE JobStep(a)
  <2>1. ASSUME NEW e \in BagToSet(events), TakenBy(h, e) PROVE JobStep(a)
    <3>1. a = h /\ job[a].do = "idle"
      BY <1>0, <2>1 DEF TakenBy, CallerGone, CallerTold, Answered, Briefed, OperatorGone, Takes, Turns, Goes
    <3>2. job'[a].do # "linking"
      BY <1>0, <2>1, <3>1 DEF TakenBy, CallerGone, CallerTold, Answered, Briefed, OperatorGone, Turns, Goes,
         Rests, Job
    <3> QED
      BY <3>1, <3>2 DEF JobStep
  <2>2. CASE Brief(h)
    <3>1. PICK how \in How : /\ Speak(job[h].leg, "briefing", how)
                             /\ Goes(h, IF how = "done" THEN "idle" ELSE "bridging")
      BY <2>2 DEF Brief, Follows
    <3>2. a = h /\ job[a].do = "briefing"
      BY <1>0, <2>2, <3>1 DEF Brief, Goes
    <3>3. CASE how = "done"
      <4>1. WillCome(Said(job[a].leg, "briefing"))
        BY <3>1, <3>2, <3>3, SpeakReports
      <4>2. job'[a].do = "idle"
        BY <1>0, <3>1, <3>2, <3>3, GoesTyped
      <4> QED
        BY <3>2, <4>1, <4>2 DEF JobStep
    <3>4. CASE how # "done"
      <4>1. job'[a].do = "bridging" /\ job'[a].leg = job[a].leg
        BY <1>0, <3>1, <3>2, <3>4, GoesOn DEF Finished
      <4> QED
        BY <3>2, <4>1 DEF JobStep
    <3> QED
      BY <3>3, <3>4
  <2>3. CASE Bridge(h)
    <3>1. PICK how \in How :
            /\ how = "done" => leg' = [m \in Leg |-> IF m \in {job[h].leg, Caller} THEN "bridged"
                                                     ELSE IF leg[m] = "bridged" THEN "gone" ELSE leg[m]]
            /\ Goes(h, IF how = "done" THEN "idle" ELSE "freeing")
      BY <2>3 DEF Bridge, Follows, Unbridged
    <3>2. a = h /\ job[a].do = "bridging" /\ job[a].leg \in Operator
      BY <1>0, <2>3, <3>1 DEF Bridge, Goes, Job
    <3>3. CASE how = "done"
      <4>1. leg'[job[a].leg] = "bridged" /\ job'[a].do = "idle"
        BY <1>0, <3>1, <3>2, <3>3, GoesTyped
      <4> QED
        BY <3>2, <4>1 DEF JobStep
    <3>4. CASE how # "done"
      <4>1. job'[a].do = "freeing" /\ job'[a].leg = job[a].leg
        BY <1>0, <3>1, <3>2, <3>4, GoesOn DEF Finished
      <4> QED
        BY <3>2, <4>1 DEF JobStep
    <3> QED
      BY <3>3, <3>4
  <2>4. CASE Free(h)
    <3>1. a = h /\ job[a].do = "freeing" /\ job[a].leg \in Operator
      BY <1>0, <2>4 DEF Free, Goes, Job
    <3>2. (leg'[job[a].leg] # "up" \/ job[a].leg \in givenUp') /\ job'[a].do = "idle"
      BY <1>0, <2>4, <3>1, HangUpSteps, GoesTyped DEF Free
    <3> QED
      BY <3>1, <3>2 DEF JobStep
  <2>5. CASE Apologise(h)
    <3>1. PICK how \in How : /\ Speak(Caller, "fallback", how)
                             /\ Goes(h, IF how = "done" THEN "idle" ELSE "dropping")
      BY <2>5 DEF Apologise, Follows
    <3>2. a = h /\ job[a].do = "apologising"
      BY <1>0, <2>5, <3>1 DEF Apologise, Goes
    <3>3. how = "done" => WillCome(Said(Caller, "fallback"))
      BY <3>1, SpeakReports
    <3>4. job'[a].do = IF how = "done" THEN "idle" ELSE "dropping"
      BY <1>0, <3>1, <3>2, GoesTyped
    <3> QED
      BY <3>2, <3>3, <3>4 DEF JobStep
  <2>6. CASE BriefingRaises(h)
    <3>1. a = h /\ job[a].do = "briefing"
      BY <1>0, <2>6 DEF BriefingRaises, Goes
    <3>2. job'[a].do = "idle" /\ job[a].leg \in givenUp'
      BY <1>0, <2>6, <3>1, GoesTyped DEF BriefingRaises
    <3> QED
      BY <3>1, <3>2 DEF JobStep
  <2> QED
    BY <1>3, <2>1, <2>2, <2>3, <2>4, <2>5, <2>6 DEF Handles, TakenBy
<1>4. ~Edge /\ ~World
  BY DEF Edge, World, PipelineEnds, Finalize, Judge, Close, OperatorAnswers, LegEnds, CutShort, Expires
<1> QED
  BY <1>1, <1>2, <1>3, <1>4 DEF Next

-----------------------------------------------------------------------------
(* Nobody is left on a silent line                                         *)

\* Somebody is about to see to an operator on the line alone: the handler of its answer or
\* of its briefing's end, which is on its way or at work.  Or such a handler gave it up.
Minds(h, l) == job[h].leg = l /\ job[h].do \in {"briefing", "bridging", "freeing"}

Minded ==
  \A l \in Operator : leg[l] = "up" =>
    \/ Coming(Picked(l)) \/ Coming(Said(l, "briefing")) \/ l \in givenUp
    \/ \E h \in Hook : Minds(h, l)

\* Somebody is about to hang the caller up, or was refused it.
Doomed ==
  \/ Caller \in givenUp
  \/ \E a \in Actor : job[a].do \in {"dropping", "apologising"}
  \/ Coming(Said(Caller, "fallback"))
  \/ \E l \in Operator, s \in {"operator", "briefing", None} : Coming(Hangup(l, s))

\* An operator who left a caller alone dooms that caller.
GoneDooms == leg[Caller] = "up" /\ (\E l \in Operator : leg[l] = "gone") => Doomed

\* Somebody is about to ring an operator, or to hang the caller up.
Owed == Doomed \/ Coming(Said(Caller, "message")) \/ \E a \in Actor : job[a].do = "dialling"

\* A request that has parked its intent and not yet passed the transfer on.
Before == {"stopping", "telling", "dialling", "linking", "dropping", "clearing"}

\* A parked intent that no request still works on has been passed on: to an operator's
\* leg, to the handler of its message's end, or to who hangs the caller up.  So has that
\* of a caller whom the end of the stream left on the line.
Carried ==
  /\ \A a \in Actor : job[a].do = "linking" => Dialled
  /\ leg[Caller] = "up" /\ intent # None /\ (\A r \in Request : job[r].do \notin Before) => Dialled \/ Owed
  /\ leg[Caller] = "up" /\ stream = "over" /\ late = {} => Dialled \/ Owed

\* A leg given up is a matter of history.
LEMMA GivenUpStays ==
  ASSUME Next
  PROVE  givenUp \subseteq givenUp'
<1>1. \A l : HangUp(l) => givenUp \subseteq givenUp'
  BY DEF HangUp
<1>2. ASSUME NEW r \in Request, Transfer(r) PROVE givenUp' = givenUp
  BY <1>2 DEF Transfer, Check, Write, ParkIntent, StopStream, Tell, Clear, Commit, Release
<1>3. ASSUME NEW a \in Actor, Rings(a) PROVE givenUp \subseteq givenUp'
  BY <1>1, <1>3 DEF Rings, Dial, Link, Drop
<1>4. ASSUME NEW h \in Hook, Handles(h) PROVE givenUp \subseteq givenUp'
  BY <1>1, <1>4 DEF Handles, CallerGone, CallerTold, Answered, Briefed, OperatorGone, Brief, BriefingRaises,
     Bridge, Free, Apologise
<1>5. CASE Edge \/ World
  BY <1>1, <1>5 DEF Edge, World, PipelineEnds, Finalize, Judge, Close, OperatorAnswers, LegEnds, CutShort, Expires
<1> QED
  BY <1>2, <1>3, <1>4, <1>5 DEF Next

LEMMA MindedKept ==
  ASSUME TypeOK, OnlyBridged, Minded, Next
  PROVE  Minded'
<1> SUFFICES ASSUME NEW l \in Operator, leg'[l] = "up"
             PROVE  \/ WillCome(Picked(l)) \/ WillCome(Said(l, "briefing")) \/ l \in givenUp'
                    \/ \E h \in Hook : Minds(h, l)'
  BY DEF Minded, Coming, WillCome
<1>1. LegsStep
  BY LegsMove
<1>2. job' \in [Actor -> Job]
  BY NextTyped DEF TypeOK
<1>3. CASE leg[l] # "up"
  BY <1>1, <1>3 DEF LegsStep
<1>4. CASE Coming(Picked(l)) /\ ~WillCome(Picked(l))
  <2>1. CutShort(Picked(l)) \/ \E h \in Hook : TakenBy(h, Picked(l))
    BY <1>4, EventsMove
  <2>2. ~CutShort(Picked(l))
    BY DEF CutShort, Picked
  <2>3. PICK h \in Hook : Answered(h, Picked(l))
    BY <2>1, <2>2 DEF TakenBy, CallerGone, CallerTold, Briefed, OperatorGone, Picked
  <2>4. job' = [job EXCEPT ![h] = [do |-> IF intent # None /\ kind[intent.of].warm THEN "briefing" ELSE "bridging",
                                   leg |-> l, of |-> None]]
    BY <2>3 DEF Answered, Turns, Picked
  <2>5. Minds(h, l)'
    BY <2>4 DEF Minds, TypeOK
  <2> QED
    BY <2>5
<1>5. CASE leg[l] = "up" /\ Coming(Said(l, "briefing")) /\ ~WillCome(Said(l, "briefing"))
  <2>1. CutShort(Said(l, "briefing")) \/ \E h \in Hook : TakenBy(h, Said(l, "briefing"))
    BY <1>5, EventsMove
  <2>2. ~CutShort(Said(l, "briefing"))
    BY <1>5 DEF CutShort, Said
  <2>3. PICK h \in Hook : Briefed(h, Said(l, "briefing"))
    BY <2>1, <2>2 DEF TakenBy, CallerGone, CallerTold, Answered, OperatorGone, Said
  <2>4. Minds(h, l)'
    BY <2>3 DEF Briefed, Turns, Said, Minds, TypeOK
  <2> QED
    BY <2>4
<1>6. ASSUME NEW h \in Hook, Minds(h, l), leg[l] = "up"
      PROVE  WillCome(Said(l, "briefing")) \/ Minds(h, l)' \/ l \in givenUp'
  <2>1. CASE job'[h] = job[h]
    BY <1>6, <2>1 DEF Minds
  <2>2. CASE job'[h] # job[h]
    <3>1. JobStep(h)
      BY <2>2, JobsMove
    <3> QED
      BY <1>6, <3>1 DEF Minds, JobStep
  <2> QED
    BY <2>1, <2>2
<1> QED
  BY <1>3, <1>4, <1>5, <1>6, GivenUpStays DEF Minded

\* Who is doomed stays so until the caller is hung up.
LEMMA DoomKept ==
  ASSUME TypeOK, OnlyBridged, Doomed, Next, leg'[Caller] = "up"
  PROVE  Doomed'
<1>0. leg[Caller] = "up"
  BY LegsMove DEF LegsStep
<1>1. ASSUME NEW a \in Actor, job[a].do \in {"dropping", "apologising"}
      PROVE  Doomed'
  <2>1. CASE job'[a] = job[a]
    BY <1>1, <2>1 DEF Doomed
  <2>2. CASE job'[a] # job[a]
    <3>1. JobStep(a)
      BY <2>2, JobsMove
    <3>2. job'[a].do = "dropping" \/ WillCome(Said(Caller, "fallback")) \/ Caller \in givenUp'
      BY <1>1, <3>1 DEF JobStep
    <3> QED
      BY <3>2 DEF Doomed, Coming, WillCome
  <2> QED
    BY <2>1, <2>2
<1>2. CASE Coming(Said(Caller, "fallback"))
  <2>1. CASE WillCome(Said(Caller, "fallback"))
    BY <2>1 DEF Doomed, Coming, WillCome
  <2>2. CASE ~WillCome(Said(Caller, "fallback"))
    <3>1. ~CutShort(Said(Caller, "fallback"))
      BY <1>0 DEF CutShort, Said
    <3>2. PICK h \in Hook : TakenBy(h, Said(Caller, "fallback"))
      BY <1>2, <2>2, <3>1, EventsMove
    <3>3. CallerTold(h, Said(Caller, "fallback"))
      BY <3>2 DEF TakenBy, CallerGone, Answered, Briefed, OperatorGone, Said
    <3>4. job' = [job EXCEPT ![h] = [do |-> "dropping", leg |-> None, of |-> Parked]]
      BY <3>3 DEF CallerTold, Turns, Said
    <3>5. job'[h].do = "dropping"
      BY <3>4 DEF TypeOK
    <3> QED
      BY <3>5 DEF Doomed
  <2> QED
    BY <2>1, <2>2
<1>3. ASSUME NEW l \in Operator, NEW s \in {"operator", "briefing", None}, Coming(Hangup(l, s))
      PROVE  Doomed'
  <2>1. CASE WillCome(Hangup(l, s))
    BY <2>1 DEF Doomed, Coming, WillCome
  <2>2. CASE ~WillCome(Hangup(l, s))
    <3>1. ~CutShort(Hangup(l, s))
      BY DEF CutShort, Hangup
    <3>2. PICK h \in Hook : TakenBy(h, Hangup(l, s))
      BY <1>3, <2>2, <3>1, EventsMove
    <3>3. OperatorGone(h, Hangup(l, s)) /\ s # "bridged"
      BY <3>2 DEF TakenBy, CallerGone, CallerTold, Answered, Briefed, Hangup, Step
    <3>4. \E do \in {"apologising", "dropping"} : Goes(h, do)
      BY <3>3 DEF OperatorGone, Hangup
    <3>5. job'[h].do \in {"apologising", "dropping"}
      BY <3>4, GoesOn DEF TypeOK, Do, Finished
    <3> QED
      BY <3>5 DEF Doomed
  <2> QED
    BY <2>1, <2>2
<1>4. CASE Caller \in givenUp
  BY <1>4, GivenUpStays DEF Doomed
<1> QED
  BY <1>1, <1>2, <1>3, <1>4 DEF Doomed

LEMMA GoneDoomsKept ==
  ASSUME TypeOK, OnlyBridged, GoneDooms, Next
  PROVE  GoneDooms'
<1> SUFFICES ASSUME leg'[Caller] = "up", NEW l \in Operator, leg'[l] = "gone"
             PROVE  Doomed'
  BY DEF GoneDooms
<1>1. LegsStep
  BY LegsMove
<1>2. leg[Caller] = "up"
  BY <1>1 DEF LegsStep
<1>3. CASE leg[l] = "gone"
  BY <1>2, <1>3, DoomKept DEF GoneDooms
<1>4. CASE leg[l] # "gone"
  <2>1. step[l] \in {"operator", "briefing", None}
    BY <1>2 DEF OnlyBridged, TypeOK, Step
  <2>2. WillCome(Hangup(l, step[l]))
    BY <1>1, <1>4 DEF LegsStep
  <2>3. PICK s \in {"operator", "briefing", None} : WillCome(Hangup(l, s))
    BY <2>1, <2>2
  <2> QED
    BY <2>3 DEF Doomed, Coming, WillCome
<1> QED
  BY <1>3, <1>4

\* A transfer that is owed stays so until an operator is rung or the caller hung up.
LEMMA OwedKept ==
  ASSUME TypeOK, OnlyBridged, Dialled \/ Owed, Next, leg'[Caller] = "up"
  PROVE  Dialled' \/ Owed'
<1>0. LegsStep /\ leg[Caller] = "up"
  BY LegsMove DEF LegsStep
<1>1. CASE Dialled
  BY <1>0, <1>1 DEF Dialled, LegsStep
<1>2. CASE Doomed
  BY <1>2, DoomKept DEF Owed
<1>3. CASE Coming(Said(Caller, "message"))
  <2>1. CASE WillCome(Said(Caller, "message"))
    BY <2>1 DEF Owed, Coming, WillCome
  <2>2. CASE ~WillCome(Said(Caller, "message"))
    <3>1. ~CutShort(Said(Caller, "message"))
      BY <1>0 DEF CutShort, Said
    <3>2. PICK h \in Hook : TakenBy(h, Said(Caller, "message"))
      BY <1>3, <2>2, <3>1, EventsMove
    <3>3. CallerTold(h, Said(Caller, "message"))
      BY <3>2 DEF TakenBy, CallerGone, Answered, Briefed, OperatorGone, Said
    <3>4. PICK do \in {"dialling", "dropping"} : job' = [job EXCEPT ![h] = [do |-> do, leg |-> None, of |-> Parked]]
      BY <3>3 DEF CallerTold, Turns
    <3>5. job'[h].do \in {"dialling", "dropping"}
      BY <3>4 DEF TypeOK
    <3> QED
      BY <3>5 DEF Owed, Doomed
  <2> QED
    BY <2>1, <2>2
<1>4. ASSUME NEW a \in Actor, job[a].do = "dialling"
      PROVE  Dialled' \/ Owed'
  <2>1. CASE job'[a] = job[a]
    BY <1>4, <2>1 DEF Owed
  <2>2. CASE job'[a] # job[a]
    <3>1. JobStep(a)
      BY <2>2, JobsMove
    <3> QED
      BY <1>4, <3>1 DEF JobStep, Owed, Doomed
  <2> QED
    BY <2>1, <2>2
<1> QED
  BY <1>1, <1>2, <1>3, <1>4 DEF Owed

\* An intent comes into being with a request that goes on to stop the stream, or with the
\* leg of an operator.
LEMMA IntentMoves ==
  ASSUME TypeOK, Next, intent' # None
  PROVE  \/ intent # None \/ \E r \in Request : job'[r].do = "stopping"
         \/ \E a \in Actor : job[a].do = "linking"
<1>0. job \in [Actor -> Job]
  BY DEF TypeOK
<1>1. ASSUME NEW r \in Request, Transfer(r)
      PROVE  intent # None \/ job'[r].do = "stopping"
  <2>1. CASE ParkIntent(r)
    BY <1>0, <2>1, GoesOn DEF ParkIntent, Do, Finished
  <2> QED
    BY <1>1, <2>1 DEF Transfer, Check, Write, StopStream, Tell, Clear, Commit, Release, stored
<1>2. ASSUME NEW a \in Actor, Rings(a)
      PROVE  intent # None \/ job[a].do = "linking"
  BY <1>2 DEF Rings, Dial, Link, Drop
<1>3. ASSUME NEW h \in Hook, Handles(h)
      PROVE  intent # None
  BY <1>3 DEF Handles, CallerGone, CallerTold, Answered, Briefed, OperatorGone, Brief, BriefingRaises, Bridge,
     Free, Apologise
<1>4. CASE Edge \/ World
  BY <1>4 DEF Edge, World, PipelineEnds, Finalize, Judge, Close, OperatorAnswers, LegEnds, CutShort, Expires
<1> QED
  BY <1>1, <1>2, <1>3, <1>4 DEF Next

\* The stream's end leaves a caller on the line only for a parked intent, once the
\* transactions that would still clear it are over.
LEMMA StreamMoves ==
  ASSUME TypeOK, OnlyBridged, Next, stream' = "over", stream # "over"
  PROVE  leg'[Caller] # "up" \/ Caller \in givenUp' \/ Judge
<1>1. ASSUME NEW r \in Request, Transfer(r) PROVE FALSE
  BY <1>1 DEF Transfer, Check, Write, ParkIntent, StopStream, Tell, Clear, Commit, Release
<1>2. ASSUME NEW a \in Actor, Rings(a) PROVE FALSE
  BY <1>2 DEF Rings, Dial, Link, Drop, StreamFollows
<1>3. ASSUME NEW h \in Hook, Handles(h) PROVE FALSE
  BY <1>3 DEF Handles, CallerGone, CallerTold, Answered, Briefed, OperatorGone, Brief, BriefingRaises, Bridge,
     Free, Apologise, StreamFollows
<1>4. CASE Edge
  BY <1>4, HangUpSteps DEF Edge, PipelineEnds, Finalize, Close
<1>5. CASE World
  BY <1>5 DEF World, OperatorAnswers, LegEnds, CutShort, Expires, StreamFollows
<1> QED
  BY <1>1, <1>2, <1>3, <1>4, <1>5 DEF Next

LEMMA CarriedKept ==
  ASSUME EdgeInv, OnlyBridged, Carried, Next, late \subseteq late'
  PROVE  Carried'
<1>0. TypeOK /\ TypeOK'
  BY NextTyped DEF EdgeInv
<1>1. \A a \in Actor : job'[a].do = "linking" => Dialled'
  <2> SUFFICES ASSUME NEW a \in Actor, job'[a].do = "linking" PROVE Dialled'
    OBVIOUS
  <2>1. CASE job'[a] = job[a]
    BY <1>0, <2>1, LegsMove DEF Carried, Dialled, LegsStep
  <2>2. CASE job'[a] # job[a]
    BY <1>0, <2>2, JobsMove DEF JobStep
  <2> QED
    BY <2>1, <2>2
<1>2. ASSUME leg'[Caller] = "up", intent' # None, \A r \in Request : job'[r].do \notin Before
      PROVE  Dialled' \/ Owed'
  <2>1. leg[Caller] = "up"
    BY <1>0, <1>2, LegsMove DEF LegsStep
  <2>2. CASE Dialled \/ Owed
    BY <1>0, <1>2, <2>2, OwedKept
  <2>3. CASE \E a \in Actor : job[a].do = "linking"
    BY <1>0, <1>2, <2>3, OwedKept DEF Carried
  <2>4. ASSUME NEW r \in Request, job[r].do \in Before \ {"linking"}
        PROVE  Dialled' \/ Owed'
    <3>1. job'[r] # job[r]
      BY <1>2, <2>4
    <3>2. JobStep(r)
      BY <1>0, <3>1, JobsMove
    <3>3. WillCome(Said(Caller, "message")) \/ Caller \in givenUp'
      BY <1>2, <2>4, <3>2 DEF JobStep, Before
    <3> QED
      BY <3>3 DEF Owed, Doomed, Coming, WillCome
  <2>5. CASE intent = None /\ ~\E a \in Actor : job[a].do = "linking"
    BY <1>0, <1>2, <2>5, IntentMoves DEF Before
  <2> QED
    BY <2>1, <2>2, <2>3, <2>4, <2>5 DEF Carried
<1>3. ASSUME leg'[Caller] = "up", stream' = "over", late' = {}
      PROVE  Dialled' \/ Owed'
  <2>0. late = {}
    BY <1>3
  <2>1. leg[Caller] = "up"
    BY <1>0, <1>3, LegsMove DEF LegsStep
  <2>2. CASE stream = "over"
    BY <1>0, <1>3, <2>0, <2>1, <2>2, OwedKept DEF Carried
  <2>3. CASE stream # "over"
    <3> SUFFICES ASSUME Caller \notin givenUp' PROVE Dialled' \/ Owed'
      BY DEF Owed, Doomed
    <3>1. Judge
      BY <1>0, <1>3, <2>3, StreamMoves
    <3>2. intent # None /\ writer = None
      BY <1>3, <3>1 DEF Judge, EdgeInv, EndWaits
    <3>3. \A r \in Request : job[r].do \notin Holding
      BY <2>0, <3>2 DEF EdgeInv, RowHeld
    <3>4. Dialled \/ Owed
      BY <2>1, <3>2, <3>3 DEF Carried, Holding, Before
    <3> QED
      BY <1>0, <1>3, <3>4, OwedKept
  <2> QED
    BY <2>2, <2>3
<1> QED
  BY <1>1, <1>2, <1>3 DEF Carried

LEMMA LateStays == Next => late \subseteq late'
BY DEF Next, Transfer, Check, Write, ParkIntent, StopStream, Tell, Clear, Commit, Release, Rings, Dial,
   Link, Drop, Handles, CallerGone, CallerTold, Answered, Briefed, OperatorGone, Brief, BriefingRaises,
   Bridge, Free, Apologise, Edge, PipelineEnds, Finalize, Judge, Close, World, OperatorAnswers, LegEnds, CutShort, Expires

LeftInv == Minded /\ GoneDooms /\ Carried

\* Whoever is on a line alone is somebody's next business, or was given up: its hangup was
\* refused or its briefing raised.
THEOREM SomebodyMinds == Spec => []LeftInv
<1>1. Init => LeftInv
  BY DEF Init, LeftInv, Minded, GoneDooms, Carried, Rests
<1>2. EdgeInv /\ OnlyBridged /\ LeftInv /\ [Next]_vars => LeftInv'
  <2> SUFFICES ASSUME EdgeInv, OnlyBridged, LeftInv, [Next]_vars PROVE LeftInv'
    OBVIOUS
  <2>1. CASE Next
    BY <2>1, MindedKept, GoneDoomsKept, CarriedKept, LateStays DEF LeftInv, EdgeInv
  <2>2. CASE UNCHANGED vars
    BY <2>2 DEF vars, LeftInv, Minded, Minds, GoneDooms, Doomed, Carried, Owed, Dialled, Coming
  <2> QED
    BY <2>1, <2>2
<1> QED
  BY EdgeAgrees, LegsAgree, <1>1, <1>2, PTL DEF Spec

\* When nothing is on its way any more, the caller and every operator are talking or have
\* hung up, whichever commands failed, any number of them and hangups among them: but a leg
\* whose hangup was refused or whose briefing raised, and the caller of such an operator.
THEOREM NobodyLeftHolds == Spec => []NobodyLeft
<1>1. TypeOK /\ OnlyBridged /\ LeftInv => NobodyLeft
  <2> SUFFICES ASSUME TypeOK, OnlyBridged, LeftInv, AllDone, late = {}
               PROVE  \A l \in Leg :
                        \/ leg[l] \in {"none", "bridged", "gone"}
                        \/ l \in givenUp
                        \/ l = Caller /\ \E o \in Operator : leg[o] = "up" /\ o \in givenUp
    BY DEF NobodyLeft
  <2>1. /\ \A e : ~Coming(e)
        /\ \A a \in Actor : job[a].do \in {"idle", "done", "failed"}
        /\ \A l \in Operator : leg[l] # "ringing"
        /\ stream = "over"
    BY DEF AllDone, AtWork, Finished, Coming, EmptyBag, BagToSet, SetToBag
  <2>2. Doomed \/ Owed => Caller \in givenUp
    BY <2>1 DEF Doomed, Owed
  <2>3. \A l \in Operator : leg[l] = "up" => l \in givenUp
    BY <2>1 DEF LeftInv, Minded, Minds
  <2>4. ASSUME leg[Caller] = "up", Caller \notin givenUp
        PROVE  \E o \in Operator : leg[o] = "up" /\ o \in givenUp
    <3>1. PICK l \in Operator : leg[l] # "none"
      BY <2>1, <2>2, <2>4 DEF LeftInv, Carried, Dialled
    <3>2. leg[l] # "gone"
      BY <2>2, <2>4 DEF LeftInv, GoneDooms
    <3>3. leg[l] = "up"
      BY <2>1, <2>4, <3>1, <3>2 DEF OnlyBridged, TypeOK
    <3> QED
      BY <2>3, <3>3
  <2>5. leg[Caller] \in {"up", "bridged", "gone"} /\ \A l \in Operator : leg[l] \in {"none", "up", "bridged", "gone"}
    BY <2>1 DEF TypeOK, OnlyBridged
  <2> QED
    BY <2>3, <2>4, <2>5
<1> QED
  BY TypeCorrect, LegsAgree, SomebodyMinds, <1>1, PTL

-----------------------------------------------------------------------------
(* No operator is rung twice                                               *)

\* On its way to a dial: a request that has not dialled yet, or the handler of a message.
Ahead == {a \in Actor : job[a].do \in {"writing", "parking", "stopping", "telling", "dialling"}}
Rung  == {l \in Operator : leg[l] # "none"}
Told  == IF Coming(Said(Caller, "message")) THEN events[Said(Caller, "message")] ELSE 0

\* What has been asked for pays for what rings and what may still ring.
Paid ==
  /\ IsFiniteSet(Ahead) /\ IsFiniteSet(Rung) /\ IsFiniteSet(Asked)
  /\ Cardinality(Rung) + Cardinality(Ahead) + Told <= Cardinality(Asked)

RungInv == "again" \notin Happened => Paid

LEMMA ToldNat == ASSUME TypeOK PROVE Told \in Nat
BY DEF TypeOK, IsABag, Told, Coming, BagToSet

\* Webhooks other than the message's end leave its copies alone; taking it takes one.
LEMMA ToldGrows ==
  ASSUME TypeOK, NEW S, events' = events (+) SetToBag(S)
  PROVE  Told' = IF Said(Caller, "message") \in S THEN Told + 1 ELSE Told
BY DEF TypeOK, Told, Coming, IsABag, BagToSet, SetToBag, (+), Said

LEMMA ToldShrinks ==
  ASSUME TypeOK, NEW e, e \in BagToSet(events), events' = events (-) SetToBag({e})
  PROVE  Told' = IF e = Said(Caller, "message") THEN Told - 1 ELSE Told
BY DEF TypeOK, Told, Coming, IsABag, BagToSet, SetToBag, (-), Said

\* What a step adds to the account, it takes from the account, or a new request pays.
LEMMA PaidBy ==
  ASSUME Paid, Told \in Nat, Told' \in Nat,
         \/ Ahead' \subseteq Ahead /\ Rung' = Rung /\ Asked' = Asked /\ Told' <= Told
         \/ /\ \E a \in Ahead : Ahead' \subseteq Ahead \ {a}
            /\ Asked' = Asked
            /\ \/ Rung' = Rung /\ Told' <= Told + 1
               \/ Told' <= Told /\ \E l : Rung' = Rung \cup {l}
         \/ /\ \E a : Ahead' \subseteq Ahead \cup {a}
            /\ Asked' = Asked /\ Rung' = Rung /\ Told' <= Told - 1
         \/ /\ \E a : a \notin Asked /\ Ahead' \subseteq Ahead \cup {a} /\ Asked' = Asked \cup {a}
            /\ Rung' = Rung /\ Told' <= Told
  PROVE  Paid'
<1>0. /\ IsFiniteSet(Ahead) /\ IsFiniteSet(Rung) /\ IsFiniteSet(Asked)
      /\ Cardinality(Rung) + Cardinality(Ahead) + Told <= Cardinality(Asked)
      /\ Cardinality(Ahead) \in Nat /\ Cardinality(Rung) \in Nat /\ Cardinality(Asked) \in Nat
  BY FS_CardinalityType DEF Paid
<1>1. \A S : S \subseteq Ahead => IsFiniteSet(S) /\ Cardinality(S) \in Nat /\ Cardinality(S) <= Cardinality(Ahead)
  BY <1>0, FS_Subset, FS_CardinalityType
<1>2. \A a \in Ahead : \A S : S \subseteq Ahead \ {a} =>
        IsFiniteSet(S) /\ Cardinality(S) \in Nat /\ Cardinality(S) <= Cardinality(Ahead) - 1
  <2> SUFFICES ASSUME NEW a \in Ahead, NEW S, S \subseteq Ahead \ {a}
               PROVE  IsFiniteSet(S) /\ Cardinality(S) \in Nat /\ Cardinality(S) <= Cardinality(Ahead) - 1
    OBVIOUS
  <2>1. IsFiniteSet(Ahead \ {a}) /\ Cardinality(Ahead \ {a}) = Cardinality(Ahead) - 1
    BY <1>0, FS_RemoveElement
  <2> QED
    BY <2>1, FS_Subset, FS_CardinalityType
<1>3. \A T : IsFiniteSet(T) => \A a :
        /\ IsFiniteSet(T \cup {a}) /\ Cardinality(T \cup {a}) \in Nat
        /\ Cardinality(T \cup {a}) <= Cardinality(T) + 1
        /\ a \notin T => Cardinality(T \cup {a}) = Cardinality(T) + 1
  <2> SUFFICES ASSUME NEW T, IsFiniteSet(T), NEW a
               PROVE  /\ IsFiniteSet(T \cup {a}) /\ Cardinality(T \cup {a}) \in Nat
                      /\ Cardinality(T \cup {a}) <= Cardinality(T) + 1
                      /\ a \notin T => Cardinality(T \cup {a}) = Cardinality(T) + 1
    OBVIOUS
  <2>1. /\ IsFiniteSet(T \cup {a})
        /\ Cardinality(T \cup {a}) = IF a \in T THEN Cardinality(T) ELSE Cardinality(T) + 1
    BY FS_AddElement
  <2>2. Cardinality(T) \in Nat
    BY FS_CardinalityType
  <2> QED
    BY <2>1, <2>2
<1>4. \A a : \A S : S \subseteq Ahead \cup {a} =>
        IsFiniteSet(S) /\ Cardinality(S) \in Nat /\ Cardinality(S) <= Cardinality(Ahead) + 1
  <2> SUFFICES ASSUME NEW a, NEW S, S \subseteq Ahead \cup {a}
               PROVE  IsFiniteSet(S) /\ Cardinality(S) \in Nat /\ Cardinality(S) <= Cardinality(Ahead) + 1
    OBVIOUS
  <2>1. /\ IsFiniteSet(Ahead \cup {a}) /\ Cardinality(Ahead \cup {a}) \in Nat
        /\ Cardinality(Ahead \cup {a}) <= Cardinality(Ahead) + 1
    BY <1>0, <1>3
  <2>2. IsFiniteSet(S) /\ Cardinality(S) \in Nat /\ Cardinality(S) <= Cardinality(Ahead \cup {a})
    BY <2>1, FS_Subset, FS_CardinalityType
  <2> QED
    BY <1>0, <2>1, <2>2
<1>5. /\ IsFiniteSet(Ahead') /\ IsFiniteSet(Rung') /\ IsFiniteSet(Asked')
      /\ Cardinality(Rung') + Cardinality(Ahead') + Told' <= Cardinality(Asked')
  <2> HIDE DEF Ahead, Rung, Asked, Told
  <2>1. CASE Ahead' \subseteq Ahead /\ Rung' = Rung /\ Asked' = Asked /\ Told' <= Told
    BY <1>0, <1>1, <2>1
  <2>2. CASE /\ \E a \in Ahead : Ahead' \subseteq Ahead \ {a}
             /\ Asked' = Asked
             /\ \/ Rung' = Rung /\ Told' <= Told + 1
                \/ Told' <= Told /\ \E l : Rung' = Rung \cup {l}
    <3>1. IsFiniteSet(Ahead') /\ Cardinality(Ahead') \in Nat /\ Cardinality(Ahead') <= Cardinality(Ahead) - 1
      BY <1>2, <2>2
    <3>2. CASE Rung' = Rung /\ Told' <= Told + 1
      BY <1>0, <2>2, <3>1, <3>2
    <3>3. CASE Told' <= Told /\ \E l : Rung' = Rung \cup {l}
      <4>1. IsFiniteSet(Rung') /\ Cardinality(Rung') \in Nat /\ Cardinality(Rung') <= Cardinality(Rung) + 1
        BY <1>0, <1>3, <3>3
      <4> QED
        BY <1>0, <2>2, <3>1, <3>3, <4>1
    <3> QED
      BY <2>2, <3>2, <3>3
  <2>3. CASE /\ \E a : Ahead' \subseteq Ahead \cup {a}
             /\ Asked' = Asked /\ Rung' = Rung /\ Told' <= Told - 1
    <3>1. IsFiniteSet(Ahead') /\ Cardinality(Ahead') \in Nat /\ Cardinality(Ahead') <= Cardinality(Ahead) + 1
      BY <1>4, <2>3
    <3> QED
      BY <1>0, <2>3, <3>1
  <2>4. CASE /\ \E a : a \notin Asked /\ Ahead' \subseteq Ahead \cup {a} /\ Asked' = Asked \cup {a}
             /\ Rung' = Rung /\ Told' <= Told
    <3>1. IsFiniteSet(Ahead') /\ Cardinality(Ahead') \in Nat /\ Cardinality(Ahead') <= Cardinality(Ahead) + 1
      BY <1>4, <2>4
    <3>2. IsFiniteSet(Asked') /\ Cardinality(Asked') = Cardinality(Asked) + 1
      BY <1>0, <1>3, <2>4
    <3> QED
      BY <1>0, <2>4, <3>1, <3>2
  <2> QED
    BY <2>1, <2>2, <2>3, <2>4
<1> QED
  BY <1>5 DEF Paid

LEMMA EndRings ==
  ASSUME TypeOK, NEW l \in Leg, OnLine(l), End(l)
  PROVE  Rung' = Rung /\ Told' = Told
<1> DEFINE ls == IF leg[l] = "bridged" THEN {m \in Leg : leg[m] = "bridged"} ELSE {l}
           es == {[type |-> "hangup", leg |-> m,
                   step |-> IF m = Caller THEN None ELSE step[m]] : m \in ls}
<1>1. leg' = [m \in Leg |-> IF m \in ls THEN "gone" ELSE leg[m]] /\ events' = events (+) SetToBag(es)
  BY DEF End
<1>2. \A m \in ls : leg[m] # "none"
  BY DEF OnLine
<1>3. Said(Caller, "message") \notin es
  BY DEF Said
<1> HIDE DEF ls, es
<1>4. Rung' = Rung
  BY <1>1, <1>2 DEF Rung
<1> QED
  BY <1>1, <1>3, <1>4, ToldGrows

LEMMA HangUpRings ==
  ASSUME TypeOK, NEW l \in Leg, HangUp(l)
  PROVE  Rung' = Rung /\ Told' = Told
<1>1. CASE OnLine(l) /\ End(l)
  BY <1>1, EndRings
<1>2. CASE UNCHANGED <<leg, events>>
  BY <1>2 DEF Rung, Told, Coming
<1> QED
  BY <1>1, <1>2 DEF HangUp

LEMMA SpeakRings ==
  ASSUME TypeOK, NEW l, NEW s, NEW how, Speak(l, s, how)
  PROVE  /\ Told' = Told \/ Told' = Told + 1
         /\ Told' # Told => how # "refused" /\ l = Caller /\ s = "message"
<1>1. CASE how = "refused"
  BY <1>1 DEF Speak, Told, Coming
<1>2. CASE how # "refused"
  <2>1. events' = events (+) SetToBag({Said(l, s)})
    BY <1>2 DEF Speak, EventOf, Said
  <2>2. Told' = IF Said(Caller, "message") \in {Said(l, s)} THEN Told + 1 ELSE Told
    BY <2>1, ToldGrows
  <2> QED
    BY <1>2, <2>2 DEF Said
<1> QED
  BY <1>1, <1>2

LEMMA PaidKept ==
  ASSUME TypeOK, OnlyBridged, Paid, Next, "again" \notin Happened'
  PROVE  Paid'
<1> USE DEF Do
<1>0. job \in [Actor -> Job] /\ Told \in Nat /\ Told' \in Nat
  <2>1. IsABag(events')
    BY NextTyped DEF TypeOK
  <2>2. Told' \in Nat
    BY <2>1 DEF IsABag, Told, Coming, BagToSet
  <2> QED
    BY <2>2, ToldNat DEF TypeOK
<1>1. ASSUME NEW r \in Request, Transfer(r) PROVE Paid'
  <2>0. r \in Actor /\ Rung' = Rung
    BY <1>1 DEF Transfer, Check, Write, ParkIntent, StopStream, Tell, Clear, Commit, Release, Rung
  <2>1. CASE Check(r)
    <3>1. job[r].do = "idle" /\ job'[r].do = "writing" /\ \A b \in Actor \ {r} : job'[b] = job[b]
      BY <1>0, <2>1 DEF Check
    <3>2. r \notin Asked /\ Asked' = Asked \cup {r} /\ Ahead' \subseteq Ahead \cup {r}
      BY <3>1 DEF Asked, Ahead
    <3>3. Told' = Told
      BY <2>1 DEF Check, Told, Coming
    <3> QED
      BY <1>0, <2>0, <3>2, <3>3, PaidBy
  <2>2. CASE Write(r) \/ ParkIntent(r) \/ Clear(r) \/ Commit(r) \/ Release(r) \/ StopStream(r)
    <3>1. PICK do \in Do \ {"idle"} :
            /\ Goes(r, do)
            /\ \/ job[r].do \in {"writing", "parking", "stopping"}
               \/ /\ job[r].do \in {"clearing", "committing", "releasing"}
                  /\ do \in {"releasing", "done", "failed"}
      BY <2>2 DEF Write, ParkIntent, Clear, Commit, Release, StopStream, Follows
    <3>3. job'[r].do = do /\ \A b \in Actor \ {r} : job'[b] = job[b]
      BY <1>0, <3>1 DEF Goes, Finished, Rests, Job
    <3>4. Asked' = Asked /\ Ahead' \subseteq Ahead
      BY <3>1, <3>3 DEF Asked, Ahead
    <3>5. Told' = Told
      BY <2>2 DEF Write, ParkIntent, Clear, Commit, Release, StopStream, Told, Coming
    <3> QED
      BY <1>0, <2>0, <3>4, <3>5, PaidBy
  <2>3. CASE Tell(r)
    <3>1. PICK how \in How : /\ Speak(Caller, "message", how)
                             /\ Goes(r, IF how = "done" THEN "committing" ELSE "dropping")
      BY <2>3 DEF Tell, Follows
    <3>2. job[r].do = "telling" /\ job'[r].do \in {"committing", "dropping"} /\ \A b \in Actor \ {r} : job'[b] = job[b]
      BY <1>0, <2>3, <3>1, GoesTyped DEF Tell
    <3>3. r \in Ahead /\ Ahead' \subseteq Ahead \ {r} /\ Asked' = Asked
      BY <3>2 DEF Ahead, Asked
    <3>4. Told' <= Told + 1
      BY <1>0, <3>1, SpeakRings
    <3> QED
      BY <1>0, <2>0, <3>3, <3>4, PaidBy
  <2> QED
    BY <1>1, <2>1, <2>2, <2>3 DEF Transfer
<1>2. ASSUME NEW a \in Actor, Rings(a) PROVE Paid'
  <2>1. ASSUME NEW l \in Operator, Dial(a, l) PROVE Paid'
    <3>1. PICK how \in How :
            /\ IF how = "refused" THEN leg' = leg ELSE leg' = [leg EXCEPT ![l] = "ringing"]
            /\ job' = [job EXCEPT ![a].do = IF how = "done" THEN "linking" ELSE Undialled,
                                  ![a].leg = IF how = "done" THEN l ELSE None]
      BY <2>1 DEF Dial
    <3>2. /\ job[a].do = "dialling" /\ job'[a].do \in {"linking", "dropping"}
          /\ \A b \in Actor \ {a} : job'[b] = job[b]
      BY <1>0, <2>1, <3>1 DEF Dial, Undialled, Job
    <3>3. a \in Ahead /\ Ahead' \subseteq Ahead \ {a} /\ Asked' = Asked
      BY <3>2 DEF Ahead, Asked
    <3>4. Rung' = Rung \/ Rung' = Rung \cup {l}
      BY <3>1 DEF Rung, TypeOK
    <3>5. Told' = Told
      BY <2>1 DEF Dial, Told, Coming
    <3> QED
      BY <1>0, <3>3, <3>4, <3>5, PaidBy
  <2>2. CASE Link(a)
    <3>1. /\ job[a].do = "linking" /\ job'[a].do = Linked(a) /\ \A b \in Actor \ {a} : job'[b] = job[b]
      BY <1>0, <2>2, GoesTyped DEF Link, Linked
    <3>2. Asked' = Asked /\ Ahead' \subseteq Ahead
      BY <3>1 DEF Linked, Asked, Ahead
    <3>3. Rung' = Rung /\ Told' = Told
      BY <2>2 DEF Link, Rung, Told, Coming
    <3> QED
      BY <1>0, <3>2, <3>3, PaidBy
  <2>3. CASE Drop(a)
    <3>1. /\ job[a].do = "dropping" /\ job'[a].do = IF a \in Request THEN "clearing" ELSE "idle"
          /\ \A b \in Actor \ {a} : job'[b] = job[b]
      BY <1>0, <2>3, GoesTyped DEF Drop
    <3>2. Asked' = Asked /\ Ahead' \subseteq Ahead
      BY <3>1 DEF Asked, Ahead
    <3> QED
      BY <1>0, <2>3, <3>2, HangUpRings, PaidBy DEF Drop
  <2> QED
    BY <1>2, <2>1, <2>2, <2>3 DEF Rings
<1>3. ASSUME NEW h \in Hook, Handles(h) PROVE Paid'
  <2>0. Asked' = Asked
    <3>1. \A r \in Request : job'[r] = job[r]
      BY <1>0, <1>3 DEF Handles, CallerGone, CallerTold, Answered, Briefed, OperatorGone, Turns, Goes,
         Brief, BriefingRaises, Bridge, Free, Apologise, Follows
    <3> QED
      BY <3>1 DEF Asked
  <2>1. ASSUME NEW e \in BagToSet(events), TakenBy(h, e) PROVE Paid'
    <3>1. events' = events (-) SetToBag({e}) /\ leg' = leg
      <4>1. Takes(h, e) /\ leg' = leg
        BY <2>1 DEF TakenBy, CallerGone, CallerTold, Answered, Briefed, OperatorGone
      <4>2. ~Fault("again")
        BY FaultCounts DEF Faults, TypeOK
      <4> QED
        BY <4>1, <4>2 DEF Takes
    <3>2. Rung' = Rung /\ Told' = IF e = Said(Caller, "message") THEN Told - 1 ELSE Told
      BY <3>1, ToldShrinks DEF Rung
    <3>3. \A b \in Actor \ {h} : job'[b] = job[b]
      BY <1>0, <2>1 DEF TakenBy, CallerGone, CallerTold, Answered, Briefed, OperatorGone, Turns, Goes
    <3>4. Ahead' \subseteq Ahead \cup {h}
      BY <3>3 DEF Ahead
    <3>5. CASE e = Said(Caller, "message")
      BY <1>0, <2>0, <3>2, <3>4, <3>5, PaidBy
    <3>6. CASE e # Said(Caller, "message")
      <4>1. job[h].do = "idle" /\ job'[h].do \notin {"writing", "parking", "stopping", "telling", "dialling"}
        <5>1. CASE CallerTold(h, e)
          <6>1. e.step # "message"
            BY <3>6, <5>1 DEF CallerTold, Said, TypeOK, Event
          <6> QED
            BY <1>0, <5>1, <6>1 DEF CallerTold, Turns, Takes
        <5>2. CASE CallerGone(h, e)
          BY <1>0, <5>2 DEF CallerGone, Turns, Takes
        <5>3. CASE Answered(h, e)
          BY <1>0, <5>3 DEF Answered, Turns, Takes
        <5>4. CASE Briefed(h, e)
          BY <1>0, <5>4 DEF Briefed, Turns, Takes
        <5>5. CASE OperatorGone(h, e)
          BY <1>0, <5>5, GoesOn DEF OperatorGone, Takes, Finished
        <5> QED
          BY <2>1, <5>1, <5>2, <5>3, <5>4, <5>5 DEF TakenBy
      <4>2. Ahead' \subseteq Ahead
        BY <3>3, <4>1 DEF Ahead
      <4> QED
        BY <1>0, <2>0, <3>2, <3>6, <4>2, PaidBy
    <3> QED
      BY <3>5, <3>6
  <2>2. ASSUME Brief(h) \/ BriefingRaises(h) \/ Bridge(h) \/ Free(h) \/ Apologise(h)
        PROVE  Ahead' \subseteq Ahead
    <3>1. PICK do \in {"idle", "bridging", "freeing", "dropping"} : Goes(h, do)
      BY <2>2 DEF Brief, BriefingRaises, Bridge, Free, Apologise, Follows, Unbridged
    <3>2. job'[h].do = do /\ \A b \in Actor \ {h} : job'[b] = job[b]
      BY <1>0, <3>1 DEF Goes, Finished, Rests, Job
    <3> QED
      BY <3>2 DEF Ahead
  <2>3. ASSUME Brief(h) \/ BriefingRaises(h) \/ Apologise(h)
        PROVE  Rung' = Rung /\ Told' = Told
    <3>1. Rung' = Rung
      BY <2>3 DEF Brief, BriefingRaises, Apologise, Rung
    <3>2. CASE BriefingRaises(h)
      BY <3>1, <3>2 DEF BriefingRaises, Told, Coming
    <3>3. CASE Brief(h) \/ Apologise(h)
      BY <1>0, <3>1, <3>3, SpeakRings DEF Brief, Apologise
    <3> QED
      BY <2>3, <3>2, <3>3
  <2>4. ASSUME Bridge(h)
        PROVE  Rung' = Rung /\ Told' = Told
    <3>1. Rung' = Rung
      <4> DEFINE l == job[h].leg
      <4>1. \/ leg' = leg
            \/ /\ leg[l] \in {"up", "bridged"}
               /\ leg' = [m \in Leg |-> IF m \in {l, Caller} THEN "bridged"
                                        ELSE IF leg[m] = "bridged" THEN "gone" ELSE leg[m]]
        BY <2>4 DEF Bridge, Commanded, Up
      <4> QED
        BY <4>1 DEF Rung
    <3>2. Told' = Told
      BY <2>4 DEF Bridge, Told, Coming
    <3> QED
      BY <3>1, <3>2
  <2>5. ASSUME Free(h)
        PROVE  Rung' = Rung /\ Told' = Told
    <3>1. job[h].leg \in Leg
      BY <1>0, <2>5 DEF Free, Job
    <3> QED
      BY <2>5, <3>1, HangUpRings DEF Free
  <2>6. CASE Brief(h) \/ BriefingRaises(h) \/ Bridge(h) \/ Free(h) \/ Apologise(h)
    BY <1>0, <2>0, <2>2, <2>3, <2>4, <2>5, <2>6, PaidBy
  <2> QED
    BY <1>3, <2>1, <2>6 DEF Handles, TakenBy
<1>4. CASE Edge \/ World
  <2>1. Asked' = Asked /\ Ahead' = Ahead
    BY <1>4 DEF Edge, World, PipelineEnds, Finalize, Judge, Close, OperatorAnswers, LegEnds, CutShort, Expires,
       Asked, Ahead
  <2>2. Rung' = Rung /\ Told' <= Told
    <3>1. CASE PipelineEnds \/ Finalize \/ Judge \/ Expires
      BY <1>0, <3>1 DEF PipelineEnds, Finalize, Judge, Expires, Rung, Told, Coming
    <3>2. CASE Close \/ \E l \in Leg : LegEnds(l)
      BY <1>0, <3>2, HangUpRings, EndRings DEF Close, LegEnds
    <3>3. ASSUME NEW l \in Operator, OperatorAnswers(l) PROVE Rung' = Rung /\ Told' = Told
      <4>1. Rung' = Rung
        BY <3>3 DEF OperatorAnswers, Rung, TypeOK
      <4>2. Said(Caller, "message") \notin {[type |-> "answered", leg |-> l, step |-> step[l]]}
        BY DEF Said
      <4> QED
        BY <3>3, <4>1, <4>2, ToldGrows DEF OperatorAnswers, EventOf
    <3>4. ASSUME NEW e \in BagToSet(events), CutShort(e) PROVE Rung' = Rung /\ Told' <= Told
      BY <1>0, <3>4, ToldShrinks DEF CutShort, Rung
    <3> QED
      BY <1>0, <1>4, <3>1, <3>2, <3>3, <3>4 DEF Edge, World
  <2> QED
    BY <1>0, <2>1, <2>2, PaidBy
<1> QED
  BY <1>1, <1>2, <1>3, <1>4 DEF Next

LEMMA FaultsStay ==
  ASSUME TypeOK, Next
  PROVE  Happened \subseteq Happened'
<1>0. \A h, e : Takes(h, e) => Happened \subseteq Happened'
  BY TakesTyped
<1>1. \A ls, how : how \in How /\ Commanded(ls, how) => Happened \subseteq Happened'
  BY FaultsTyped DEF TypeOK
<1>2. \A l \in Leg : HangUp(l) => Happened \subseteq Happened'
  BY HangUpTyped
<1>3. \A f \in Faults : Fault(f) => Happened \subseteq Happened'
  BY FaultCounts DEF TypeOK
<1>4. ASSUME NEW r \in Request, Transfer(r) PROVE Happened \subseteq Happened'
  BY <1>1, <1>4 DEF Transfer, Check, Write, ParkIntent, StopStream, Tell, Clear, Commit, Release
<1>5. ASSUME NEW a \in Actor, Rings(a) PROVE Happened \subseteq Happened'
  BY <1>1, <1>2, <1>5 DEF Rings, Dial, Link, Drop
<1>6. ASSUME NEW h \in Hook, Handles(h) PROVE Happened \subseteq Happened'
  <2>1. CASE Free(h)
    BY <1>2, <2>1 DEF Free, TypeOK, Job
  <2>2. CASE BriefingRaises(h)
    BY <1>3, <2>2 DEF BriefingRaises, Faults
  <2> QED
    BY <1>0, <1>1, <1>6, <2>1, <2>2 DEF Handles, CallerGone, CallerTold, Answered, Briefed, OperatorGone, Brief,
       Bridge, Apologise
<1>7. CASE Edge \/ World
  BY <1>2, <1>3, <1>7 DEF Edge, World, PipelineEnds, Finalize, Judge, Close, OperatorAnswers, LegEnds, CutShort,
     Expires, Faults
<1> QED
  BY <1>4, <1>5, <1>6, <1>7 DEF Next

\* Every leg that rings was paid for by a request, while no webhook comes twice.
THEOREM RingsArePaid == Spec => []RungInv
<1>1. Init => RungInv
  <2> SUFFICES ASSUME Init PROVE Paid
    BY DEF RungInv
  <2>1. Ahead = {} /\ Rung = {} /\ Asked = {} /\ Told = 0
    BY DEF Init, Ahead, Rung, Asked, Told, Rests, Coming, EmptyBag, BagToSet, SetToBag
  <2> QED
    BY <2>1, FS_EmptySet DEF Paid
<1>2. TypeOK /\ OnlyBridged /\ RungInv /\ [Next]_vars => RungInv'
  <2> SUFFICES ASSUME TypeOK, OnlyBridged, RungInv, [Next]_vars PROVE RungInv'
    OBVIOUS
  <2>1. CASE Next
    BY <2>1, PaidKept, FaultsStay DEF RungInv
  <2>2. CASE UNCHANGED vars
    BY <2>2 DEF vars, RungInv, Paid, Ahead, Rung, Asked, Told, Coming
  <2> QED
    BY <2>1, <2>2
<1> QED
  BY TypeCorrect, LegsAgree, <1>1, <1>2, PTL DEF Spec

\* A lone transfer rings one operator at most, whatever fails, unless a webhook comes twice.
THEOREM OperatorRungOnceHolds == Spec => []OperatorRungOnce
<1>1. TypeOK /\ RungInv => OperatorRungOnce
  <2> SUFFICES ASSUME TypeOK, Paid, NEW r \in Request, Asked = {r}, NEW l \in Rung, NEW m \in Rung
               PROVE  l = m
    BY DEF RungInv, OperatorRungOnce, Rung
  <2>1. Cardinality(Rung) \in Nat /\ Cardinality(Ahead) \in Nat /\ Told \in Nat
    BY FS_CardinalityType, ToldNat DEF Paid
  <2>2. Cardinality(Asked) = 1
    BY FS_Singleton
  <2>3. Cardinality(Rung) <= 1
    BY <2>1, <2>2 DEF Paid
  <2>4. IsFiniteSet(Rung \ {l}) /\ Cardinality(Rung \ {l}) = Cardinality(Rung) - 1
    BY FS_RemoveElement DEF Paid
  <2>5. Cardinality(Rung \ {l}) = 0
    BY <2>1, <2>3, <2>4, FS_CardinalityType
  <2>6. Rung \ {l} = {}
    BY <2>4, <2>5, FS_EmptySet
  <2> QED
    BY <2>6
<1> QED
  BY TypeCorrect, RingsArePaid, <1>1, PTL

=============================================================================
