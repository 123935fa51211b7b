--------------------------- MODULE CallEndingProofs ---------------------------
(***************************************************************************)
(* What CallEnding guarantees for every set of requests, carriers and      *)
(* faults: type correctness, then one inductive invariant, CallInv, that   *)
(* ties the row to what each request, sweep and pipeline knows of it, and  *)
(* last that a call's ending implements EndsOnce.                          *)
(***************************************************************************)
EXTENDS CallEndingRefinement, TLAPS

USE CallEndingAssumption
USE DEF Processes, LeftToPipeline, Progress, kind, call, phone, media, hands, runs

LEMMA TypeInit == Init => TypeOK
<1> SUFFICES ASSUME Init PROVE TypeOK
  OBVIOUS
<1> USE DEF Init
<1>1. carrier \in Carrier /\ inbound \in BOOLEAN /\ redacts \in Redacting
  OBVIOUS
<1>2. hand \in [Handler -> Busy \cup {Idle}] /\ sweeping \subseteq Place
  OBVIOUS
<1>3. begun \in [Place -> Nat] /\ working \in [Place -> Nat]
  OBVIOUS
<1> QED
  BY <1>1, <1>2, <1>3 DEF TypeOK, KindTypes, RowTypes, PhoneTypes, MediaTypes, HandTypes,
     RunTypes, Live, Ended, Unanswered, PipeStage

\* A claim keeps the types, and so does ending a call with one.
LEMMA ClaimTypes ==
  ASSUME RowTypes, RunTypes, NEW p \in Place, NEW left, ClaimPostCall(p, left)
  PROVE  started' \in BOOLEAN /\ begun' \in [Place -> Nat]
<1>1. started' \in BOOLEAN
  BY DEF RowTypes, ClaimPostCall
<1>2. begun' = begun \/ begun' = [begun EXCEPT ![p] = @ + 1]
  BY DEF ClaimPostCall
<1>3. [begun EXCEPT ![p] = @ + 1] \in [Place -> Nat]
  <2>1. begun \in [Place -> Nat] /\ begun[p] + 1 \in Nat
    BY DEF RunTypes
  <2> QED
    BY <2>1
<1>4. begun \in [Place -> Nat]
  BY DEF RunTypes
<1>5. begun' \in [Place -> Nat]
  BY <1>2, <1>3, <1>4, Zenon
<1> QED
  BY <1>1, <1>5

LEMMA FinalizeTypes ==
  ASSUME RowTypes, RunTypes, NEW p \in Place, NEW s \in Ended, Finalize(p, s),
         faults' \in Nat
  PROVE  RowTypes' /\ RunTypes'
<1>1. started' \in BOOLEAN /\ begun' \in [Place -> Nat]
  <2>1. ClaimPostCall(p, status \in Ended)
    BY DEF Finalize
  <2> QED
    BY <2>1, ClaimTypes
<1> QED
  BY <1>1 DEF Finalize, RowTypes, RunTypes

\* The line and the pipeline keep the types.
LEMMA TypeLine ==
  ASSUME TypeOK, Phone \/ Pipeline \/ DeferralAges
  PROVE  TypeOK'
<1> USE DEF Pipeline, Phone, Build, TypeOK
<1>1. KindTypes' /\ HandTypes'
  BY DEF KindTypes, HandTypes, Answers, HangsUp, RingsOut, Lost, Attach, StreamDropped,
     BuildFails, Opens, Runs, Said, Stops, PipelineFinalizes, FinalizeFails, Transfers,
     Forgets, DeferralAges
<1>2. PhoneTypes'
  BY DEF PhoneTypes, Live, Ended, Answers, HangsUp, RingsOut, Lost, DialOutcomes, Attach,
     StreamDropped, BuildFails, Opens, Runs, Said, Stops, PipelineFinalizes, FinalizeFails,
     Transfers, Forgets, DeferralAges
<1>3. MediaTypes'
  BY DEF MediaTypes, PipeStage, Answers, HangsUp, RingsOut, Lost, Attach, StreamDropped,
     BuildFails, Opens, Runs, Said, Stops, PipelineFinalizes, FinalizeFails, Transfers,
     Forgets, DeferralAges
<1>4. CASE PipelineFinalizes
  <2>1. broke \in BOOLEAN
    BY DEF MediaTypes
  <2>2. Finalize("holder", IF broke THEN "failed" ELSE "completed") /\ faults' \in Nat
    BY <1>4 DEF PipelineFinalizes, RunTypes
  <2>3. RowTypes' /\ RunTypes'
    BY <2>1, <2>2, FinalizeTypes DEF Place, Ended, Unanswered
  <2> QED
    BY <2>3, <1>1, <1>2, <1>3
<1>5. CASE ~PipelineFinalizes
  <2>1. RowTypes'
    BY <1>5 DEF RowTypes, Live, Ended, Answers, HangsUp, RingsOut, Lost, Attach,
       StreamDropped, BuildFails, Opens, Runs, Said, Stops, FinalizeFails, Transfers, Forgets,
       DeferralAges
  <2>2. RunTypes'
    BY <1>5 DEF RunTypes, Answers, HangsUp, RingsOut, Lost, Attach, StreamDropped,
       BuildFails, Opens, Runs, Said, Stops, FinalizeFails, Transfers, Forgets, DeferralAges
  <2> QED
    BY <2>1, <2>2, <1>1, <1>2, <1>3
<1> QED
  BY <1>4, <1>5

\* Requests keep the types.
LEMMA TypeRequest ==
  ASSUME TypeOK, NEW h \in Handler, Request(h)
  PROVE  TypeOK'
<1> USE DEF TypeOK, Request
<1>1. KindTypes' /\ MediaTypes'
  BY DEF KindTypes, MediaTypes, Arrives, EndApi, WritesProgress, WritesEnding,
     StartsPostCall, WritesHangup
<1>2. PhoneTypes'
  BY DEF PhoneTypes, Arrives, EndApi, WritesProgress, WritesEnding, StartsPostCall,
     WritesHangup
<1>3. HandTypes'
  <2> USE DEF HandTypes, Busy, Idle
  <2>1. CASE WritesEnding(h)
    <3>1. hand[h].at # "idle" /\ hand[h] \in Busy
      BY <2>1 DEF WritesEnding
    <3>2. [hand[h] EXCEPT !.at = "start"] \in Busy
      BY <3>1
    <3> QED
      BY <2>1, <3>2 DEF WritesEnding
  <2>2. CASE EndApi(h) \/ \E c \in owed : Arrives(h, c)
    BY <2>2 DEF EndApi, Arrives, Takes, PhoneTypes, Ended
  <2>3. CASE WritesProgress(h) \/ \E p \in Place : StartsPostCall(h, p) \/ WritesHangup(h, p)
    BY <2>3 DEF WritesProgress, StartsPostCall, WritesHangup, Done
  <2> QED
    BY <2>1, <2>2, <2>3
<1>4. hand[h] # Idle => hand[h].says \in Live \cup Ended
  BY DEF HandTypes, Busy
<1>5. RowTypes' /\ RunTypes'
  <2>1. CASE EndApi(h) \/ WritesProgress(h) \/ \E c \in owed : Arrives(h, c)
    BY <2>1, <1>4 DEF EndApi, WritesProgress, Arrives, RowTypes, RunTypes
  <2>2. CASE WritesEnding(h)
    BY <2>2, <1>4 DEF WritesEnding, EndAndDefer, RowTypes, RunTypes
  <2>3. CASE \E p \in Place : StartsPostCall(h, p)
    BY <2>3, ClaimTypes DEF StartsPostCall, RowTypes, RunTypes
  <2>4. CASE \E p \in Place : WritesHangup(h, p)
    <3>1. hand[h].says \in Live \cup Ended
      BY <2>4, <1>4 DEF WritesHangup, Done, Idle
    <3>2. CASE hand[h].says = "completed"
      BY <2>4, <3>2, FinalizeTypes DEF WritesHangup, RunTypes, Ended
    <3>3. CASE hand[h].says # "completed"
      BY <2>4, <3>1, <3>3 DEF WritesHangup, RowTypes, RunTypes
    <3> QED
      BY <3>2, <3>3
  <2> QED
    BY <2>1, <2>2, <2>3, <2>4
<1> QED
  BY <1>1, <1>2, <1>3, <1>5

\* So do sweeps, post-call runs and deaths.
LEMMA TypeRest ==
  ASSUME TypeOK,
         \/ \E p \in Place : AnswerFails(p) \/ Sweep(p) \/ Sends(p)
         \/ Proceeds \/ HolderAnswers \/ HolderDies \/ ReplicaDies
  PROVE  TypeOK'
<1> USE DEF TypeOK, Sweep, Proceeds
<1>1. KindTypes' /\ PhoneTypes'
  BY DEF KindTypes, PhoneTypes, AnswerFails, SweepSees, SweepStarts, Sends, AsksHolder,
     GoesOn, HolderAnswers, HolderDies, ReplicaDies
<1>2. MediaTypes'
  BY DEF MediaTypes, PipeStage, AnswerFails, SweepSees, SweepStarts, Sends, AsksHolder,
     GoesOn, HolderAnswers, HolderDies, ReplicaDies
<1>3. HandTypes'
  BY DEF HandTypes, AnswerFails, SweepSees, SweepStarts, Sends, AsksHolder,
     GoesOn, HolderAnswers, HolderDies, ReplicaDies
<1>4. RowTypes' /\ RunTypes'
  <2>1. CASE \E p \in Place : AnswerFails(p)
    <3>1. faults' \in Nat
      BY <2>1 DEF AnswerFails, RunTypes
    <3> QED
      BY <2>1, <3>1, FinalizeTypes DEF AnswerFails, Ended, Unanswered
  <2>2. CASE \E p \in Place : SweepStarts(p)
    BY <2>2, ClaimTypes DEF SweepStarts, RowTypes, RunTypes
  <2>3. CASE \E p \in Place : SweepSees(p)
    BY <2>3 DEF SweepSees, RowTypes, RunTypes
  <2>4. CASE \/ \E p \in Place : Sends(p) \/ GoesOn(p)
             \/ AsksHolder \/ HolderAnswers \/ HolderDies \/ ReplicaDies
    <3>1. RowTypes'
      BY <2>4 DEF RowTypes, Sends, GoesOn, AsksHolder, HolderAnswers, HolderDies, ReplicaDies
    <3>2. begun' \in [Place -> Nat] /\ working' \in [Place -> Nat]
      BY <2>4 DEF RunTypes, Place, Sends, GoesOn, AsksHolder, HolderAnswers, HolderDies,
         ReplicaDies
    <3>3. asking' \in Nat /\ sent' \in Nat /\ faults' \in Nat
      BY <2>4 DEF RunTypes, Sends, GoesOn, AsksHolder, HolderAnswers, HolderDies, ReplicaDies
    <3> QED
      BY <3>1, <3>2, <3>3 DEF RunTypes
  <2> QED
    BY <2>1, <2>2, <2>3, <2>4
<1> QED
  BY <1>1, <1>2, <1>3, <1>4

LEMMA TypeStep == TypeOK /\ [Next]_vars => TypeOK'
<1> SUFFICES ASSUME TypeOK, [Next]_vars PROVE TypeOK'
  OBVIOUS
<1>1. CASE UNCHANGED vars
  BY <1>1 DEF vars, TypeOK, KindTypes, RowTypes, PhoneTypes, MediaTypes, HandTypes, RunTypes
<1> QED
  BY <1>1, TypeLine, TypeRequest, TypeRest DEF Next

\* Every variable stays in its range, on any number of requests at once.
THEOREM TypeCorrect == Spec => []TypeOK
BY TypeInit, TypeStep, PTL DEF Spec

-----------------------------------------------------------------------------
(* The row                                                                 *)

\* The steps that write the call row.
LEMMA WhoWrites ==
  ASSUME [Next]_vars, call' # call
  PROVE  \/ Attach \/ Runs \/ Transfers \/ DeferralAges \/ PipelineFinalizes
         \/ \E p \in Place : AnswerFails(p) \/ SweepStarts(p)
         \/ \E h \in Handler : \/ WritesProgress(h) \/ WritesEnding(h)
                               \/ \E p \in Place : StartsPostCall(h, p) \/ WritesHangup(h, p)
BY DEF Next, vars, Phone, Answers, HangsUp, RingsOut, Lost, Pipeline, Build, StreamDropped,
   BuildFails, Opens, Said, Stops, FinalizeFails, Forgets, Request, Arrives, EndApi, Sweep,
   SweepSees, Sends, Proceeds, AsksHolder, GoesOn, HolderAnswers, HolderDies, ReplicaDies

\* A Telnyx hangup that names an unanswered dial finds the row as dialled, or as an
\* earlier copy of it left the row.
LEMMA UnansweredWrite ==
  ASSUME CallInv, NEW h \in Handler, NEW p \in Place, WritesHangup(h, p),
         hand[h].says # "completed"
  PROVE  /\ hand[h].says = outcome /\ outcome \in Unanswered
         /\ status \in {"initiated", outcome} /\ ~started /\ ~inbound /\ pipe = "none"
<1>1. carrier = "telnyx" /\ hand[h].at = "callback"
  BY DEF WritesHangup, Done
<1>2. hand[h].says = outcome
  BY <1>1 DEF CallInv, UnansweredDial
<1>3. hand[h].says \in Live \cup Ended
  BY <1>1 DEF CallInv, TypeOK, HandTypes, Busy, Idle
<1>4. outcome \in Unanswered
  BY <1>2, <1>3 DEF CallInv, TypeOK, PhoneTypes, Ended, Live, Unanswered
<1> QED
  BY <1>1, <1>2, <1>4 DEF CallInv, UnansweredDial

\* finalize_call keeps an ending, and claims only an ended call.
LEMMA FinalizeKeeps ==
  ASSUME CallInv, NEW p \in Place, NEW s \in {"completed", "failed"}, Finalize(p, s)
  PROVE  /\ status \in Ended => status' = status
         /\ PostCallOfEnded'
         /\ UnansweredIsSilent'
         /\ deferral' = deferral /\ attached' = attached
         /\ status' = status \/ (status \notin Ended /\ status' = s)
<1> USE DEF CallInv, PostCallOfEnded, UnansweredIsSilent, Finalize, ClaimPostCall
<1> QED
  BY DEF Ended, Unanswered

\* Nothing reopens or overwrites an ending.
LEMMA EndingStep ==
  ASSUME CallInv, [Next]_vars, status \in Ended
  PROVE  status' = status
<1>1. CASE call' = call
  BY <1>1
<1>2. CASE Attach \/ Runs \/ Transfers \/ DeferralAges
  BY <1>2 DEF Attach, Runs, Transfers, DeferralAges, Ended, Unanswered
<1>3. CASE PipelineFinalizes \/ \E p \in Place : AnswerFails(p)
  BY <1>3, FinalizeKeeps DEF PipelineFinalizes, AnswerFails, Place
<1>4. CASE \E p \in Place : SweepStarts(p)
  BY <1>4 DEF SweepStarts
<1>5. ASSUME NEW h \in Handler, WritesProgress(h) \/ WritesEnding(h)
      PROVE  status' = status
  BY <1>5 DEF WritesProgress, WritesEnding
<1>6. ASSUME NEW h \in Handler, NEW p \in Place, StartsPostCall(h, p) \/ WritesHangup(h, p)
      PROVE  status' = status
  <2>1. CASE StartsPostCall(h, p)
    BY <2>1 DEF StartsPostCall
  <2>2. CASE WritesHangup(h, p) /\ hand[h].says = "completed"
    BY <2>2, FinalizeKeeps DEF WritesHangup
  <2>3. CASE WritesHangup(h, p) /\ hand[h].says # "completed"
    BY <2>3, UnansweredWrite DEF WritesHangup, Ended, Unanswered
  <2> QED
    BY <1>6, <2>1, <2>2, <2>3
<1> QED
  BY <1>1, <1>2, <1>3, <1>4, <1>5, <1>6, WhoWrites

\* The processing of a call follows its end, and never an unanswered one.
LEMMA PostCallStep ==
  ASSUME CallInv, [Next]_vars
  PROVE  PostCallOfEnded' /\ UnansweredIsSilent'
<1> USE DEF PostCallOfEnded, UnansweredIsSilent
<1>1. CASE call' = call
  BY <1>1 DEF CallInv
<1>2. CASE Attach \/ Runs \/ Transfers \/ DeferralAges
  BY <1>2 DEF CallInv, Attach, Runs, Transfers, DeferralAges, Ended, Unanswered
<1>3. CASE PipelineFinalizes
  <2>1. Finalize("holder", "failed") \/ Finalize("holder", "completed")
    BY <1>3 DEF PipelineFinalizes
  <2> QED
    BY <2>1, FinalizeKeeps DEF Place
<1>4. CASE \E p \in Place : AnswerFails(p)
  BY <1>4, FinalizeKeeps DEF AnswerFails
<1>5. CASE \E p \in Place : SweepStarts(p)
  BY <1>5 DEF CallInv, SweepStarts, ClaimPostCall, Ended
<1>6. ASSUME NEW h \in Handler, WritesProgress(h) \/ WritesEnding(h)
      PROVE  PostCallOfEnded' /\ UnansweredIsSilent'
  BY <1>6 DEF CallInv, WritesProgress, WritesEnding, EndAndDefer, Ended, Unanswered, Live
<1>7. ASSUME NEW h \in Handler, NEW p \in Place, StartsPostCall(h, p) \/ WritesHangup(h, p)
      PROVE  PostCallOfEnded' /\ UnansweredIsSilent'
  <2>1. CASE StartsPostCall(h, p)
    BY <2>1 DEF CallInv, StartsOfCompleted, StartsPostCall, Done, Ended
  <2>2. CASE WritesHangup(h, p) /\ hand[h].says = "completed"
    BY <2>2, FinalizeKeeps DEF WritesHangup
  <2>3. CASE WritesHangup(h, p) /\ hand[h].says # "completed"
    BY <2>3, UnansweredWrite DEF CallInv, WritesHangup, Ended, Unanswered
  <2> QED
    BY <1>7, <2>1, <2>2, <2>3
<1> QED
  BY <1>1, <1>2, <1>3, <1>4, <1>5, <1>6, <1>7, WhoWrites

-----------------------------------------------------------------------------
(* The requests                                                            *)

\* The steps that change what a request is about to do, and how they do.
LEMMA WhoHandles ==
  ASSUME TypeOK, [Next]_vars, NEW k \in Handler, hand'[k] # hand[k]
  PROVE  \/ hand'[k] = Idle
         \/ \E c \in owed : Arrives(k, c) /\ hand'[k] = [at |-> "callback", says |-> c]
         \/ EndApi(k) /\ hand'[k] = [at |-> "ending", says |-> "completed"]
         \/ /\ WritesEnding(k) /\ hand'[k].at = "start"
            /\ hand[k].says = "completed" /\ status \notin Ended /\ ~attached
<1> USE DEF TypeOK, HandTypes
<1>1. CASE ReplicaDies
  BY <1>1 DEF ReplicaDies
<1>2. ASSUME NEW h \in Handler, Request(h)
      PROVE  h = k
  BY <1>2 DEF Request, Arrives, EndApi, WritesProgress, WritesEnding, StartsPostCall,
     WritesHangup, Takes, Done
<1>3. CASE Request(k)
  <2>1. CASE EndApi(k) \/ \E c \in owed : Arrives(k, c)
    BY <2>1 DEF EndApi, Arrives, Takes
  <2>2. CASE WritesProgress(k) \/ \E p \in Place : StartsPostCall(k, p) \/ WritesHangup(k, p)
    BY <2>2 DEF WritesProgress, StartsPostCall, WritesHangup, Done
  <2>3. CASE WritesEnding(k)
    <3>1. hand[k] \in Busy
      BY <2>3 DEF WritesEnding, Idle
    <3> QED
      BY <2>3, <3>1 DEF WritesEnding, Busy
  <2> QED
    BY <1>3, <2>1, <2>2, <2>3 DEF Request
<1>4. CASE ~ReplicaDies /\ ~\E h \in Handler : Request(h)
  BY <1>4 DEF Next, vars, Phone, Answers, HangsUp, RingsOut, Lost, Pipeline, Build, Attach,
     StreamDropped, BuildFails, Opens, Runs, Said, Stops, PipelineFinalizes, FinalizeFails,
     Transfers, Forgets, DeferralAges, AnswerFails, Sweep, SweepSees, SweepStarts, Sends,
     Proceeds, AsksHolder, GoesOn, HolderAnswers, HolderDies
<1> QED
  BY <1>1, <1>2, <1>3, <1>4

LEMMA StartsStep ==
  ASSUME CallInv, [Next]_vars
  PROVE  StartsOfCompleted'
<1> SUFFICES ASSUME NEW k \in Handler, hand'[k].at = "start"
             PROVE  status' = "completed"
  BY DEF StartsOfCompleted
<1>1. CASE hand'[k] = hand[k]
  <2>1. status = "completed"
    BY <1>1 DEF CallInv, StartsOfCompleted
  <2> QED
    BY <2>1, EndingStep DEF Ended
<1>2. CASE hand'[k] # hand[k]
  <2>1. TypeOK
    BY DEF CallInv
  <2>2. \/ hand'[k] = Idle
        \/ \E c \in owed : hand'[k] = [at |-> "callback", says |-> c]
        \/ hand'[k] = [at |-> "ending", says |-> "completed"]
        \/ WritesEnding(k) /\ hand[k].says = "completed" /\ status \notin Ended
    BY <1>2, <2>1, WhoHandles, Zenon
  <2>3. hand'[k] # Idle
    BY DEF Idle
  <2>4. ASSUME NEW c \in owed, hand'[k] = [at |-> "callback", says |-> c] PROVE FALSE
    BY <2>4
  <2>5. hand'[k] # [at |-> "ending", says |-> "completed"]
    OBVIOUS
  <2> QED
    BY <2>2, <2>3, <2>4, <2>5 DEF WritesEnding, EndAndDefer
<1> QED
  BY <1>1, <1>2

-----------------------------------------------------------------------------
(* Telnyx's unanswered dials                                               *)

\* The steps that move the line, and those that start a pipeline.
LEMMA WhoPhones ==
  ASSUME [Next]_vars
  PROVE  /\ kind' = kind
         /\ phone' = phone \/ Phone \/ \E h \in Handler : \E c \in owed : Arrives(h, c)
         /\ pipe = "none" => pipe' = "none" \/ Attach
BY DEF Next, vars, Pipeline, Build, Phone, Answers, HangsUp, RingsOut, Lost, Attach,
   StreamDropped, BuildFails, Opens, Runs, Said, Stops, PipelineFinalizes, FinalizeFails,
   Transfers, Forgets, DeferralAges, Request, Arrives, EndApi, WritesProgress, WritesEnding,
   StartsPostCall, WritesHangup, AnswerFails, Sweep, SweepSees, SweepStarts, Sends, Proceeds,
   AsksHolder, GoesOn, HolderAnswers, HolderDies, ReplicaDies

LEMMA PhoneMoves ==
  ASSUME [Next]_vars
  PROVE  \/ line' = line /\ outcome' = outcome /\ owed' \subseteq owed
         \/ Answers \/ HangsUp \/ RingsOut
BY WhoPhones DEF Phone, Lost, Arrives

\* No callback is at work before the line is over.
LEMMA NoEarlyCallback ==
  ASSUME CallInv, carrier = "telnyx", NEW h \in Handler, hand[h].at = "callback"
  PROVE  line = "over" /\ hand[h].says = outcome /\ outcome \in Ended
<1>1. hand[h].says \in Live \cup Ended /\ hand[h].says = outcome
  BY DEF CallInv, TypeOK, HandTypes, Busy, Idle, UnansweredDial
<1>2. outcome \in Ended
  BY <1>1 DEF CallInv, TypeOK, PhoneTypes, Live
<1> QED
  BY <1>1, <1>2 DEF CallInv, UnansweredDial, Ended, Unanswered

LEMMA UnansweredStep ==
  ASSUME CallInv, [Next]_vars
  PROVE  UnansweredDial'
<1> SUFFICES ASSUME carrier = "telnyx"
             PROVE  UnansweredDial'
  BY WhoPhones DEF UnansweredDial
<1> USE DEF Ended, Unanswered
<1>1. outcome' # "none" => line' = "over"
  BY PhoneMoves DEF CallInv, UnansweredDial, Answers, HangsUp, RingsOut
<1>2. \A c \in owed' : c = outcome'
  <2>1. outcome = "none" => owed = {}
    BY DEF CallInv, UnansweredDial, TypeOK, PhoneTypes, Live
  <2>2. CASE line' = line /\ outcome' = outcome /\ owed' \subseteq owed
    BY <2>2 DEF CallInv, UnansweredDial
  <2>3. CASE Answers
    BY <2>3 DEF Answers, CallInv, UnansweredDial
  <2>4. CASE HangsUp \/ RingsOut
    BY <2>1, <2>4 DEF HangsUp, RingsOut, CallInv, UnansweredDial
  <2> QED
    BY <2>2, <2>3, <2>4, PhoneMoves
<1>3. outcome # "none" => outcome' = outcome /\ line' = line /\ line = "over"
  BY PhoneMoves DEF CallInv, UnansweredDial, Answers, HangsUp, RingsOut
<1>4. line' = "ringing" => line = "ringing" /\ outcome = "none"
  BY PhoneMoves DEF CallInv, UnansweredDial, Answers, HangsUp, RingsOut
<1>5. line # "ringing" => outcome' = outcome \/ outcome' = "completed"
  BY PhoneMoves DEF CallInv, UnansweredDial, Answers, HangsUp, RingsOut
<1>6. ASSUME line = "ringing", outcome = "none"
      PROVE  /\ pipe' = "none"
             /\ status' = status \/ (inbound /\ status' = "failed")
             /\ started' = started \/ inbound
  <2>1. pipe = "none" /\ status \in {"initiated", "failed"}
    BY <1>6 DEF CallInv, UnansweredDial
  <2>2. \A h \in Handler : hand[h].at \notin {"callback", "ending", "start"}
    BY <1>6, <2>1, NoEarlyCallback DEF CallInv, UnansweredDial, StartsOfCompleted
  <2>3. pipe' = "none"
    BY <1>6, <2>1, WhoPhones DEF Attach
  <2>4. CASE call' = call
    BY <2>3, <2>4
  <2>5. CASE Attach \/ Runs \/ Transfers \/ DeferralAges \/ PipelineFinalizes
    <3>1. deferral = "no"
      BY <2>1 DEF CallInv, PostCallOfEnded
    <3> QED
      BY <1>6, <2>1, <2>5, <3>1 DEF Attach, Runs, Transfers, DeferralAges, PipelineFinalizes
  <2>6. CASE \E p \in Place : SweepStarts(p)
    <3>1. deferral = "no" /\ started \in BOOLEAN
      BY <2>1 DEF CallInv, PostCallOfEnded, TypeOK, RowTypes
    <3> QED
      BY <2>3, <2>6, <3>1 DEF SweepStarts, ClaimPostCall
  <2>7. CASE \E p \in Place : AnswerFails(p)
    BY <2>1, <2>3, <2>7 DEF AnswerFails, Finalize
  <2>8. CASE \E h \in Handler : \/ WritesProgress(h) \/ WritesEnding(h)
                                \/ \E p \in Place : StartsPostCall(h, p) \/ WritesHangup(h, p)
    BY <2>2, <2>8 DEF WritesProgress, WritesEnding, StartsPostCall, WritesHangup, Done
  <2> QED
    BY <2>3, <2>4, <2>5, <2>6, <2>7, <2>8, WhoWrites
<1>7. line' = "ringing" => /\ pipe' = "none"
                           /\ status' = "initiated" \/ (inbound' /\ status' = "failed")
  BY <1>4, <1>6, WhoPhones DEF CallInv, UnansweredDial
<1>8. ASSUME outcome \in Unanswered
      PROVE  /\ pipe' = "none" /\ status' \in {"initiated", outcome} /\ ~started'
  <2>1. /\ line = "over" /\ ~inbound /\ pipe = "none" /\ ~started
        /\ status \in {"initiated", outcome} /\ deferral = "no"
    BY <1>8 DEF CallInv, UnansweredDial, PostCallOfEnded
  <2>2. \A h \in Handler : hand[h].at \notin {"ending", "start"}
    BY <1>8, <2>1 DEF CallInv, UnansweredDial, StartsOfCompleted
  <2>3. pipe' = "none"
    BY <1>8, <2>1, WhoPhones DEF Attach
  <2>4. CASE call' = call
    BY <2>1, <2>3, <2>4
  <2>5. CASE Attach \/ Runs \/ Transfers \/ DeferralAges \/ PipelineFinalizes
    BY <1>8, <2>1, <2>5 DEF Attach, Runs, Transfers, DeferralAges, PipelineFinalizes
  <2>6. CASE \E p \in Place : SweepStarts(p) \/ AnswerFails(p)
    BY <2>1, <2>3, <2>6 DEF SweepStarts, ClaimPostCall, AnswerFails
  <2>7. ASSUME NEW h \in Handler, NEW p \in Place,
               \/ WritesProgress(h) \/ WritesEnding(h) \/ StartsPostCall(h, p)
               \/ WritesHangup(h, p)
        PROVE  status' \in {"initiated", outcome} /\ ~started'
    <3>1. WritesHangup(h, p)
      BY <2>2, <2>7 DEF WritesProgress, WritesEnding, StartsPostCall, Done
    <3>2. hand[h].says = outcome
      BY <3>1, NoEarlyCallback DEF WritesHangup, Done
    <3> QED
      BY <1>8, <2>1, <3>1, <3>2 DEF WritesHangup
  <2> QED
    BY <2>3, <2>4, <2>5, <2>6, <2>7, WhoWrites DEF Place
<1>9. outcome' \in Unanswered =>
        /\ ~inbound' /\ pipe' = "none" /\ status' \in {"initiated", outcome'} /\ ~started'
  <2>1. CASE outcome \in Unanswered
    BY <1>3, <1>8, <2>1, WhoPhones DEF CallInv, UnansweredDial
  <2>2. CASE outcome \notin Unanswered /\ outcome' \in Unanswered
    <3>1. RingsOut /\ line = "ringing"
      BY <2>2, PhoneMoves DEF Answers, HangsUp, RingsOut
    <3>2. ~inbound /\ outcome = "none" /\ call' = call
      BY <2>2, <3>1 DEF RingsOut, DialOutcomes, CallInv, UnansweredDial
    <3>3. status = "initiated" /\ ~started /\ pipe = "none"
      BY <3>1, <3>2 DEF CallInv, UnansweredDial, PostCallOfEnded
    <3> QED
      BY <3>1, <3>2, <3>3 DEF RingsOut
  <2> QED
    BY <2>1, <2>2
<1>10. ASSUME NEW k \in Handler
       PROVE  /\ hand'[k].at = "callback" => hand'[k].says = outcome'
              /\ hand'[k].at = "ending" => line' # "ringing" /\ outcome' \notin Unanswered
  <2>1. CASE hand'[k] = hand[k]
    <3>1. hand[k].at = "callback" => hand[k].says = outcome /\ outcome # "none"
      BY NoEarlyCallback
    <3>2. hand[k].at = "ending" => line # "ringing" /\ outcome \notin Unanswered
      BY DEF CallInv, UnansweredDial
    <3> QED
      BY <1>3, <1>4, <1>5, <2>1, <3>1, <3>2
  <2>2. CASE hand'[k] = Idle
    BY <2>2 DEF Idle
  <2>3. ASSUME NEW c \in owed, Arrives(k, c), hand'[k] = [at |-> "callback", says |-> c]
        PROVE  hand'[k].at = "callback" /\ hand'[k].says = outcome'
    BY <2>3 DEF Arrives, CallInv, UnansweredDial
  <2>4. CASE EndApi(k) /\ hand'[k] = [at |-> "ending", says |-> "completed"]
    <3>1. status \in {"ringing", "in_progress", "transferring"}
      BY <2>4 DEF EndApi, ValidFrom, CallInv, TypeOK, RowTypes, Live
    <3>2. line # "ringing" /\ outcome \notin Unanswered
      BY <3>1 DEF CallInv, UnansweredDial
    <3>3. line' = line /\ outcome' = outcome
      BY <2>4 DEF EndApi
    <3> QED
      BY <2>4, <3>2, <3>3
  <2>5. CASE hand'[k].at = "start"
    BY <2>5
  <2>6. TypeOK
    BY DEF CallInv
  <2> QED
    BY <2>1, <2>2, <2>3, <2>4, <2>5, <2>6, WhoHandles, Zenon
<1> QED
  BY <1>1, <1>2, <1>7, <1>9, <1>10 DEF UnansweredDial

-----------------------------------------------------------------------------
(* The runs                                                                *)

\* A claim begins one run, and only if none was begun before.
LEMMA ClaimCounts ==
  ASSUME TypeOK, NEW p \in Place, NEW left, ClaimPostCall(p, left)
  PROVE  \/ started' = started /\ begun' = begun
         \/ ~started /\ started' /\ RunsIn(begun)' = RunsIn(begun) + 1
<1> USE DEF TypeOK, RowTypes, RunTypes, Place
<1>1. CASE ~started /\ (left => deferral # "no")
  <2>1. started' /\ begun' = [begun EXCEPT ![p] = @ + 1]
    BY <1>1 DEF ClaimPostCall
  <2>2. RunsIn(begun)' = RunsIn(begun) + 1
    BY <2>1 DEF RunsIn
  <2> QED
    BY <1>1, <2>1, <2>2
<1>2. CASE ~(~started /\ (left => deferral # "no"))
  BY <1>2 DEF ClaimPostCall
<1> QED
  BY <1>1, <1>2

\* The steps that claim, and those that move a run along.
Claims(p) == /\ ClaimPostCall(p, TRUE) \/ ClaimPostCall(p, FALSE)
             /\ UNCHANGED <<working, asking, sent>>

LEMMA FinalizeClaims ==
  ASSUME NEW p \in Place, NEW s, Finalize(p, s)
  PROVE  Claims(p)
<1>1. CASE status \in Ended
  BY <1>1 DEF Finalize, ClaimPostCall, Claims
<1>2. CASE status \notin Ended
  BY <1>2 DEF Finalize, ClaimPostCall, Claims
<1> QED
  BY <1>1, <1>2

LEMMA WhoRuns ==
  ASSUME [Next]_vars, <<started, runs>>' # <<started, runs>>
  PROVE  \/ \E p \in Place : Claims(p)
         \/ started' = started /\ \E p \in Place : GoesOn(p) \/ Sends(p)
         \/ started' = started /\ (AsksHolder \/ HolderAnswers \/ HolderDies \/ ReplicaDies)
<1>1. CASE PipelineFinalizes
  BY <1>1, FinalizeClaims DEF PipelineFinalizes, Place
<1>2. ASSUME NEW p \in Place, AnswerFails(p) \/ SweepStarts(p)
      PROVE  Claims(p) \/ UNCHANGED <<started, runs>>
  BY <1>2, FinalizeClaims DEF AnswerFails, SweepStarts, Claims
<1>3. ASSUME NEW h \in Handler, NEW p \in Place, StartsPostCall(h, p) \/ WritesHangup(h, p)
      PROVE  Claims(p) \/ UNCHANGED <<started, runs>>
  BY <1>3, FinalizeClaims DEF StartsPostCall, WritesHangup, Claims
<1>4. CASE \/ AsksHolder \/ HolderAnswers \/ HolderDies \/ ReplicaDies
           \/ \E p \in Place : GoesOn(p) \/ Sends(p)
  BY <1>4 DEF AsksHolder, HolderAnswers, HolderDies, ReplicaDies, GoesOn, Sends
<1> QED
  BY <1>1, <1>2, <1>3, <1>4 DEF Next, vars, Phone, Answers, HangsUp, RingsOut, Lost, Pipeline,
     Build, Attach, StreamDropped, BuildFails, Opens, Runs, Said, Stops, FinalizeFails,
     Transfers, Forgets, DeferralAges, Request, Arrives, EndApi, WritesProgress, WritesEnding,
     EndAndDefer, Sweep, SweepSees, Proceeds

LEMMA CountStep ==
  ASSUME CallInv, [Next]_vars
  PROVE  RunsCounted' /\ OneRun'
<1> USE DEF RunsCounted, OneRun
<1>1. TypeOK /\ RunsCounted /\ OneRun /\ redacts' = redacts
  BY WhoPhones DEF CallInv
<1>2. CASE UNCHANGED <<started, runs>>
  BY <1>1, <1>2 DEF RunsIn
<1>3. ASSUME NEW p \in Place, Claims(p)
      PROVE  RunsCounted' /\ OneRun'
  <2>1. RunsIn(working)' = RunsIn(working) /\ UNCHANGED <<working, asking, sent>>
    BY <1>3 DEF RunsIn, Claims
  <2>2. CASE started' = started /\ begun' = begun
    BY <1>1, <2>1, <2>2 DEF RunsIn
  <2>3. CASE ~started /\ started' /\ RunsIn(begun)' = RunsIn(begun) + 1
    BY <1>1, <2>1, <2>3
  <2> QED
    BY <1>1, <1>3, <2>2, <2>3, ClaimCounts DEF Claims
<1>4. ASSUME started' = started,
             \/ \E p \in Place : GoesOn(p) \/ Sends(p)
             \/ AsksHolder \/ HolderAnswers \/ HolderDies \/ ReplicaDies
      PROVE  RunsCounted' /\ OneRun'
  <2>1. /\ begun["holder"] \in Nat /\ begun["away"] \in Nat
        /\ working["holder"] \in Nat /\ working["away"] \in Nat
        /\ asking \in Nat /\ sent \in Nat
    BY <1>1 DEF TypeOK, RunTypes, Place
  <2>2. begun \in [Place -> Nat] /\ working \in [Place -> Nat]
    BY <1>1 DEF TypeOK, RunTypes
  <2> USE DEF RunsIn, Place
  <2>3. CASE \E p \in Place : GoesOn(p)
    BY <1>1, <1>4, <2>1, <2>2, <2>3 DEF GoesOn
  <2>4. CASE \E p \in Place : Sends(p)
    BY <1>1, <1>4, <2>1, <2>2, <2>4 DEF Sends
  <2>5. CASE AsksHolder
    BY <1>1, <1>4, <2>1, <2>2, <2>5 DEF AsksHolder
  <2>6. CASE HolderAnswers
    BY <1>1, <1>4, <2>1, <2>2, <2>6 DEF HolderAnswers
  <2>7. CASE HolderDies \/ ReplicaDies
    BY <1>1, <1>4, <2>1, <2>2, <2>7 DEF HolderDies, ReplicaDies
  <2> QED
    BY <1>4, <2>3, <2>4, <2>5, <2>6, <2>7
<1> QED
  BY <1>2, <1>3, <1>4, WhoRuns

-----------------------------------------------------------------------------
(* Twilio's pipelines                                                      *)

\* The steps that move the pipeline or its channel, leave a call to it, or sweep.
LEMMA WhoStreams ==
  ASSUME [Next]_vars
  PROVE  /\ \/ UNCHANGED <<pipe, listening, attached>>
            \/ Pipeline
            \/ HolderDies
         /\ \/ UNCHANGED deferral
            \/ DeferralAges
            \/ \E h \in Handler : WritesEnding(h) /\ status \notin Ended /\ attached
         /\ sweeping' \subseteq sweeping \/ \E p \in Place : SweepSees(p)
<1> USE DEF Next, vars, Phone, Answers, HangsUp, RingsOut, Lost, Pipeline, Build, Attach,
     StreamDropped, BuildFails, Opens, Runs, Said, Stops, PipelineFinalizes, FinalizeFails,
     Transfers, Forgets, DeferralAges, Request, Arrives, EndApi, WritesProgress, WritesEnding,
     EndAndDefer, StartsPostCall, WritesHangup, Finalize, AnswerFails, Sweep, SweepStarts,
     Sends, Proceeds, AsksHolder, GoesOn, HolderAnswers, HolderDies, ReplicaDies
<1>1. UNCHANGED <<pipe, listening, attached>> \/ Pipeline \/ HolderDies
  BY DEF SweepSees
<1>2. \/ UNCHANGED deferral
      \/ DeferralAges
      \/ \E h \in Handler : WritesEnding(h) /\ status \notin Ended /\ attached
  BY DEF SweepSees
<1>3. sweeping' \subseteq sweeping \/ \E p \in Place : SweepSees(p)
  OBVIOUS
<1> QED
  BY <1>1, <1>2, <1>3

LEMMA TwilioStep ==
  ASSUME CallInv, [Next]_vars
  PROVE  TwilioMedia'
<1> SUFFICES ASSUME carrier = "twilio"
             PROVE  TwilioMedia'
  BY WhoPhones DEF TwilioMedia
<1>1. /\ (attached <=> pipe # "none")
      /\ listening => pipe \in {"opened", "running"}
      /\ \A h \in Handler : hand[h].at = "start" => ~attached
      /\ deferral # "no" => attached
      /\ deferral = "overdue" => pipe \notin {"building", "opened"}
      /\ sweeping # {} => deferral = "overdue" /\ ~listening
      /\ TypeOK /\ PostCallOfEnded /\ StartsOfCompleted
  BY DEF CallInv, TwilioMedia
<1>2. \/ UNCHANGED <<pipe, listening, attached>>
      \/ /\ Attach /\ pipe = "none" /\ pipe' = "building" /\ status \notin Ended
         /\ attached' /\ listening' = listening
      \/ /\ pipe # "none" /\ pipe' # "none" /\ attached' = attached
         /\ listening' => listening \/ Opens
         /\ listening' => pipe' \in {"opened", "running"}
         /\ pipe' = "building" => pipe = "building"
         /\ pipe' = "opened" => pipe \in {"building", "opened"}
  <2> USE DEF TypeOK, MediaTypes, RowTypes
  <2>1. CASE HolderDies
    BY <1>1, <2>1 DEF HolderDies
  <2>2. CASE Attach
    BY <1>1, <2>2 DEF Attach
  <2>3. CASE Build \/ Runs \/ Said \/ Stops
    BY <1>1, <2>3 DEF Build, StreamDropped, BuildFails, Opens, Runs, Said, Stops
  <2>4. CASE PipelineFinalizes \/ FinalizeFails \/ Transfers \/ Forgets
    BY <1>1, <2>4 DEF PipelineFinalizes, Finalize, FinalizeFails, Transfers, Forgets
  <2> QED
    BY <2>1, <2>2, <2>3, <2>4, WhoStreams DEF Pipeline
<1>3. (attached' <=> pipe' # "none") /\ (listening' => pipe' \in {"opened", "running"})
  BY <1>1, <1>2
<1>4. attached => attached'
  BY <1>1, <1>2
<1>5. deferral' # "no" => attached'
  BY <1>1, <1>4, WhoStreams DEF DeferralAges
<1>6. deferral' = "overdue" => pipe' \notin {"building", "opened"}
  <2>1. CASE deferral = "overdue"
    BY <1>1, <1>2, <2>1 DEF PostCallOfEnded, Ended
  <2>2. CASE deferral # "overdue" /\ deferral' = "overdue"
    <3>1. DeferralAges
      BY <2>2, WhoStreams DEF WritesEnding, EndAndDefer
    <3> QED
      BY <3>1 DEF DeferralAges
  <2> QED
    BY <2>1, <2>2
<1>7. ASSUME sweeping' # {}
      PROVE  deferral' = "overdue" /\ ~listening'
  <2>1. CASE sweeping # {}
    <3>1. deferral = "overdue" /\ ~listening /\ pipe \notin {"building", "opened"} /\ attached
      BY <1>1, <2>1
    <3>2. deferral' = deferral
      BY <3>1, WhoStreams DEF DeferralAges, WritesEnding, EndAndDefer
    <3>3. ~Opens /\ ~Attach
      BY <1>1, <3>1 DEF Opens, Attach
    <3>4. ~listening'
      BY <1>2, <3>1, <3>3, Zenon
    <3> QED
      BY <3>1, <3>2, <3>4
  <2>2. CASE sweeping = {}
    <3>1. \E p \in Place : SweepSees(p)
      BY <1>7, <2>2, WhoStreams
    <3> QED
      BY <3>1 DEF SweepSees
  <2> QED
    BY <2>1, <2>2
<1>8. ASSUME NEW k \in Handler, hand'[k].at = "start"
      PROVE  ~attached'
  <2>1. CASE hand'[k] = hand[k]
    <3>1. ~attached /\ status \in Ended
      BY <1>1, <1>8, <2>1 DEF StartsOfCompleted, Ended
    <3> QED
      BY <1>1, <1>2, <3>1
  <2>2. CASE hand'[k] # hand[k]
    <3>1. hand'[k] # Idle /\ hand'[k] # [at |-> "ending", says |-> "completed"]
      BY <1>8 DEF Idle
    <3>2. ASSUME NEW c \in owed, hand'[k] = [at |-> "callback", says |-> c] PROVE FALSE
      BY <1>8, <3>2
    <3>3. WritesEnding(k) /\ ~attached
      BY <1>1, <2>2, <3>1, <3>2, WhoHandles, Zenon
    <3> QED
      BY <3>3 DEF WritesEnding, EndAndDefer
  <2> QED
    BY <2>1, <2>2
<1> QED
  BY <1>3, <1>5, <1>6, <1>7, <1>8 DEF TwilioMedia

LEMMA LastLinesStep ==
  ASSUME CallInv, [Next]_vars
  PROVE  LastLinesFirstTwilio'
<1> SUFFICES ASSUME carrier = "twilio", started', StillTalks'
             PROVE  pipe' = "running" /\ ~listening'
  BY WhoPhones DEF LastLinesFirstTwilio, LastLinesFirst
<1> USE DEF StillTalks
<1>1. CASE started
  <2>1. status \in Ended /\ (StillTalks => pipe = "running" /\ ~listening)
    BY <1>1 DEF CallInv, PostCallOfEnded, LastLinesFirstTwilio, LastLinesFirst
  <2>2. CASE UNCHANGED <<pipe, listening, attached>>
    BY <2>1, <2>2
  <2>3. CASE HolderDies
    BY <2>3 DEF HolderDies
  <2>4. CASE Attach \/ Build \/ Runs
    <3>1. pipe \notin {"building", "opened"}
      BY <2>1
    <3>2. ~Attach
      BY <2>1 DEF Attach
    <3>3. ~Build /\ ~Runs
      BY <3>1 DEF Build, StreamDropped, BuildFails, Opens, Runs
    <3> QED
      BY <2>4, <3>2, <3>3
  <2>5. CASE Stops \/ PipelineFinalizes \/ FinalizeFails \/ Forgets
    BY <2>5 DEF Stops, PipelineFinalizes, FinalizeFails, Forgets
  <2>6. CASE Said \/ Transfers
    <3>1. UNCHANGED <<pipe, listening>>
      BY <2>6 DEF Said, Transfers
    <3> QED
      BY <2>1, <3>1
  <2> QED
    BY <2>2, <2>3, <2>4, <2>5, <2>6, WhoStreams DEF Pipeline
<1>2. CASE ~started
  <2>1. call' # call
    BY <1>2
  <2>2. CASE Attach \/ Runs \/ Transfers \/ DeferralAges \/ PipelineFinalizes
    BY <1>2, <2>2 DEF Attach, Runs, Transfers, DeferralAges, PipelineFinalizes
  <2>3. CASE \E p \in Place : SweepStarts(p)
    BY <2>3 DEF SweepStarts, CallInv, TwilioMedia
  <2>4. CASE \E p \in Place : AnswerFails(p)
    BY <2>4 DEF AnswerFails
  <2>5. ASSUME NEW h \in Handler, WritesProgress(h) \/ WritesEnding(h)
        PROVE  FALSE
    BY <1>2, <2>5 DEF WritesProgress, WritesEnding, EndAndDefer
  <2>6. ASSUME NEW h \in Handler, NEW p \in Place, StartsPostCall(h, p) \/ WritesHangup(h, p)
        PROVE  pipe' = "none"
    BY <2>6 DEF StartsPostCall, WritesHangup, Done, CallInv, TwilioMedia
  <2> QED
    BY <2>1, <2>2, <2>3, <2>4, <2>5, <2>6, WhoWrites
<1> QED
  BY <1>1, <1>2

-----------------------------------------------------------------------------
(* The invariant, and what it gives                                        *)

LEMMA CallInit == Init => CallInv
<1> SUFFICES ASSUME Init PROVE CallInv
  OBVIOUS
<1>1. TypeOK
  BY TypeInit
<1>2. PostCallOfEnded /\ StartsOfCompleted /\ UnansweredIsSilent
  BY DEF Init, PostCallOfEnded, StartsOfCompleted, UnansweredIsSilent, Idle
<1>3. UnansweredDial /\ TwilioMedia
  BY DEF Init, UnansweredDial, TwilioMedia, Idle, Unanswered
<1>4. RunsCounted /\ OneRun
  BY DEF Init, RunsCounted, OneRun, RunsIn, Place
<1>5. LastLinesFirstTwilio
  BY DEF Init, LastLinesFirstTwilio, LastLinesFirst, StillTalks
<1> QED
  BY <1>1, <1>2, <1>3, <1>4, <1>5 DEF CallInv

\* The row agrees with what every request, sweep, pipeline and run knows of the call.
THEOREM CallAgrees == Spec => []CallInv
<1>1. CallInv /\ [Next]_vars => CallInv'
  <2> SUFFICES ASSUME CallInv, [Next]_vars PROVE CallInv'
    OBVIOUS
  <2>1. TypeOK'
    BY TypeStep DEF CallInv
  <2> QED
    BY <2>1, PostCallStep, StartsStep, UnansweredStep, CountStep, TwilioStep, LastLinesStep
       DEF CallInv
<1> QED
  BY CallInit, <1>1, PTL DEF Spec

\* Post-call processing is of an ended call, and only a completed one is left to its
\* pipeline (call_repo.claim_post_call, defer_post_call).
THEOREM PostCallOfEndedHolds == Spec => []PostCallOfEnded
BY CallAgrees, PTL DEF CallInv

\* At most one post-call run, so one call.ended, for a project that does not redact,
\* whatever races and dies (call_repo.claim_post_call).
THEOREM OneRunHolds == Spec => []OneRun
BY CallAgrees, PTL DEF CallInv

\* A Twilio call's processing waits for its pipeline's last lines
\* (call_analysis_trigger.start_or_defer_post_call, sweep_deferred).
THEOREM LastLinesFirstTwilioHolds == Spec => []LastLinesFirstTwilio
BY CallAgrees, PTL DEF CallInv

\* A call nobody answered gets no post-call processing (finalize_call,
\* telnyx_handlers._not_answered).
THEOREM UnansweredIsSilentHolds == Spec => []UnansweredIsSilent
BY CallAgrees, PTL DEF CallInv

\* An ended call is never reopened and never ends a second way
\* (call_repo.update_call_status, mark_call_ended).
THEOREM EndingStandsHolds == Spec => EndingStands
<1>1. CallInv /\ [Next]_vars => [(status \in Ended) => (status' = status)]_vars
  BY EndingStep
<1> QED
  BY <1>1, CallAgrees, PTL DEF Spec, EndingStands

-----------------------------------------------------------------------------
(* The promise kept                                                        *)

\* What a step of EndsOnce says of the one call.
PromiseStep == \/ Promise!Same("call") \/ Promise!End("call") \/ Promise!Settle("call")
               \/ Promise!Tell("call") \/ Promise!Lose("call")

\* A step that moves no run and claims nothing ends the call or leaves it.
LEMMA EndsOrSame ==
  ASSUME CallInv, [Next]_vars, UNCHANGED <<started, runs>>
  PROVE  Promise!Same("call") \/ Promise!End("call")
<1>1. redacts' = redacts
  BY WhoPhones
<1>2. Tellings' = Tellings /\ started' = started /\ sent' = sent
  BY <1>1 DEF Tellings, RunsIn
<1>3. status \in Ended => status' = status
  BY EndingStep
<1>4. "none" \notin Ended
  BY DEF Ended, Unanswered
<1> QED
  BY <1>2, <1>3, <1>4 DEF Promise!Same, Promise!End, Promise!Ends, Promise!Stands,
     Promise!Keeps, Promise!TellsNot, TheCall

\* A claim finds no run under way, and settles the telling of a call that has ended and
\* was answered.
LEMMA ClaimSettles ==
  ASSUME CallInv, [Next]_vars, NEW p \in Place, Claims(p)
  PROVE  Promise!Same("call") \/ Promise!End("call") \/ Promise!Settle("call")
<1>1. CASE started' = started /\ begun' = begun
  BY <1>1, EndsOrSame DEF Claims
<1>2. CASE ~started /\ started' /\ RunsIn(begun)' = RunsIn(begun) + 1
  <2>1. redacts' = redacts /\ redacts \in BOOLEAN
    BY WhoPhones DEF CallInv, TypeOK, KindTypes
  <2>2. RunsIn(begun) = 0 /\ RunsIn(working) = 0 /\ asking = 0
    BY <1>2 DEF CallInv, RunsCounted
  <2>3. RunsIn(working)' = 0 /\ asking' = 0 /\ sent' = sent
    BY <2>2 DEF Claims, RunsIn
  <2>4. Tellings' = IF redacts THEN 2 ELSE 1
    BY <1>2, <2>1, <2>2, <2>3 DEF Tellings
  <2>5. status' \in Ended /\ status' \notin {"no_answer", "busy"}
    BY <1>2, PostCallStep DEF PostCallOfEnded, UnansweredIsSilent
  <2>6. status \in Ended => status' = status
    BY EndingStep
  <2>7. "none" \notin Ended
    BY DEF Ended, Unanswered
  <2>8. Promise!Settle("call")
    BY <1>2, <2>1, <2>3, <2>4, <2>5, <2>6, <2>7 DEF Promise!Settle, Promise!Ends,
       Promise!Stands, Promise!TellsNot, TheCall
  <2> QED
    BY <2>8
<1>3. ClaimPostCall(p, TRUE) \/ ClaimPostCall(p, FALSE)
  BY DEF Claims
<1> QED
  BY <1>1, <1>2, <1>3, ClaimCounts DEF CallInv

\* The ways in which what is owed is told, is lost, or stays: the call is as it was.
LEMMA RunsTellOrLose ==
  ASSUME TypeOK, TypeOK', UNCHANGED <<started, status, redacts>>,
         \/ sent' = sent /\ Tellings' <= Tellings
         \/ sent' = sent + 1 /\ Tellings' < Tellings
  PROVE  Promise!Same("call") \/ Promise!Tell("call") \/ Promise!Lose("call")
<1>1. Tellings \in Nat /\ Tellings' \in Nat
  BY DEF TypeOK, RunTypes, Tellings, RunsIn, Place
<1>2. CASE sent' = sent /\ Tellings' = Tellings
  BY <1>2 DEF Promise!Same, Promise!Stands, Promise!Keeps, Promise!TellsNot, TheCall
<1>3. CASE sent' = sent /\ Tellings' < Tellings
  BY <1>3 DEF Promise!Lose, Promise!Stands, Promise!TellsNot, TheCall
<1>4. CASE sent' = sent + 1 /\ Tellings' < Tellings
  BY <1>4 DEF Promise!Tell, Promise!Stands, TheCall
<1> QED
  BY <1>1, <1>2, <1>3, <1>4

\* A run that goes on, asks a holder or hears from one takes no more than it had, and one
\* that sends gives up its own.
LEMMA RunsSpend ==
  ASSUME CallInv, [Next]_vars,
         \/ \E p \in Place : GoesOn(p) \/ Sends(p)
         \/ AsksHolder \/ HolderAnswers \/ HolderDies \/ ReplicaDies
  PROVE  \/ sent' = sent /\ Tellings' <= Tellings
         \/ sent' = sent + 1 /\ Tellings' < Tellings
<1>1. /\ begun["holder"] \in Nat /\ begun["away"] \in Nat
      /\ working["holder"] \in Nat /\ working["away"] \in Nat
      /\ asking \in Nat /\ sent \in Nat
  BY DEF CallInv, TypeOK, RunTypes, Place
<1>2. begun \in [Place -> Nat] /\ working \in [Place -> Nat]
  BY DEF CallInv, TypeOK, RunTypes
<1>3. ~redacts => asking = 0
  BY DEF CallInv, RunsCounted
<1>4. redacts' = redacts /\ redacts \in BOOLEAN
  BY WhoPhones DEF CallInv, TypeOK, KindTypes
<1> USE <1>1, <1>2, <1>3, <1>4 DEF Tellings, RunsIn, Place
<1>5. CASE \E p \in Place : GoesOn(p)
  BY <1>5 DEF GoesOn
<1>6. CASE \E p \in Place : Sends(p)
  BY <1>6 DEF Sends
<1>7. CASE AsksHolder
  BY <1>7 DEF AsksHolder
<1>8. CASE HolderAnswers
  BY <1>8 DEF HolderAnswers
<1>9. CASE HolderDies \/ ReplicaDies
  BY <1>9 DEF HolderDies, ReplicaDies
<1> QED
  BY <1>5, <1>6, <1>7, <1>8, <1>9

\* Every step of the call is one of the promise, or none.
LEMMA CallKeepsPromise ==
  ASSUME CallInv, CallInv', [Next]_vars
  PROVE  PromiseStep /\ redacts' = redacts
<1>1. ASSUME UNCHANGED <<started, runs>> PROVE PromiseStep
  BY <1>1, EndsOrSame DEF PromiseStep
<1>2. ASSUME NEW p \in Place, Claims(p) PROVE PromiseStep
  BY <1>2, ClaimSettles DEF PromiseStep
<1>3. ASSUME started' = started,
             \/ \E p \in Place : GoesOn(p) \/ Sends(p)
             \/ AsksHolder \/ HolderAnswers \/ HolderDies \/ ReplicaDies
      PROVE  PromiseStep
  <2>1. UNCHANGED <<started, status, redacts>>
    BY <1>3, WhoPhones DEF GoesOn, Sends, AsksHolder, HolderAnswers, HolderDies, ReplicaDies
  <2> QED
    BY <1>3, <2>1, RunsSpend, RunsTellOrLose DEF PromiseStep, CallInv
<1> QED
  BY <1>1, <1>2, <1>3, WhoRuns, WhoPhones

\* A call's ending implements EndsOnce, for any transports, requests and faults: it ends
\* one way, its post-call work is claimed once, with the ending or after it and never for
\* an unanswered call, and each call.ended sent uses up a run begun under that claim.
THEOREM CallImplementsEndsOnce == Spec => ImplementsEndsOnce
<1>1. Init => Promise!Init
  <2> SUFFICES ASSUME Init PROVE Promise!Init
    OBVIOUS
  <2>1. status \notin Ended /\ started = FALSE /\ sent = 0
    BY DEF Init, Ended, Unanswered
  <2>2. Tellings = 0
    BY DEF Init, Tellings, RunsIn, Place
  <2>3. [t \in TheCall |-> IF redacts THEN 2 ELSE 1] \in [TheCall -> 1 .. 2]
    OBVIOUS
  <2>4. [t \in TheCall |-> IF status \in Ended THEN status ELSE "none"]
           = [t \in TheCall |-> "none"]
    BY <2>1
  <2>5. /\ [t \in TheCall |-> started] = [t \in TheCall |-> FALSE]
        /\ [t \in TheCall |-> Tellings] = [t \in TheCall |-> 0]
        /\ [t \in TheCall |-> sent] = [t \in TheCall |-> 0]
    BY <2>1, <2>2
  <2> QED
    BY <2>3, <2>4, <2>5 DEF Promise!Init
<1>2. CallInv /\ CallInv' /\ [Next]_vars => [Promise!Next]_(Promise!vars)
  BY CallKeepsPromise DEF PromiseStep, Promise!Next, TheCall
<1> QED
  BY <1>1, <1>2, CallAgrees, PTL DEF Spec, ImplementsEndsOnce, Promise!Spec

\* What is owed and told together grows only by a claim, which comes first.
LEMMA Spending ==
  ASSUME NEW s \in Nat, NEW t \in Nat, NEW u \in Nat, NEW v \in Nat, NEW c \in Nat,
         s + t <= c, v < t, u = s \/ u = s + 1
  PROVE  u + v <= c /\ t # 0
OBVIOUS

LEMMA Claiming ==
  ASSUME NEW u \in Nat, NEW v \in Nat, NEW c \in Nat, NEW silent,
         u = 0, v <= (IF silent THEN 0 ELSE c)
  PROVE  u + v <= c /\ (silent => v = 0)
OBVIOUS

\* So call.ended is sent only of a call that ended, was answered and was claimed, and at
\* most once, or twice for a redacting project (call_ended_twice shows the second).
THEOREM SentWithinPromise == Spec => []Promise!Bounded
<1>1. Init => Promise!Bounded
  <2> SUFFICES ASSUME Init PROVE Promise!Bounded
    OBVIOUS
  <2>1. status = "initiated" /\ started = FALSE /\ sent = 0
    BY DEF Init
  <2>2. Tellings = 0
    BY DEF Init, Tellings, RunsIn, Place
  <2> QED
    BY <2>1, <2>2 DEF Promise!Bounded, TheCall, Ended, Unanswered
<1>2. /\ Promise!Bounded /\ CallInv /\ CallInv' /\ [Next]_vars
      => Promise!Bounded'
  <2> SUFFICES ASSUME Promise!Bounded, CallInv, CallInv', [Next]_vars
               PROVE  Promise!Bounded'
    OBVIOUS
  <2>1. PromiseStep /\ redacts' = redacts
    BY CallKeepsPromise
  <2>2. Tellings \in Nat /\ sent \in Nat /\ Tellings' \in Nat /\ sent' \in Nat
    BY DEF CallInv, TypeOK, RunTypes, Tellings, RunsIn, Place
  <2> DEFINE Ending == IF status \in Ended THEN status ELSE "none"
             Copies == IF redacts THEN 2 ELSE 1
             Silent == {"no_answer", "busy"}
  <2>3. /\ sent + Tellings <= Copies
        /\ ~started => sent = 0 /\ Tellings = 0
        /\ started => Ending # "none"
        /\ Ending \in Silent => sent = 0 /\ Tellings = 0
    BY DEF Promise!Bounded, TheCall
  <2>4. /\ sent' + Tellings' <= Copies
        /\ ~started' => sent' = 0 /\ Tellings' = 0
        /\ started' => Ending' # "none"
        /\ Ending' \in Silent => sent' = 0 /\ Tellings' = 0
    <3>0. Copies \in Nat
      OBVIOUS
    <3> HIDE DEF Ending, Copies, Silent
    <3>1. CASE \/ Ending' = Ending /\ started' = started /\ Tellings' = Tellings /\ sent' = sent
               \/ /\ Ending = "none" /\ Ending' # "none"
                  /\ started' = started /\ Tellings' = Tellings /\ sent' = sent
      <4>1. sent' = sent /\ Tellings' = Tellings /\ started' = started
        BY <3>1, Zenon
      <4>2. sent' + Tellings' <= Copies
        BY <2>3, <4>1
      <4>3. Ending' # Ending => ~started
        BY <2>3, <3>1, Zenon
      <4>4. started' => Ending' # "none"
        BY <2>3, <3>1, Zenon
      <4>5. Ending' \in Silent => sent' = 0 /\ Tellings' = 0
        BY <2>3, <4>1, <4>3, Zenon
      <4> QED
        BY <2>3, <4>1, <4>2, <4>4, <4>5, Zenon
    <3>2. CASE /\ Ending' # "none" /\ ~started /\ started' /\ sent' = sent
               /\ Tellings' <= (IF Ending' \in Silent THEN 0 ELSE Copies)
      <4>1. sent' = 0
        BY <2>3, <3>2, Zenon
      <4>2. Tellings' <= (IF Ending' \in Silent THEN 0 ELSE Copies)
        BY <3>2, Zenon
      <4>3. /\ sent' + Tellings' <= Copies
            /\ Ending' \in Silent => Tellings' = 0
        BY <2>2, <3>0, <4>1, <4>2, Claiming, Zenon
      <4> QED
        BY <3>2, <4>1, <4>3, Zenon
    <3>3. CASE /\ Ending' = Ending /\ started' = started /\ Tellings' < Tellings
               /\ sent' = sent \/ sent' = sent + 1
      <4>1. sent + Tellings <= Copies
        BY <2>3, Zenon
      <4>2. Tellings' < Tellings /\ (sent' = sent \/ sent' = sent + 1)
        BY <3>3, Zenon
      <4>3. sent' + Tellings' <= Copies /\ Tellings # 0
        BY <2>2, <3>0, <4>1, <4>2, Spending, Zenon
      <4> QED
        BY <2>3, <3>3, <4>3, Zenon
    <3> QED
      BY <2>1, <3>1, <3>2, <3>3 DEF Ending, Copies, Silent, PromiseStep, Promise!Same,
         Promise!End, Promise!Settle, Promise!Tell, Promise!Lose, Promise!Keeps,
         Promise!Stands, Promise!Ends, Promise!TellsNot, TheCall
  <2>5. Copies' = Copies
    BY <2>1
  <2> QED
    BY <2>4, <2>5 DEF Promise!Bounded, TheCall
<1> QED
  BY <1>1, <1>2, CallAgrees, PTL DEF Spec
=============================================================================
