---------------------------- MODULE CampaignProofs ----------------------------
(***************************************************************************)
(* What Campaign guarantees for every set of workers and targets, every    *)
(* retry policy and every bound: type correctness, then an inductive       *)
(* invariant that ties a worker at the carrier to its target's row and to  *)
(* the rings of its phone, and one that ties the moves of the campaign to  *)
(* the events still to be dispatched.  Then that it implements             *)
(* DialLicence, and what holds besides where one worker serves it.         *)
(***************************************************************************)
EXTENDS CampaignRefinement, FiniteSetTheorems, TLAPS

USE CampaignAssumption
USE DEF Abandoned, LastCall, AllFinal, MayPlace, Refused, Undialled

LEMMA TypeInit == Init => TypeOK
<1> SUFFICES ASSUME Init PROVE TypeOK
  OBVIOUS
<1> USE DEF Init
<1>1. RowTypes
  BY DEF RowTypes, CampaignStatus, TargetStatus
<1>2. WorldTypes
  BY DEF WorldTypes
<1>3. WorkerTypes
  BY DEF WorkerTypes, Stage, Dialling, PlanType, NoPlan, Nothing
<1>4. CounterTypes
  BY DEF CounterTypes, Event
<1> QED
  BY <1>1, <1>2, <1>3, <1>4 DEF TypeOK

\* Each action of a pass keeps the types.
LEMMA TypePass ==
  ASSUME TypeOK, NEW w \in Worker, Pass(w)
  PROVE  TypeOK'
<1> USE DEF TypeOK, Goto, rows, world, workers, bounds
<1>1. RowTypes'
  <2> USE DEF RowTypes, CampaignStatus, TargetStatus, Claimed, Final
  <2>1. CASE Reclaim(w)
    BY <2>1 DEF Reclaim
  <2>2. CASE Settle(w)
    BY <2>2 DEF Settle, WorkerTypes
  <2>3. CASE OpenPass(w) \/ ReadEndings(w) \/ Start(w) \/ Announce(w) \/ FinishIfDone(w)
    BY <2>3 DEF OpenPass, ReadEndings, Start, Announce, FinishIfDone
  <2> QED
    BY <2>1, <2>2, <2>3, Pass(w) DEF Pass
<1>2. WorldTypes'
  BY Pass(w) DEF WorldTypes, Pass, Reclaim, OpenPass, ReadEndings, Settle, Start, Announce,
     FinishIfDone
<1>3. WorkerTypes'
  <2> USE DEF WorkerTypes, Stage, Dialling
  <2>1. CASE ReadEndings(w)
    <3>1. \A t \in Target : Ended(t) => call[t][attempts[t]] \in Reason
      BY DEF Ended, RowTypes, WorldTypes
    <3>2. plan' \in [Worker -> [Target -> PlanType]]
      BY <2>1, <3>1 DEF ReadEndings, PlanType, Nothing, Retries
    <3> QED
      BY <2>1, <3>1, <3>2 DEF ReadEndings, Nothing
  <2>2. CASE Settle(w)
    BY <2>2 DEF Settle, NoPlan, Nothing, PlanType
  <2>3. CASE Reclaim(w) \/ OpenPass(w)
    BY <2>3 DEF Reclaim, OpenPass
  <2>4. CASE Start(w) \/ FinishIfDone(w)
    BY <2>4 DEF Start, FinishIfDone
  <2>5. CASE Announce(w)
    BY <2>5 DEF Announce
  <2> QED
    BY <2>1, <2>2, <2>3, <2>4, <2>5, Pass(w) DEF Pass
<1>4. CounterTypes'
  <2> USE DEF CounterTypes, Event
  <2>1. CASE Announce(w)
    BY <2>1 DEF Announce
  <2>2. CASE Start(w) \/ FinishIfDone(w)
    BY <2>2 DEF Start, FinishIfDone
  <2>3. CASE Reclaim(w) \/ OpenPass(w) \/ ReadEndings(w) \/ Settle(w)
    BY <2>3 DEF Reclaim, OpenPass, ReadEndings, Settle
  <2> QED
    BY <2>1, <2>2, <2>3, Pass(w) DEF Pass
<1> QED
  BY <1>1, <1>2, <1>3, <1>4

\* Each step of a dial keeps the types.
LEMMA TypeDial ==
  ASSUME TypeOK, NEW w \in Worker, Dial(w)
  PROVE  TypeOK'
<1> USE DEF TypeOK, Goto, EndDial, Move, FinishTarget, Unclaim, rows, world, workers, bounds
<1>0. pc[w] \in Dialling => tgt[w] \in Target
  BY DEF WorkerTypes
<1>1. RowTypes'
  <2> USE DEF RowTypes, TargetStatus, Claimed, Final
  <2>1. CASE ReserveRefused(w) \/ NothingToClaim(w) \/ Check(w) \/ AskCarrier(w)
    BY <2>1 DEF ReserveRefused, NothingToClaim, Check, AskCarrier
  <2>2. ASSUME NEW t \in Target, Claim(w, t) \/ Defer(w, t)
        PROVE  RowTypes'
    <3>1. CASE Claim(w, t)
      BY <3>1 DEF Claim
    <3>2. CASE Defer(w, t)
      BY <3>2 DEF Defer
    <3> QED
      BY <2>2, <3>1, <3>2
  <2>3. CASE BeginPlacing(w)
    BY <2>3 DEF BeginPlacing
  <2>4. CASE RecordDial(w)
    <3>1. tgt[w] \in Target
      BY <1>0, <2>4 DEF RecordDial, Dialling
    <3>2. attempts' \in [Target -> Nat]
      BY <2>4, <3>1 DEF RecordDial
    <3> QED
      BY <2>4, <3>1, <3>2 DEF RecordDial
  <2>5. CASE NotRecorded(w) \/ NotDialled(w)
    BY <2>5 DEF NotRecorded, NotDialled
  <2> QED
    BY <2>1, <2>2, <2>3, <2>4, <2>5, Dial(w) DEF Dial
<1>2. WorldTypes'
  <2> USE DEF WorldTypes
  <2>1. CASE AskCarrier(w)
    <3>1. tgt[w] \in Target
      BY <1>0, <2>1 DEF AskCarrier, Dialling
    <3>2. Append(call[tgt[w]], "up") \in Seq(Reason \cup {"up"})
      BY <3>1
    <3> QED
      BY <2>1, <3>1, <3>2 DEF AskCarrier
  <2> QED
    BY <2>1, Dial(w) DEF Dial, ReserveRefused, NothingToClaim, Claim, Defer, Check,
       BeginPlacing, RecordDial, NotRecorded, NotDialled
<1>3. WorkerTypes'
  <2> USE DEF WorkerTypes, Stage, Dialling
  <2>1. CASE ReserveRefused(w) \/ NothingToClaim(w) \/ Check(w) \/ BeginPlacing(w) \/ AskCarrier(w)
    BY <2>1 DEF ReserveRefused, NothingToClaim, Check, BeginPlacing, AskCarrier
  <2>2. ASSUME NEW t \in Target, Claim(w, t) \/ Defer(w, t)
        PROVE  WorkerTypes'
    <3>1. CASE Claim(w, t)
      BY <3>1, CampaignAssumption DEF Claim
    <3>2. CASE Defer(w, t)
      BY <3>2 DEF Defer
    <3> QED
      BY <2>2, <3>1, <3>2
  <2>3. CASE RecordDial(w) \/ NotRecorded(w) \/ NotDialled(w)
    BY <2>3 DEF RecordDial, NotRecorded, NotDialled
  <2> QED
    BY <2>1, <2>2, <2>3, Dial(w) DEF Dial
<1>4. CounterTypes'
  <2> USE DEF CounterTypes
  <2>1. CASE \E t \in Target : Claim(w, t) \/ Defer(w, t)
    BY <2>1 DEF Claim, Defer
  <2>2. CASE ReserveRefused(w) \/ NothingToClaim(w) \/ Check(w) \/ BeginPlacing(w)
    BY <2>2 DEF ReserveRefused, NothingToClaim, Check, BeginPlacing
  <2>3. CASE AskCarrier(w) \/ RecordDial(w) \/ NotRecorded(w) \/ NotDialled(w)
    BY <2>3 DEF AskCarrier, RecordDial, NotRecorded, NotDialled
  <2> QED
    BY <2>1, <2>2, <2>3, Dial(w) DEF Dial
<1> QED
  BY <1>1, <1>2, <1>3, <1>4

\* The operator, the callers, time and failure keep the types.
LEMMA TypeOthers ==
  ASSUME TypeOK,
         \/ \E w \in Worker : Crash(w)
         \/ Control
         \/ \E t \in Target : Environment(t)
  PROVE  TypeOK'
<1> USE DEF TypeOK, rows, world, workers, bounds
<1>1. ASSUME NEW w \in Worker, Crash(w) PROVE TypeOK'
  BY <1>1 DEF Crash, RowTypes, WorldTypes, WorkerTypes, CounterTypes, Stage, Dialling,
     NoPlan, Nothing, PlanType
<1>2. CASE Control
  <2>1. CASE Pause \/ Resume
    BY <2>1 DEF Pause, Resume, RowTypes, WorldTypes, WorkerTypes, CounterTypes,
       CampaignStatus
  <2>2. CASE Cancel
    <3>1. status' \in [Target -> TargetStatus] /\ stale' \in [Target -> BOOLEAN]
      BY <2>2 DEF Cancel, RowTypes, TargetStatus, Final
    <3>2. RowTypes'
      BY <2>2, <3>1 DEF Cancel, RowTypes, CampaignStatus
    <3> QED
      BY <2>2, <3>2 DEF Cancel, WorldTypes, WorkerTypes, CounterTypes
  <2>3. CASE AnnounceCancel
    <3>1. announced' \in [Event -> Nat]
      BY <2>3 DEF AnnounceCancel, CounterTypes, Event
    <3> QED
      BY <2>3, <3>1 DEF AnnounceCancel, RowTypes, WorldTypes, WorkerTypes, CounterTypes
  <2> QED
    BY <1>2, <2>1, <2>2, <2>3 DEF Control
<1>3. ASSUME NEW t \in Target, Environment(t) PROVE TypeOK'
  <2>1. ASSUME NEW n \in DOMAIN call[t], NEW r \in Reason, CallEnds(t, n, r)
        PROVE  TypeOK'
    BY <2>1 DEF CallEnds, RowTypes, WorldTypes, WorkerTypes, CounterTypes
  <2>2. CASE OptOut(t) \/ WindowOpens(t) \/ WindowCloses(t)
    BY <2>2 DEF OptOut, WindowOpens, WindowCloses, RowTypes, WorldTypes, WorkerTypes,
       CounterTypes
  <2>3. CASE ClaimAges(t) \/ TimeComes(t)
    <3> USE <2>3 DEF ClaimAges, TimeComes
    <3>1. RowTypes'
      BY DEF RowTypes
    <3>2. WorldTypes' /\ WorkerTypes' /\ CounterTypes'
      BY DEF WorldTypes, WorkerTypes, CounterTypes
    <3> QED
      BY <3>1, <3>2
  <2> QED
    BY <1>3, <2>1, <2>2, <2>3 DEF Environment
<1> QED
  BY <1>1, <1>2, <1>3

\* Every state of the campaign is well typed: the dialler never leaves a target without
\* a status or a worker dialling nothing.
THEOREM TypeCorrect == Spec => []TypeOK
<1>1. TypeOK /\ [Next]_vars => TypeOK'
  <2> SUFFICES ASSUME TypeOK, [Next]_vars PROVE TypeOK'
    OBVIOUS
  <2>1. CASE Next
    BY <2>1, TypePass, TypeDial, TypeOthers DEF Next
  <2>2. CASE UNCHANGED vars
    BY <2>2 DEF vars, rows, world, workers, bounds, TypeOK, RowTypes, WorldTypes,
       WorkerTypes, CounterTypes
  <2> QED
    BY <2>1, <2>2
<1> QED
  BY TypeInit, <1>1, PTL DEF Spec

-----------------------------------------------------------------------------
(* The row, the rings and the worker at the carrier                        *)

\* A step that places no call and records none, brings no worker to the carrier and
\* takes no target back from `placing` or a final status, keeps them in agreement.
LEMMA KeepsCarrier ==
  ASSUME TypeOK, CarrierInv, call' = call, attempts' = attempts,
         \A w \in Worker : pc'[w] \in {"asking", "asked"} => pc'[w] = pc[w] /\ tgt'[w] = tgt[w],
         \A t \in Target : status[t] \in {"placing"} \cup Final
                            => status'[t] \in {"placing"} \cup Final
  PROVE  CarrierInv'
<1> USE DEF CarrierInv, AtCarrier
<1>1. OneAsker'
  BY DEF OneAsker
<1>2. CarrierRow'
  BY DEF CarrierRow, TypeOK, WorkerTypes, Dialling
<1>3. RingCounts'
  BY DEF RingCounts
<1> QED
  BY <1>1, <1>2, <1>3

LEMMA CarrierPass ==
  ASSUME TypeOK, CarrierInv, NEW w \in Worker, Pass(w)
  PROVE  CarrierInv'
<1> USE DEF TypeOK, WorkerTypes, RowTypes, Goto, rows, world
<1>1. call' = call /\ attempts' = attempts
  BY Pass(w) DEF Pass, Reclaim, OpenPass, ReadEndings, Settle, Start, Announce, FinishIfDone
<1>2. \A v \in Worker : pc'[v] \in {"asking", "asked"} => pc'[v] = pc[v] /\ tgt'[v] = tgt[v]
  BY Pass(w) DEF Pass, Reclaim, OpenPass, ReadEndings, Settle, Start, Announce, FinishIfDone
<1>3. \A t \in Target : status[t] \in {"placing"} \cup Final
                        => status'[t] \in {"placing"} \cup Final
  <2>1. CASE Reclaim(w)
    BY <2>1 DEF Reclaim, Final
  <2>2. CASE Settle(w)
    BY <2>2 DEF Settle, Final
  <2> QED
    BY <2>1, <2>2, Pass(w) DEF Pass, OpenPass, ReadEndings, Start, Announce, FinishIfDone
<1> HIDE DEF TypeOK
<1> QED
  BY <1>1, <1>2, <1>3, KeepsCarrier

LEMMA CarrierDial ==
  ASSUME TypeOK, CarrierInv, NEW w \in Worker, Dial(w)
  PROVE  CarrierInv'
<1> DEFINE Quiet == \/ ReserveRefused(w) \/ NothingToClaim(w) \/ Check(w)
                    \/ NotRecorded(w) \/ NotDialled(w)
                    \/ \E t \in Target : Claim(w, t) \/ Defer(w, t)
<1>0. pc[w] \in Dialling => tgt[w] \in Target
  BY DEF TypeOK, WorkerTypes
<1>1. CASE Quiet
  <2> USE DEF Goto, EndDial, Move, FinishTarget, Unclaim, rows, world
  <2>1. call' = call /\ attempts' = attempts
    BY <1>1 DEF ReserveRefused, NothingToClaim, Check, NotRecorded, NotDialled, Claim, Defer
  <2>2. \A v \in Worker : pc'[v] \in {"asking", "asked"} => pc'[v] = pc[v] /\ tgt'[v] = tgt[v]
    BY <1>1 DEF ReserveRefused, NothingToClaim, Check, NotRecorded, NotDialled, Claim,
       Defer,
       TypeOK, WorkerTypes, workers
  <2>3. \A t \in Target : status[t] \in {"placing"} \cup Final
                          => status'[t] \in {"placing"} \cup Final
    BY <1>1 DEF ReserveRefused, NothingToClaim, Check, NotRecorded, NotDialled, Claim,
       Defer,
       TypeOK, RowTypes, Claimable, Pending, Final
  <2> QED
    BY <2>1, <2>2, <2>3, KeepsCarrier
<1>2. CASE BeginPlacing(w)
  <2> USE <1>2 DEF BeginPlacing, Goto
  <2>1. CASE status[tgt[w]] = "dialling" /\ campaign = "running"
    <3>1. tgt[w] \in Target
      BY <1>0 DEF Dialling
    <3>2. \A v \in Worker : AtCarrier(v) => tgt[v] # tgt[w]
      BY <2>1 DEF CarrierInv, CarrierRow, Final
    <3>3. /\ pc' = [pc EXCEPT ![w] = "asking"] /\ tgt' = tgt
          /\ status' = [status EXCEPT ![tgt[w]] = "placing"]
          /\ call' = call /\ attempts' = attempts
      BY <2>1 DEF world
    <3>4. Len(call[tgt[w]]) = attempts[tgt[w]]
      <4>1. attempts[tgt[w]] \in Nat
        BY <3>1 DEF TypeOK, RowTypes
      <4> QED
        BY <2>1, <3>1, <4>1 DEF CarrierInv, RingCounts, Final
    <3>5. OneAsker'
      BY <3>2, <3>3 DEF CarrierInv, OneAsker, AtCarrier, TypeOK, WorkerTypes
    <3>6. CarrierRow'
      BY <3>1, <3>3 DEF CarrierInv, CarrierRow, AtCarrier, TypeOK, WorkerTypes, RowTypes
    <3>7. RingCounts'
      BY <3>1, <3>3, <3>4 DEF CarrierInv, RingCounts, TypeOK, WorkerTypes, RowTypes
    <3> QED
      BY <3>5, <3>6, <3>7 DEF CarrierInv
  <2>2. CASE ~(status[tgt[w]] = "dialling" /\ campaign = "running")
    <3>1. /\ pc' = [pc EXCEPT ![w] = "handback"] /\ UNCHANGED <<tgt, status, call, attempts>>
      BY <2>2 DEF world
    <3>2. \A v \in Worker : pc'[v] \in {"asking", "asked"} => pc'[v] = pc[v] /\ tgt'[v] = tgt[v]
      BY <3>1 DEF TypeOK, WorkerTypes
    <3> QED
      BY <3>1, <3>2, KeepsCarrier
  <2> QED
    BY <2>1, <2>2
<1>3. CASE AskCarrier(w)
  <2>1. /\ pc[w] = "asking" /\ tgt[w] \in Target /\ UNCHANGED <<tgt, status, attempts>>
    BY <1>0, <1>3 DEF AskCarrier, Goto, Dialling, rows
  <2>2. \/ /\ pc' = [pc EXCEPT ![w] = "asked"]
           /\ call' = [call EXCEPT ![tgt[w]] = Append(@, "up")]
        \/ /\ pc' = [pc EXCEPT ![w] = "refused"]
           /\ call' \in {call, [call EXCEPT ![tgt[w]] = Append(@, "up")]}
    BY <1>3 DEF AskCarrier, Goto
  <2>3. /\ Len(call[tgt[w]]) = attempts[tgt[w]]
        /\ Len(Append(call[tgt[w]], "up")) = attempts[tgt[w]] + 1
        /\ status[tgt[w]] \in {"placing"} \cup Final
    BY <2>1 DEF CarrierInv, RingCounts, CarrierRow, AtCarrier, TypeOK, WorldTypes, RowTypes
  <2>4. \A t \in Target : t # tgt[w] => call'[t] = call[t]
    BY <2>1, <2>2 DEF TypeOK, WorldTypes
  <2>5. \A v \in Worker : v # w /\ AtCarrier(v) => tgt[v] # tgt[w]
    BY <2>1 DEF CarrierInv, OneAsker, AtCarrier
  <2>6. OneAsker' /\ CarrierRow'
    BY <2>1, <2>2 DEF CarrierInv, OneAsker, CarrierRow, AtCarrier, TypeOK, WorkerTypes
  <2>7. /\ call'[tgt[w]] \in {call[tgt[w]], Append(call[tgt[w]], "up")}
        /\ pc'[w] \in {"asked", "refused"}
        /\ pc'[w] = "asked" => call'[tgt[w]] = Append(call[tgt[w]], "up")
        /\ \A v \in Worker : v # w => pc'[v] = pc[v]
    BY <2>1, <2>2 DEF TypeOK, WorldTypes, WorkerTypes
  <2>8. RingCounts'
    <3>1. ASSUME NEW t \in Target
          PROVE  /\ Len(call'[t]) \in {attempts[t], attempts[t] + 1}
                 /\ Len(call'[t]) > attempts[t] => status[t] \in {"placing"} \cup Final
      BY <2>3, <2>4, <2>7 DEF CarrierInv, RingCounts
    <3>2. ASSUME NEW v \in Worker
          PROVE  /\ pc'[v] = "asking" => Len(call'[tgt[v]]) = attempts[tgt[v]]
                 /\ pc'[v] = "asked" => Len(call'[tgt[v]]) = attempts[tgt[v]] + 1
      <4>1. AtCarrier(v) => tgt[v] \in Target
        BY DEF AtCarrier, TypeOK, WorkerTypes, Dialling
      <4> QED
        BY <2>1, <2>3, <2>4, <2>5, <2>7, <4>1 DEF CarrierInv, RingCounts, AtCarrier
    <3> QED
      BY <2>1, <3>1, <3>2 DEF RingCounts
  <2> QED
    BY <2>6, <2>8 DEF CarrierInv
<1>4. CASE RecordDial(w)
  <2> DEFINE t == tgt[w]
  <2>1. /\ pc[w] = "asked" /\ t \in Target /\ call' = call
        /\ pc' = [pc EXCEPT ![w] = "next"] /\ tgt' = [tgt EXCEPT ![w] = NoTarget]
    BY <1>0, <1>4 DEF RecordDial, EndDial, Dialling, world
  <2>2. CASE status[t] = "placing"
    <3>1. /\ status' = [status EXCEPT ![t] = "calling"]
          /\ attempts' = [attempts EXCEPT ![t] = @ + 1]
      BY <1>4, <2>2 DEF RecordDial, Move
    <3>2. \A v \in Worker : v # w /\ AtCarrier(v) => tgt[v] # t
      BY <2>1 DEF CarrierInv, OneAsker, AtCarrier
    <3>3. Len(call[t]) = attempts[t] + 1
      BY <2>1 DEF CarrierInv, RingCounts
    <3>4. \A v \in Worker : AtCarrier(v)' => v # w /\ AtCarrier(v) /\ tgt'[v] = tgt[v] /\ pc'[v] = pc[v]
      BY <2>1 DEF AtCarrier, TypeOK, WorkerTypes
    <3>5. OneAsker'
      BY <3>4 DEF CarrierInv, OneAsker
    <3>6. CarrierRow'
      BY <2>1, <3>1, <3>2, <3>4 DEF CarrierInv, CarrierRow, TypeOK, RowTypes
    <3>7. RingCounts'
      <4>1. \A v \in Worker : AtCarrier(v)' => attempts'[tgt'[v]] = attempts[tgt[v]]
        BY <2>1, <3>1, <3>2, <3>4 DEF TypeOK, RowTypes
      <4>2. \A s \in Target : s # t => attempts'[s] = attempts[s] /\ status'[s] = status[s]
        BY <3>1 DEF TypeOK, RowTypes
      <4>3. attempts'[t] = attempts[t] + 1 /\ attempts[t] \in Nat
        BY <2>1, <3>1 DEF TypeOK, RowTypes
      <4>4. \A s \in Target : /\ Len(call'[s]) \in {attempts'[s], attempts'[s] + 1}
                              /\ Len(call'[s]) > attempts'[s]
                                   => status'[s] \in {"placing"} \cup Final
        BY <2>1, <3>3, <4>2, <4>3 DEF CarrierInv, RingCounts
      <4> QED
        BY <2>1, <3>4, <4>1, <4>4 DEF CarrierInv, RingCounts, AtCarrier
    <3> QED
      BY <3>5, <3>6, <3>7 DEF CarrierInv
  <2>3. CASE status[t] # "placing"
    <3>1. status' = status /\ attempts' = attempts
      BY <1>4, <2>3 DEF RecordDial, Move
    <3>2. \A v \in Worker : pc'[v] \in {"asking", "asked"} => pc'[v] = pc[v] /\ tgt'[v] = tgt[v]
      BY <2>1 DEF TypeOK, WorkerTypes
    <3> QED
      BY <2>1, <3>1, <3>2, KeepsCarrier
  <2> QED
    BY <2>2, <2>3
<1> QED
  BY <1>1, <1>2, <1>3, <1>4, Dial(w) DEF Dial

LEMMA CarrierOthers ==
  ASSUME TypeOK, CarrierInv,
         \/ \E w \in Worker : Crash(w)
         \/ Control
         \/ \E t \in Target : Environment(t)
  PROVE  CarrierInv'
<1>1. ASSUME NEW w \in Worker, Crash(w) PROVE CarrierInv'
  <2>1. call' = call /\ attempts' = attempts /\ status' = status
    BY <1>1 DEF Crash, rows, world
  <2>2. \A v \in Worker : pc'[v] \in {"asking", "asked"} => pc'[v] = pc[v] /\ tgt'[v] = tgt[v]
    BY <1>1 DEF Crash, TypeOK, WorkerTypes
  <2> QED
    BY <2>1, <2>2, KeepsCarrier
<1>2. CASE Control
  <2>1. call' = call /\ attempts' = attempts /\ pc' = pc /\ tgt' = tgt
    BY <1>2 DEF Control, Pause, Resume, Cancel, AnnounceCancel, rows, world, workers
  <2>2. \A t \in Target : status[t] \in {"placing"} \cup Final => status'[t] = status[t]
    BY <1>2 DEF Control, Pause, Resume, Cancel, AnnounceCancel, rows, Final, TypeOK,
       RowTypes
  <2> QED
    BY <2>1, <2>2, KeepsCarrier
<1>3. ASSUME NEW t \in Target, Environment(t) PROVE CarrierInv'
  <2>1. ASSUME NEW n \in DOMAIN call[t], NEW r \in Reason, CallEnds(t, n, r)
        PROVE  CarrierInv'
    <3>1. UNCHANGED <<status, attempts, pc, tgt>> /\ call' = [call EXCEPT ![t][n] = r]
      BY <2>1 DEF CallEnds, rows, workers
    <3>2. \A s \in Target : Len(call'[s]) = Len(call[s])
      BY <3>1 DEF TypeOK, WorldTypes
    <3>3. \A v \in Worker : AtCarrier(v) => tgt[v] \in Target
      BY DEF AtCarrier, TypeOK, WorkerTypes, Dialling
    <3>4. RingCounts'
      BY <3>1, <3>2, <3>3 DEF CarrierInv, RingCounts, AtCarrier
    <3> QED
      BY <3>1, <3>4 DEF CarrierInv, OneAsker, CarrierRow, AtCarrier
  <2>2. CASE OptOut(t) \/ ClaimAges(t) \/ TimeComes(t) \/ WindowOpens(t) \/ WindowCloses(t)
    <3>1. UNCHANGED <<status, attempts, call, pc, tgt>>
      BY <2>2 DEF OptOut, ClaimAges, TimeComes, WindowOpens, WindowCloses, rows, world,
         workers
    <3> QED
      BY <3>1, KeepsCarrier
  <2> QED
    BY <1>3, <2>1, <2>2 DEF Environment
<1> QED
  BY <1>1, <1>2, <1>3

\* The row, the rings and the worker at the carrier always agree.
THEOREM CarrierAgrees == Spec => []CarrierInv
<1>1. Init => CarrierInv
  BY DEF Init, CarrierInv, OneAsker, CarrierRow, RingCounts, AtCarrier
<1>2. TypeOK /\ CarrierInv /\ [Next]_vars => CarrierInv'
  <2> SUFFICES ASSUME TypeOK, CarrierInv, [Next]_vars PROVE CarrierInv'
    OBVIOUS
  <2>1. CASE Next
    BY <2>1, CarrierPass, CarrierDial, CarrierOthers DEF Next
  <2>2. CASE UNCHANGED vars
    BY <2>2, KeepsCarrier DEF vars, rows, world, workers
  <2> QED
    BY <2>1, <2>2
<1> QED
  BY TypeCorrect, <1>1, <1>2, PTL DEF Spec

\* Two workers never stand between begin_placing and the record of one target's dial,
\* however many there are and whichever claims the janitor gave away.
THEOREM OneAskerHolds == Spec => []OneAsker
<1>1. CarrierInv => OneAsker
  BY DEF CarrierInv
<1> QED
  BY CarrierAgrees, <1>1, PTL

\* A ring nobody recorded is the last of its target.
THEOREM UnknownNeverRedialledHolds == Spec => []UnknownNeverRedialled
<1>1. TypeOK /\ CarrierInv => UnknownNeverRedialled
  <2> SUFFICES ASSUME TypeOK, CarrierInv, NEW t \in Target
               PROVE  /\ Len(call[t]) <= attempts[t] + 1
                      /\ Len(call[t]) > attempts[t] => status[t] \in {"placing"} \cup Final
    BY DEF UnknownNeverRedialled
  <2>1. attempts[t] \in Nat
    BY DEF TypeOK, RowTypes
  <2> QED
    BY <2>1 DEF CarrierInv, RingCounts
<1> QED
  BY TypeCorrect, CarrierAgrees, <1>1, PTL

-----------------------------------------------------------------------------
(* A campaign with one worker                                              *)

\* A step that neither rings a phone nor ends a call, makes no target wait for a dial and
\* settles none, leaves a lone worker's view of the targets true.
LEMMA KeepsAlone ==
  ASSUME TypeOK, AloneInv, call' = call, attempts' = attempts,
         AskedWhilePlacing', PlanIsFresh',
         \A t \in Target : /\ status'[t] \in Redialled => status[t] \in Redialled
                           /\ status'[t] = "calling" => status[t] = "calling"
                           /\ status'[t] = "completed" => status[t] = "completed" /\ reason'[t] = reason[t]
  PROVE  AloneInv'
<1> USE DEF AloneInv
<1>1. DialsLeft'
  BY DEF DialsLeft, Within
<1>2. UpIsLast'
  BY DEF UpIsLast
<1>3. SettledAsEnded'
  BY DEF SettledAsEnded
<1> QED
  BY <1>1, <1>2, <1>3 DEF OneWorker

\* A lone worker holds a plan only between its reading and its writing.
LEMMA NoPlanElsewhere ==
  ASSUME AloneInv, NEW w \in Worker, pc[w] \notin {"settle", "settle_only"},
         \/ plan' = plan
         \/ TypeOK /\ plan' = [plan EXCEPT ![w] = NoPlan]
  PROVE  PlanIsFresh'
<1>1. \A v \in Worker : v = w
  BY DEF AloneInv, OneWorker
<1>2. \A t \in Target : plan[w][t] = Nothing
  BY DEF AloneInv, PlanIsFresh
<1>3. \A t \in Target : plan'[w][t] = Nothing
  BY <1>2 DEF TypeOK, WorkerTypes, NoPlan
<1> QED
  BY <1>1, <1>3 DEF PlanIsFresh

LEMMA AlonePass ==
  ASSUME TypeOK, CarrierInv, AloneInv, NEW w \in Worker, Pass(w)
  PROVE  AloneInv'
<1> USE DEF TypeOK, WorkerTypes, RowTypes, Goto, rows, world
<1>0. \A v \in Worker : v = w
  BY DEF AloneInv, OneWorker
<1>1. call' = call /\ attempts' = attempts
  BY Pass(w) DEF Pass, Reclaim, OpenPass, ReadEndings, Settle, Start, Announce, FinishIfDone
<1>2. AskedWhilePlacing'
  <2>1. pc'[w] \notin {"asking", "asked"}
    BY Pass(w) DEF Pass, Reclaim, OpenPass, ReadEndings, Settle, Start, Announce, FinishIfDone
  <2> QED
    BY <1>0, <2>1 DEF AskedWhilePlacing, AtCarrier
<1>3. CASE ReadEndings(w)
  <2>1. PlanIsFresh'
    <3>1. \A t \in Target : plan'[w][t] =
            IF Ended(t) THEN [reason |-> LastCall(t), retry |-> Retries(LastCall(t), attempts[t])]
                        ELSE Nothing
      BY <1>3 DEF ReadEndings
    <3>2. pc'[w] \in {"settle", "settle_only"} /\ status' = status
      BY <1>3 DEF ReadEndings
    <3> QED
      BY <1>0, <1>1, <3>1, <3>2 DEF PlanIsFresh, Ended, Retries
  <2>2. status' = status /\ reason' = reason
    BY <1>3 DEF ReadEndings
  <2> QED
    BY <1>1, <1>2, <2>1, <2>2, KeepsAlone
<1>4. CASE Settle(w)
  <2>1. ASSUME NEW t \in Target, plan[w][t] = Nothing
        PROVE  status'[t] = status[t] /\ reason'[t] = reason[t]
    BY <1>4, <2>1 DEF Settle
  <2>2. ASSUME NEW t \in Target, plan[w][t] # Nothing
        PROVE  /\ status[t] = "calling" /\ attempts[t] = Len(call[t]) /\ attempts[t] \in DOMAIN call[t]
               /\ LastCall(t) \in Reason /\ LastCall(t) # "up"
               /\ reason'[t] = LastCall(t)
               /\ \/ status'[t] = "pending" /\ Retries(LastCall(t), attempts[t])
                  \/ status'[t] = "completed"
    <3>1. /\ status[t] = "calling" /\ attempts[t] \in DOMAIN call[t]
          /\ plan[w][t] = [reason |-> LastCall(t), retry |-> Retries(LastCall(t), attempts[t])]
      BY <2>2 DEF AloneInv, PlanIsFresh
    <3>2. attempts[t] = Len(call[t])
      <4>1. attempts[t] \in Nat /\ Len(call[t]) \in {attempts[t], attempts[t] + 1}
        BY DEF CarrierInv, RingCounts
      <4>2. ~(Len(call[t]) > attempts[t])
        BY <3>1 DEF CarrierInv, RingCounts, Final
      <4> QED
        BY <4>1, <4>2
    <3>3. LastCall(t) \in Reason /\ LastCall(t) # "up"
      BY <2>2, <3>1
    <3>4. Retries(LastCall(t), attempts[t]) \in BOOLEAN
      BY DEF Retries
    <3>5. CASE Retries(LastCall(t), attempts[t])
      BY <1>4, <2>2, <3>1, <3>2, <3>3, <3>5 DEF Settle
    <3>6. CASE ~Retries(LastCall(t), attempts[t])
      BY <1>4, <2>2, <3>1, <3>2, <3>3, <3>6 DEF Settle, Claimed
    <3> QED
      BY <3>5, <3>6
  <2>3. PlanIsFresh'
    <3>1. \A t \in Target : plan'[w][t] = Nothing
      BY <1>4 DEF Settle, NoPlan
    <3> QED
      BY <1>0, <3>1 DEF PlanIsFresh
  <2>4. DialsLeft'
    <3>1. ASSUME NEW t \in Target, plan[w][t] # Nothing, status'[t] = "pending"
          PROVE  Within(attempts[t] + 1)
      <4>1. attempts[t] < MaxDials[LastCall(t)] /\ LastCall(t) \in Reason
        BY <2>2, <3>1 DEF Retries
      <4>2. attempts[t] \in Nat /\ MaxDials[LastCall(t)] \in Nat
        BY <4>1
      <4> QED
        BY <4>1, <4>2 DEF Within
    <3> QED
      BY <1>1, <2>1, <2>2, <3>1 DEF AloneInv, DialsLeft, Redialled, Within
  <2>5. UpIsLast'
    BY <1>1, <2>1, <2>2 DEF AloneInv, UpIsLast, Redialled
  <2>6. SettledAsEnded'
    BY <1>1, <2>1, <2>2 DEF AloneInv, SettledAsEnded
  <2> QED
    BY <1>0, <1>2, <2>3, <2>4, <2>5, <2>6 DEF AloneInv, OneWorker
<1>5. CASE Reclaim(w) \/ OpenPass(w) \/ Start(w) \/ Announce(w) \/ FinishIfDone(w)
  <2>1. PlanIsFresh'
    BY <1>5, NoPlanElsewhere DEF Reclaim, OpenPass, Start, Announce, FinishIfDone
  <2>2. reason' = reason
    BY <1>5 DEF Reclaim, OpenPass, Start, Announce, FinishIfDone
  <2>3. \A t \in Target : \/ status'[t] = status[t]
                          \/ status'[t] \in {"pending", "failed"} /\ status[t] \in Redialled
    BY <1>5 DEF Reclaim, OpenPass, Start, Announce, FinishIfDone, Redialled
  <2> QED
    BY <1>1, <1>2, <2>1, <2>2, <2>3, KeepsAlone DEF Redialled
<1> QED
  BY <1>3, <1>4, <1>5, Pass(w) DEF Pass

\* Asking the carrier rings a phone the policy has a dial left for, and that is not up.
LEMMA AloneAsks ==
  ASSUME TypeOK, CarrierInv, AloneInv, NEW w \in Worker, AskCarrier(w)
  PROVE  AloneInv'
<1> DEFINE t == tgt[w]
<1>0. \A v \in Worker : v = w
  BY DEF AloneInv, OneWorker
<1>1. /\ pc[w] = "asking" /\ t \in Target /\ pc'[w] \in {"asked", "refused"}
      /\ UNCHANGED <<tgt, status, attempts, reason, plan>>
  BY AskCarrier(w) DEF AskCarrier, Goto, rows, TypeOK, WorkerTypes, Dialling
<1>2. status[t] = "placing" /\ Len(call[t]) = attempts[t] /\ Within(attempts[t] + 1)
  BY <1>1 DEF AloneInv, AskedWhilePlacing, AtCarrier, DialsLeft, Redialled, CarrierInv, RingCounts
<1>3. /\ \A s \in Target : s # t => call'[s] = call[s]
      /\ call'[t] \in {call[t], Append(call[t], "up")}
  BY <1>1, AskCarrier(w) DEF AskCarrier, TypeOK, WorldTypes
<1>4. call[t] \in Seq(Reason \cup {"up"})
  BY <1>1 DEF TypeOK, WorldTypes
<1>5. AskedWhilePlacing'
  BY <1>0, <1>1, <1>2 DEF AskedWhilePlacing
<1>6. PlanIsFresh'
  BY <1>1, NoPlanElsewhere
<1>7. DialsLeft'
  <2>1. Within(Len(call'[t]))
    BY <1>1, <1>2, <1>3, <1>4 DEF AloneInv, DialsLeft
  <2> QED
    BY <1>1, <1>3, <2>1 DEF AloneInv, DialsLeft
<1>8. UpIsLast'
  <2>1. \A n \in DOMAIN call[t] : call[t][n] # "up"
    BY <1>1, <1>2 DEF AloneInv, UpIsLast, Redialled
  <2>2. ASSUME NEW n \in DOMAIN call'[t], call'[t][n] = "up"
        PROVE  n = Len(call'[t]) /\ n # attempts[t]
    <3>1. call'[t] = Append(call[t], "up")
      BY <1>3, <2>1, <2>2
    <3>2. n \in 1..(Len(call[t]) + 1) /\ Len(call'[t]) = Len(call[t]) + 1
      BY <1>4, <3>1
    <3>3. n \in 1..Len(call[t]) => call'[t][n] = call[t][n]
      BY <1>4, <3>1
    <3>4. n \notin 1..Len(call[t])
      BY <1>4, <2>1, <2>2, <3>3
    <3> QED
      BY <1>2, <1>4, <3>2, <3>4
  <2> QED
    BY <1>1, <1>3, <2>2 DEF AloneInv, UpIsLast
<1>9. SettledAsEnded'
  BY <1>1, <1>2, <1>3 DEF AloneInv, SettledAsEnded
<1> QED
  BY <1>0, <1>5, <1>6, <1>7, <1>8, <1>9 DEF AloneInv, OneWorker

\* Recording the dial makes the ring the target's last recorded call.
LEMMA AloneRecords ==
  ASSUME TypeOK, CarrierInv, AloneInv, NEW w \in Worker, RecordDial(w)
  PROVE  AloneInv'
<1> DEFINE t == tgt[w]
<1>0. \A v \in Worker : v = w
  BY DEF AloneInv, OneWorker
<1>1. /\ pc[w] = "asked" /\ t \in Target /\ pc'[w] = "next"
      /\ UNCHANGED <<call, plan>>
  BY RecordDial(w) DEF RecordDial, EndDial, world, TypeOK, WorkerTypes, Dialling
<1>2. status[t] = "placing" /\ Len(call[t]) = attempts[t] + 1 /\ attempts[t] \in Nat
  BY <1>1 DEF AloneInv, AskedWhilePlacing, AtCarrier, CarrierInv, RingCounts, TypeOK, RowTypes
<1>3. /\ status'[t] = "calling" /\ attempts'[t] = attempts[t] + 1
      /\ \A s \in Target : s # t => status'[s] = status[s] /\ attempts'[s] = attempts[s]
                                    /\ reason'[s] = reason[s]
  BY <1>1, <1>2, RecordDial(w) DEF RecordDial, Move, TypeOK, RowTypes
<1>4. AskedWhilePlacing'
  BY <1>0, <1>1 DEF AskedWhilePlacing, AtCarrier
<1>5. PlanIsFresh'
  BY <1>1, NoPlanElsewhere
<1>6. DialsLeft'
  BY <1>1, <1>2, <1>3 DEF AloneInv, DialsLeft, Redialled
<1>7. UpIsLast'
  BY <1>1, <1>3 DEF AloneInv, UpIsLast, Redialled
<1>8. SettledAsEnded'
  BY <1>1, <1>3 DEF AloneInv, SettledAsEnded
<1> QED
  BY <1>0, <1>4, <1>5, <1>6, <1>7, <1>8 DEF AloneInv, OneWorker

LEMMA AloneDial ==
  ASSUME TypeOK, CarrierInv, AloneInv, NEW w \in Worker, Dial(w)
  PROVE  AloneInv'
<1> DEFINE Quiet == \/ ReserveRefused(w) \/ NothingToClaim(w) \/ Check(w) \/ BeginPlacing(w)
                    \/ NotRecorded(w) \/ NotDialled(w)
                    \/ \E t \in Target : Claim(w, t) \/ Defer(w, t)
<1>0. \A v \in Worker : v = w
  BY DEF AloneInv, OneWorker
<1>1. CASE Quiet
  <2> USE DEF Goto, EndDial, Move, FinishTarget, Unclaim, rows, world, workers
  <2>1. call' = call /\ attempts' = attempts /\ plan' = plan /\ pc[w] \notin {"settle", "settle_only"}
    BY <1>1 DEF ReserveRefused, NothingToClaim, Check, BeginPlacing, NotRecorded, NotDialled,
       Claim, Defer
  <2>2. PlanIsFresh'
    BY <2>1, NoPlanElsewhere
  <2>3. AskedWhilePlacing'
    <3>1. pc'[w] \notin {"asking", "asked"} \/ BeginPlacing(w)
      BY <1>1 DEF ReserveRefused, NothingToClaim, Check, NotRecorded, NotDialled, Claim, Defer,
         TypeOK, WorkerTypes
    <3>2. ASSUME BeginPlacing(w), pc'[w] \in {"asking", "asked"}
          PROVE  status'[tgt'[w]] = "placing"
      BY <3>2 DEF BeginPlacing, TypeOK, WorkerTypes, RowTypes, Dialling
    <3> QED
      BY <1>0, <3>1, <3>2 DEF AskedWhilePlacing, AtCarrier
  <2>4. \A s \in Target : \/ status'[s] = status[s] /\ reason'[s] = reason[s]
                          \/ status'[s] \in Redialled /\ status[s] \in Redialled
                          \/ status'[s] \in {"failed", "suppressed"}
    BY <1>1 DEF ReserveRefused, NothingToClaim, Check, BeginPlacing, NotRecorded, NotDialled,
       Claim, Defer, Claimable, Pending, TypeOK, RowTypes, Redialled
  <2> QED
    BY <2>1, <2>2, <2>3, <2>4, KeepsAlone DEF Redialled
<1> QED
  BY <1>1, AloneAsks, AloneRecords, Dial(w) DEF Dial

LEMMA AloneOthers ==
  ASSUME TypeOK, CarrierInv, AloneInv,
         \/ \E w \in Worker : Crash(w)
         \/ Control
         \/ \E t \in Target : Environment(t)
  PROVE  AloneInv'
<1>1. ASSUME NEW w \in Worker, Crash(w) PROVE AloneInv'
  <2>0. \A v \in Worker : v = w
    BY DEF AloneInv, OneWorker
  <2>1. UNCHANGED <<call, attempts, status, reason>>
    BY <1>1 DEF Crash, rows, world
  <2>2. pc'[w] = "idle" /\ plan'[w] = NoPlan
    BY <1>1 DEF Crash, TypeOK, WorkerTypes
  <2>3. AskedWhilePlacing' /\ PlanIsFresh'
    BY <2>0, <2>2 DEF AskedWhilePlacing, AtCarrier, PlanIsFresh, NoPlan
  <2> QED
    BY <2>1, <2>3, KeepsAlone
<1>2. CASE Control
  <2>1. UNCHANGED <<call, attempts, reason, pc, tgt, plan>>
    BY <1>2 DEF Control, Pause, Resume, Cancel, AnnounceCancel, rows, world, workers
  <2>2. \A t \in Target : \/ status'[t] = status[t]
                          \/ status'[t] = "cancelled" /\ status[t] \in {"pending", "dialling"}
    BY <1>2 DEF Control, Pause, Resume, Cancel, AnnounceCancel, rows, TypeOK, RowTypes
  <2>3. AskedWhilePlacing'
    <3>1. \A w \in Worker : AtCarrier(w) => tgt[w] \in Target
      BY DEF AtCarrier, TypeOK, WorkerTypes, Dialling
    <3> QED
      BY <2>1, <2>2, <3>1 DEF AloneInv, AskedWhilePlacing, AtCarrier
  <2>4. PlanIsFresh'
    BY <2>1, <2>2 DEF AloneInv, PlanIsFresh, Retries
  <2> QED
    BY <2>1, <2>2, <2>3, <2>4, KeepsAlone DEF Redialled
<1>3. ASSUME NEW t \in Target, Environment(t) PROVE AloneInv'
  <2>1. ASSUME NEW n \in DOMAIN call[t], NEW r \in Reason, CallEnds(t, n, r)
        PROVE  AloneInv'
    <3>1. UNCHANGED <<status, attempts, reason, pc, tgt, plan>> /\ call[t][n] = "up"
      BY <2>1 DEF CallEnds, rows, workers
    <3>2. /\ \A s \in Target : Len(call'[s]) = Len(call[s]) /\ DOMAIN call'[s] = DOMAIN call[s]
          /\ \A s \in Target : \A k \in DOMAIN call[s] : s # t \/ k # n => call'[s][k] = call[s][k]
          /\ call'[t][n] # "up"
      BY <2>1 DEF CallEnds, TypeOK, WorldTypes
    <3>3. AskedWhilePlacing'
      BY <3>1 DEF AloneInv, AskedWhilePlacing, AtCarrier
    <3>4. PlanIsFresh'
      <4>1. ASSUME NEW w \in Worker, NEW s \in Target, plan[w][s] # Nothing
            PROVE  attempts[s] \in DOMAIN call[s] /\ call[s][attempts[s]] # "up"
        <5>0. /\ attempts[s] \in DOMAIN call[s]
              /\ plan[w][s] = [reason |-> LastCall(s), retry |-> Retries(LastCall(s), attempts[s])]
          BY <4>1 DEF AloneInv, PlanIsFresh
        <5>1. attempts[s] \in DOMAIN call[s] /\ plan[w][s].reason = call[s][attempts[s]]
          BY <5>0
        <5>2. plan[w][s].reason \in Reason
          BY <4>1 DEF TypeOK, WorkerTypes
        <5> QED
          BY <5>1, <5>2
      <4> QED
        BY <3>1, <3>2, <4>1 DEF AloneInv, PlanIsFresh, Retries
    <3>5. DialsLeft'
      BY <3>1, <3>2 DEF AloneInv, DialsLeft
    <3>6. UpIsLast'
      BY <3>1, <3>2 DEF AloneInv, UpIsLast
    <3>7. SettledAsEnded'
      <4>1. ASSUME NEW s \in Target, status[s] = "completed"
            PROVE  call[s][attempts[s]] # "up"
        BY <4>1 DEF AloneInv, SettledAsEnded, TypeOK, RowTypes
      <4>2. ASSUME status[t] = "completed" PROVE n = attempts[t]
        BY <3>1, <4>2 DEF AloneInv, UpIsLast, SettledAsEnded
      <4>3. status[t] # "completed"
        BY <3>1, <4>1, <4>2
      <4> QED
        BY <3>1, <4>3, CallEnds(t, n, r) DEF CallEnds, AloneInv, SettledAsEnded, TypeOK, WorldTypes
    <3> QED
      BY <3>3, <3>4, <3>5, <3>6, <3>7 DEF AloneInv, OneWorker
  <2>2. CASE OptOut(t) \/ ClaimAges(t) \/ TimeComes(t) \/ WindowOpens(t) \/ WindowCloses(t)
    <3>1. UNCHANGED <<status, attempts, reason, call, pc, tgt, plan>>
      BY <2>2 DEF OptOut, ClaimAges, TimeComes, WindowOpens, WindowCloses, rows, world, workers
    <3>2. AskedWhilePlacing' /\ PlanIsFresh'
      BY <3>1 DEF AloneInv, AskedWhilePlacing, AtCarrier, PlanIsFresh, Retries
    <3> QED
      BY <3>1, <3>2, KeepsAlone
  <2> QED
    BY <1>3, <2>1, <2>2 DEF Environment
<1> QED
  BY <1>1, <1>2, <1>3

\* With one worker, a target's row and rings agree with what its worker last saw.
THEOREM AloneAgrees == OneWorker /\ Spec => []AloneInv
<1>1. OneWorker /\ Init => AloneInv
  BY DEF Init, AloneInv, AskedWhilePlacing, AtCarrier, PlanIsFresh, NoPlan, DialsLeft, Within,
     UpIsLast, SettledAsEnded
<1>2. TypeOK /\ CarrierInv /\ AloneInv /\ [Next]_vars => AloneInv'
  <2> SUFFICES ASSUME TypeOK, CarrierInv, AloneInv, [Next]_vars PROVE AloneInv'
    OBVIOUS
  <2>1. CASE Next
    BY <2>1, AlonePass, AloneDial, AloneOthers DEF Next
  <2>2. CASE UNCHANGED vars
    <3>1. UNCHANGED <<status, attempts, reason, call, pc, tgt, plan>>
      BY <2>2 DEF vars, rows, world, workers
    <3>2. AskedWhilePlacing' /\ PlanIsFresh'
      BY <3>1 DEF AloneInv, AskedWhilePlacing, AtCarrier, PlanIsFresh, Retries
    <3> QED
      BY <3>1, <3>2, KeepsAlone
  <2> QED
    BY <2>1, <2>2
<1> QED
  BY TypeCorrect, CarrierAgrees, <1>1, <1>2, PTL DEF Spec

\* max_attempts counts dials in all: with one worker, whatever dies or stalls, no target is
\* rung oftener than the most generous rule of the retry policy allows.
THEOREM DialsWithinPolicyHolds == OneWorker /\ Spec => []DialsWithinPolicy
<1>1. AloneInv => DialsWithinPolicy
  BY DEF AloneInv, DialsLeft, Within, DialsWithinPolicy
<1> QED
  BY AloneAgrees, <1>1, PTL

\* With one worker, a settled target reports the ending of its last call.
THEOREM SettledAsEndedHolds == OneWorker /\ Spec => []SettledAsEnded
<1>1. AloneInv => SettledAsEnded
  BY DEF AloneInv
<1> QED
  BY AloneAgrees, <1>1, PTL

\* With one worker, a person is on at most one call of the campaign at a time.
THEOREM OneCallAtATimeHolds == OneWorker /\ Spec => []OneCallAtATime
<1>1. AloneInv => OneCallAtATime
  <2> SUFFICES ASSUME AloneInv, NEW t \in Target
               PROVE  Cardinality({n \in DOMAIN call[t] : call[t][n] = "up"}) <= 1
    BY DEF OneCallAtATime
  <2> DEFINE Up == {n \in DOMAIN call[t] : call[t][n] = "up"}
  <2> SUFFICES Cardinality(Up) <= 1
    OBVIOUS
  <2>1. Up = {} \/ Up = {Len(call[t])}
    BY DEF AloneInv, UpIsLast
  <2>2. Cardinality({}) = 0 /\ Cardinality({Len(call[t])}) = 1
    BY FS_EmptySet, FS_Singleton
  <2> HIDE DEF Up
  <2>3. Cardinality(Up) \in {0, 1}
    BY <2>1, <2>2
  <2> QED
    BY <2>3
<1> QED
  BY AloneAgrees, <1>1, PTL

-----------------------------------------------------------------------------
(* Final targets, closed campaigns                                         *)

\* A campaign that is over stays as it is, and its targets are neither claimed nor
\* moved back.
LEMMA StepKeepsFinal ==
  ASSUME TypeOK, [Next]_vars
  PROVE  \A t \in Target : status[t] \in Final => status'[t] = status[t]
<1> USE DEF TypeOK, RowTypes, Final, Claimed
<1>1. ASSUME NEW w \in Worker, Pass(w)
      PROVE  \A t \in Target : status[t] \in Final => status'[t] = status[t]
  BY <1>1 DEF Pass, Reclaim, OpenPass, ReadEndings, Settle, Start, Announce, FinishIfDone,
     rows
<1>2. ASSUME NEW w \in Worker, Dial(w)
      PROVE  \A t \in Target : status[t] \in Final => status'[t] = status[t]
  <2>1. CASE \/ ReserveRefused(w) \/ NothingToClaim(w) \/ Check(w) \/ AskCarrier(w)
             \/ BeginPlacing(w) \/ RecordDial(w) \/ NotRecorded(w) \/ NotDialled(w)
    BY <2>1 DEF ReserveRefused, NothingToClaim, Check, AskCarrier, BeginPlacing, RecordDial,
       NotRecorded, NotDialled, Move, FinishTarget, Unclaim, rows
  <2>2. ASSUME NEW t \in Target, Claim(w, t) \/ Defer(w, t)
        PROVE  \A s \in Target : status[s] \in Final => status'[s] = status[s]
    BY <2>2 DEF Claim, Defer, Claimable, Pending
  <2> QED
    BY <1>2, <2>1, <2>2 DEF Dial
<1>3. ASSUME NEW w \in Worker, Crash(w)
      PROVE  \A t \in Target : status[t] \in Final => status'[t] = status[t]
  BY <1>3 DEF Crash, rows
<1>4. CASE Control
  BY <1>4 DEF Control, Pause, Resume, Cancel, AnnounceCancel, rows
<1>5. ASSUME NEW t \in Target, Environment(t)
      PROVE  \A s \in Target : status[s] \in Final => status'[s] = status[s]
  BY <1>5 DEF Environment, CallEnds, OptOut, ClaimAges, TimeComes, WindowOpens,
     WindowCloses, rows
<1>6. CASE UNCHANGED vars
  BY <1>6 DEF vars, rows
<1> QED
  BY <1>1, <1>2, <1>3, <1>4, <1>5, <1>6 DEF Next

\* A final target is final, whichever late worker, janitor or settling pass meets it.
THEOREM FinalIsFinalHolds == Spec => FinalIsFinal
<1>1. TypeOK /\ [Next]_vars
        => [\A t \in Target : status[t] \in Final => status'[t] = status[t]]_vars
  BY StepKeepsFinal
<1> QED
  BY TypeCorrect, <1>1, PTL DEF Spec, FinalIsFinal

\* Where the campaign's own status goes, and where a target becomes `dialling`.
LEMMA CampaignMoves ==
  ASSUME TypeOK, [Next]_vars
  PROVE  /\ campaign = "completed" => campaign' = "completed"
         /\ campaign # "completed" /\ campaign' = "completed"
              => status' = status /\ \A t \in Target : status[t] \in Final
         /\ campaign' = "cancelled" =>
              \A t \in Target : status'[t] = "dialling"
                => campaign = "cancelled" /\ status[t] = "dialling"
<1> DEFINE Goal ==
      /\ campaign = "completed" => campaign' = "completed"
      /\ campaign # "completed" /\ campaign' = "completed"
           => status' = status /\ \A t \in Target : status[t] \in Final
      /\ campaign' = "cancelled" =>
           \A t \in Target : status'[t] = "dialling"
             => campaign = "cancelled" /\ status[t] = "dialling"
<1> USE DEF TypeOK, RowTypes
<1>1. ASSUME NEW w \in Worker, Pass(w) PROVE Goal
  BY <1>1 DEF Pass, Reclaim, OpenPass, ReadEndings, Settle, Start, Announce, FinishIfDone,
     rows
<1>2. ASSUME NEW w \in Worker, Dial(w) PROVE Goal
  <2>1. campaign' = campaign
    BY <1>2 DEF Dial, ReserveRefused, NothingToClaim, Check, AskCarrier, BeginPlacing,
       RecordDial, NotRecorded, NotDialled, Claim, Defer, rows
  <2>2. CASE \/ ReserveRefused(w) \/ NothingToClaim(w) \/ Check(w) \/ AskCarrier(w)
             \/ BeginPlacing(w) \/ RecordDial(w) \/ NotRecorded(w) \/ NotDialled(w)
    BY <2>1, <2>2 DEF ReserveRefused, NothingToClaim, Check, AskCarrier, BeginPlacing,
       RecordDial, NotRecorded, NotDialled, Move, FinishTarget, Unclaim, rows
  <2>3. ASSUME NEW t \in Target, Claim(w, t) \/ Defer(w, t) PROVE Goal
    BY <2>1, <2>3 DEF Claim, Defer, Claimable
  <2> QED
    BY <1>2, <2>2, <2>3 DEF Dial
<1>3. ASSUME NEW w \in Worker, Crash(w) PROVE Goal
  BY <1>3 DEF Crash, rows
<1>4. CASE Control
  BY <1>4 DEF Control, Pause, Resume, Cancel, AnnounceCancel, rows
<1>5. ASSUME NEW t \in Target, Environment(t) PROVE Goal
  BY <1>5 DEF Environment, CallEnds, OptOut, ClaimAges, TimeComes, WindowOpens,
     WindowCloses, rows
<1>6. CASE UNCHANGED vars
  BY <1>6 DEF vars, rows
<1> QED
  BY <1>1, <1>2, <1>3, <1>4, <1>5, <1>6 DEF Next

\* A completed campaign has no target left to dial or to settle, for good.
THEOREM CompletedIsClosedHolds == Spec => []CompletedIsClosed
<1>1. Init => CompletedIsClosed
  BY DEF Init, CompletedIsClosed
<1>2. TypeOK /\ CompletedIsClosed /\ [Next]_vars => CompletedIsClosed'
  BY CampaignMoves, StepKeepsFinal DEF CompletedIsClosed
<1> QED
  BY TypeCorrect, <1>1, <1>2, PTL DEF Spec

\* No target of a cancelled campaign is on its way to the carrier.
THEOREM CancelStopsDialsHolds == Spec => []CancelStopsDials
<1>1. Init => CancelStopsDials
  BY DEF Init, CancelStopsDials
<1>2. TypeOK /\ CancelStopsDials /\ [Next]_vars => CancelStopsDials'
  BY CampaignMoves DEF CancelStopsDials
<1> QED
  BY TypeCorrect, <1>1, <1>2, PTL DEF Spec

-----------------------------------------------------------------------------
(* The events of a campaign                                                *)

Announcing == {"announce_started", "announce_completed"}

\* A step that moves neither the campaign nor its events, and has nobody newly announce.
LEMMA EventsRest ==
  ASSUME EventsInv, UNCHANGED <<campaign, started, announced, cancelling>>,
         \A w \in Worker : pc'[w] \in Announcing => pc'[w] = pc[w]
  PROVE  EventsInv'
<1>1. StartedOnce'
  BY DEF EventsInv, StartedOnce, Announcing
<1>2. CompletedOnce'
  BY DEF EventsInv, CompletedOnce, Announcing
<1>3. CancelledOnce'
  BY DEF EventsInv, CancelledOnce
<1> QED
  BY <1>1, <1>2, <1>3 DEF EventsInv

LEMMA EventsPass ==
  ASSUME TypeOK, EventsInv, NEW w \in Worker, Pass(w)
  PROVE  EventsInv'
<1>0. pc \in [Worker -> Stage] /\ announced \in [Event -> Nat] /\ campaign \in CampaignStatus
  BY DEF TypeOK, WorkerTypes, CounterTypes, RowTypes
<1>1. CASE Reclaim(w) \/ OpenPass(w) \/ ReadEndings(w) \/ Settle(w)
  <2>1. UNCHANGED <<campaign, started, announced, cancelling>>
    BY <1>1 DEF Reclaim, OpenPass, ReadEndings, Settle, rows
  <2>2. \A v \in Worker : pc'[v] \in Announcing => pc'[v] = pc[v]
    BY <1>0, <1>1 DEF Reclaim, OpenPass, ReadEndings, Settle, Goto, Announcing
  <2> QED
    BY <2>1, <2>2, EventsRest
<1>2. CASE Start(w)
  <2>1. CASE campaign = "queued"
    <3>1. /\ pc[w] = "start" /\ pc' = [pc EXCEPT ![w] = "announce_started"]
          /\ campaign' = "running" /\ started' = TRUE /\ UNCHANGED <<announced, cancelling>>
      BY <1>2, <2>1 DEF Start, Goto
    <3>2. StartedOnce'
      BY <1>0, <2>1, <3>1 DEF EventsInv, StartedOnce
    <3>3. CompletedOnce' /\ CancelledOnce'
      BY <1>0, <2>1, <3>1 DEF EventsInv, CompletedOnce, CancelledOnce
    <3> QED
      BY <3>2, <3>3 DEF EventsInv
  <2>2. CASE campaign # "queued"
    <3>1. pc' = [pc EXCEPT ![w] = "next"] /\ UNCHANGED <<campaign, started, announced, cancelling>>
      BY <1>2, <2>2 DEF Start, Goto, TypeOK, RowTypes
    <3> QED
      BY <1>0, <3>1, EventsRest DEF Announcing
  <2> QED
    BY <2>1, <2>2
<1>3. CASE Announce(w)
  <2>1. UNCHANGED <<campaign, started, cancelling>>
    BY <1>3 DEF Announce, rows
  <2>2. CASE Goto(w, "announce_started", "next")
    <3>1. /\ pc[w] = "announce_started" /\ pc' = [pc EXCEPT ![w] = "next"]
          /\ announced' = [announced EXCEPT !["started"] = @ + 1]
      BY <1>3, <2>2 DEF Announce, Goto
    <3>2. StartedOnce'
      BY <1>0, <2>1, <3>1 DEF EventsInv, StartedOnce, Event
    <3>3. CompletedOnce' /\ CancelledOnce'
      BY <1>0, <2>1, <3>1 DEF EventsInv, CompletedOnce, CancelledOnce, Event
    <3> QED
      BY <3>2, <3>3 DEF EventsInv
  <2>3. CASE Goto(w, "announce_completed", "idle")
    <3>1. /\ pc[w] = "announce_completed" /\ pc' = [pc EXCEPT ![w] = "idle"]
          /\ announced' = [announced EXCEPT !["completed"] = @ + 1]
      BY <1>3, <2>3 DEF Announce, Goto
    <3>2. CompletedOnce'
      BY <1>0, <2>1, <3>1 DEF EventsInv, CompletedOnce, Event
    <3>3. StartedOnce' /\ CancelledOnce'
      BY <1>0, <2>1, <3>1 DEF EventsInv, StartedOnce, CancelledOnce, Event
    <3> QED
      BY <3>2, <3>3 DEF EventsInv
  <2> QED
    BY <1>3, <2>2, <2>3 DEF Announce
<1>4. CASE FinishIfDone(w)
  <2>1. CASE AllFinal
    <3>1. /\ pc' = [pc EXCEPT ![w] = "announce_completed"] /\ campaign = "running"
          /\ campaign' = "completed" /\ UNCHANGED <<started, announced, cancelling>>
      BY <1>4, <2>1 DEF FinishIfDone, Goto
    <3>2. CompletedOnce'
      BY <1>0, <3>1 DEF EventsInv, CompletedOnce
    <3>3. StartedOnce' /\ CancelledOnce'
      BY <1>0, <3>1 DEF EventsInv, StartedOnce, CancelledOnce
    <3> QED
      BY <3>2, <3>3 DEF EventsInv
  <2>2. CASE ~AllFinal
    <3>1. pc' = [pc EXCEPT ![w] = "idle"] /\ UNCHANGED <<campaign, started, announced, cancelling>>
      BY <1>4, <2>2 DEF FinishIfDone, Goto
    <3> QED
      BY <1>0, <3>1, EventsRest DEF Announcing
  <2> QED
    BY <2>1, <2>2
<1> QED
  BY <1>1, <1>2, <1>3, <1>4 DEF Pass

LEMMA EventsOthers ==
  ASSUME TypeOK, EventsInv,
         \/ \E w \in Worker : Dial(w) \/ Crash(w)
         \/ Control
         \/ \E t \in Target : Environment(t)
  PROVE  EventsInv'
<1>0. pc \in [Worker -> Stage] /\ announced \in [Event -> Nat] /\ campaign \in CampaignStatus
  BY DEF TypeOK, WorkerTypes, CounterTypes, RowTypes
<1>1. ASSUME NEW w \in Worker, Dial(w) \/ Crash(w) PROVE EventsInv'
  <2>1. UNCHANGED <<campaign, started, announced, cancelling>>
    <3>1. CASE \/ ReserveRefused(w) \/ NothingToClaim(w) \/ Check(w) \/ AskCarrier(w)
               \/ BeginPlacing(w) \/ RecordDial(w) \/ NotRecorded(w) \/ NotDialled(w)
      BY <3>1 DEF ReserveRefused, NothingToClaim, Check, AskCarrier, BeginPlacing,
         RecordDial, NotRecorded, NotDialled, rows
    <3>2. CASE \E t \in Target : Claim(w, t) \/ Defer(w, t)
      BY <3>2 DEF Claim, Defer, rows
    <3>3. CASE Crash(w)
      BY <3>3 DEF Crash, rows
    <3> QED
      BY <1>1, <3>1, <3>2, <3>3 DEF Dial
  <2>2. \A v \in Worker : pc'[v] \in Announcing => pc'[v] = pc[v]
    <3>1. CASE \/ ReserveRefused(w) \/ NothingToClaim(w) \/ Check(w) \/ AskCarrier(w)
               \/ BeginPlacing(w) \/ RecordDial(w) \/ NotRecorded(w) \/ NotDialled(w)
      BY <1>0, <3>1 DEF ReserveRefused, NothingToClaim, Check, AskCarrier, BeginPlacing,
         RecordDial, NotRecorded, NotDialled, Goto, EndDial, Announcing
    <3>2. CASE \E t \in Target : Claim(w, t) \/ Defer(w, t)
      BY <1>0, <3>2 DEF Claim, Defer, Goto, EndDial, workers, Announcing
    <3>3. CASE Crash(w)
      BY <1>0, <3>3 DEF Crash, Announcing
    <3> QED
      BY <1>1, <3>1, <3>2, <3>3 DEF Dial
  <2> QED
    BY <2>1, <2>2, EventsRest
<1>2. CASE Pause \/ Resume
  <2>1. UNCHANGED <<started, pc, announced, cancelling>>
    BY <1>2 DEF Pause, Resume, workers
  <2>2. /\ campaign \notin {"completed", "cancelled"}
        /\ campaign' \notin {"completed", "cancelled"}
        /\ started => campaign' # "queued"
    BY <1>2 DEF Pause, Resume
  <2>3. StartedOnce' /\ CompletedOnce' /\ CancelledOnce'
    BY <2>1, <2>2 DEF EventsInv, StartedOnce, CompletedOnce, CancelledOnce
  <2> QED
    BY <2>3 DEF EventsInv
<1>3. CASE Cancel
  <2>1. /\ UNCHANGED <<started, pc, announced>> /\ campaign \notin {"completed", "cancelled"}
        /\ campaign' = "cancelled" /\ cancelling' = TRUE
    BY <1>3 DEF Cancel, workers
  <2>2. StartedOnce' /\ CompletedOnce' /\ CancelledOnce'
    BY <2>1 DEF EventsInv, StartedOnce, CompletedOnce, CancelledOnce
  <2> QED
    BY <2>2 DEF EventsInv
<1>4. CASE AnnounceCancel
  <2>1. /\ UNCHANGED <<campaign, started, pc>> /\ cancelling /\ cancelling' = FALSE
        /\ announced' = [announced EXCEPT !["cancelled"] = @ + 1]
    BY <1>4 DEF AnnounceCancel, rows, workers
  <2>2. CancelledOnce'
    BY <1>0, <2>1 DEF EventsInv, CancelledOnce, Event
  <2>3. StartedOnce' /\ CompletedOnce'
    BY <1>0, <2>1 DEF EventsInv, StartedOnce, CompletedOnce, Event
  <2> QED
    BY <2>2, <2>3 DEF EventsInv
<1>5. ASSUME NEW t \in Target, Environment(t) PROVE EventsInv'
  <2>1. UNCHANGED <<campaign, started, pc, announced, cancelling>>
    BY <1>5 DEF Environment, CallEnds, OptOut, ClaimAges, TimeComes, WindowOpens,
       WindowCloses, rows, workers
  <2> QED
    BY <2>1, EventsRest
<1> QED
  BY <1>1, <1>2, <1>3, <1>4, <1>5 DEF Control

\* Every event is dispatched at most once, and one ending is announced, however many
\* workers and operators reach the move.
THEOREM EventsOnceHolds == Spec => []EventsOnce
<1>1. Init => EventsInv
  BY DEF Init, EventsInv, StartedOnce, CompletedOnce, CancelledOnce, Event
<1>2. TypeOK /\ EventsInv /\ [Next]_vars => EventsInv'
  <2> SUFFICES ASSUME TypeOK, EventsInv, [Next]_vars PROVE EventsInv'
    OBVIOUS
  <2>1. CASE Next
    BY <2>1, EventsPass, EventsOthers DEF Next
  <2>2. CASE UNCHANGED vars
    BY <2>2, EventsRest DEF vars, rows, workers
  <2> QED
    BY <2>1, <2>2
<1>3. TypeOK /\ EventsInv => EventsOnce
  <2> SUFFICES ASSUME TypeOK, EventsInv PROVE EventsOnce
    OBVIOUS
  <2>1. announced["started"] \in Nat /\ announced["completed"] \in Nat /\ announced["cancelled"] \in Nat
    BY DEF TypeOK, CounterTypes, Event
  <2> QED
    BY <2>1 DEF EventsInv, StartedOnce, CompletedOnce, CancelledOnce, EventsOnce, Event
<1> QED
  BY TypeCorrect, <1>1, <1>2, <1>3, PTL DEF Spec

-----------------------------------------------------------------------------
(* The licence to ring                                                     *)

\* The phone of a target rings in one action only, and one action only makes a target
\* `placing`.
LEMMA WhoRings ==
  ASSUME TypeOK, [Next]_vars, NEW t \in Target
  PROVE  /\ status[t] # "placing" /\ status'[t] = "placing"
              => \E w \in Worker : BeginPlacing(w) /\ campaign = "running"
         /\ Len(call'[t]) # Len(call[t])
              => \E w \in Worker : pc[w] = "asking" /\ tgt[w] = t
<1> DEFINE Goal == /\ status[t] # "placing" /\ status'[t] = "placing"
                        => \E w \in Worker : BeginPlacing(w) /\ campaign = "running"
                   /\ Len(call'[t]) # Len(call[t])
                        => \E w \in Worker : pc[w] = "asking" /\ tgt[w] = t
<1> USE DEF TypeOK, RowTypes, WorldTypes
<1>1. ASSUME NEW w \in Worker, Pass(w) PROVE Goal
  BY <1>1 DEF Pass, Reclaim, OpenPass, ReadEndings, Settle, Start, Announce, FinishIfDone,
     rows, world
<1>2. ASSUME NEW w \in Worker, Dial(w) PROVE Goal
  <2>1. CASE AskCarrier(w)
    BY <2>1 DEF AskCarrier, Goto, rows
  <2>2. CASE BeginPlacing(w)
    BY <2>2 DEF BeginPlacing, world
  <2>3. CASE \/ ReserveRefused(w) \/ NothingToClaim(w) \/ Check(w)
             \/ RecordDial(w) \/ NotRecorded(w) \/ NotDialled(w)
    BY <2>3 DEF ReserveRefused, NothingToClaim, Check, RecordDial, NotRecorded, NotDialled,
       Move, FinishTarget, Unclaim, rows, world
  <2>4. ASSUME NEW s \in Target, Claim(w, s) \/ Defer(w, s) PROVE Goal
    BY <2>4 DEF Claim, Defer, world
  <2> QED
    BY <1>2, <2>1, <2>2, <2>3, <2>4 DEF Dial
<1>3. ASSUME NEW w \in Worker, Crash(w) PROVE Goal
  BY <1>3 DEF Crash, rows, world
<1>4. CASE Control
  BY <1>4 DEF Control, Pause, Resume, Cancel, AnnounceCancel, rows, world
<1>5. ASSUME NEW s \in Target, Environment(s) PROVE Goal
  <2>1. ASSUME NEW n \in DOMAIN call[s], NEW r \in Reason, CallEnds(s, n, r)
        PROVE  Goal
    <3>1. call' = [call EXCEPT ![s][n] = r] /\ status' = status
      BY <2>1 DEF CallEnds, rows
    <3>2. Len(call'[t]) = Len(call[t])
      BY <3>1
    <3> QED
      BY <3>1, <3>2
  <2>2. CASE OptOut(s) \/ ClaimAges(s) \/ TimeComes(s) \/ WindowOpens(s) \/ WindowCloses(s)
    BY <2>2 DEF OptOut, ClaimAges, TimeComes, WindowOpens, WindowCloses, rows, world
  <2> QED
    BY <1>5, <2>1, <2>2 DEF Environment
<1>6. CASE UNCHANGED vars
  BY <1>6 DEF vars, rows, world
<1> QED
  BY <1>1, <1>2, <1>3, <1>4, <1>5, <1>6 DEF Next

\* A phone rings only for a target begin_placing moved while its campaign ran.
THEOREM RingsOnlyOnceLicensedHolds == Spec => RingsOnlyOnceLicensed
<1> DEFINE Step == \A t \in Target :
      /\ status[t] # "placing" /\ status'[t] = "placing" => campaign = "running"
      /\ Len(call'[t]) > Len(call[t]) => status[t] \in {"placing"} \cup Final
<1>1. TypeOK /\ CarrierInv /\ [Next]_vars => Step
  <2> SUFFICES ASSUME TypeOK, CarrierInv, [Next]_vars, NEW t \in Target
               PROVE  /\ status[t] # "placing" /\ status'[t] = "placing"
                           => campaign = "running"
                      /\ Len(call'[t]) > Len(call[t]) => status[t] \in {"placing"} \cup Final
    OBVIOUS
  <2>1. Len(call[t]) \in Nat
    BY DEF TypeOK, WorldTypes
  <2> QED
    BY <2>1, WhoRings DEF CarrierInv, CarrierRow, AtCarrier
<1>2. TypeOK /\ CarrierInv /\ [Next]_vars => [Step]_vars
  BY <1>1
<1> QED
  BY TypeCorrect, CarrierAgrees, <1>2, PTL DEF Spec, RingsOnlyOnceLicensed

\* A step that rings nothing, records nothing and grants nothing.
LEMMA QuietLicence ==
  ASSUME TypeOK, call' = call, attempts' = attempts, Licensed' = Licensed,
         \A t \in Target :
           \/ status'[t] = status[t]
           \/ status[t] \in {"pending", "dialling"} /\ status'[t] \in {"pending", "dialling"}
           \/ status[t] \in TargetStatus \ Final /\ status'[t] \in Final
           \/ status[t] = "calling" /\ status'[t] = "pending"
  PROVE  Licence!Next
<1> SUFFICES ASSUME NEW t \in Target
             PROVE  Licence!Again(t) \/ Licence!Finish(t) \/ Licence!Same(t)
  BY DEF Licence!Next
<1>1. Licence!KeepsLicence(t) /\ Licence!KeepsCounts(t)
  BY DEF Licence!KeepsLicence, Licence!KeepsCounts, Rings
<1>2. Phase[t] = PhaseOf(status[t]) /\ Phase'[t] = PhaseOf(status'[t])
  BY DEF Phase
<1>3. CASE status'[t] = status[t]
  BY <1>1, <1>2, <1>3 DEF Licence!Same
<1>4. CASE status[t] \in {"pending", "dialling"} /\ status'[t] \in {"pending", "dialling"}
  BY <1>1, <1>2, <1>4 DEF Licence!Same, PhaseOf, Final
<1>5. CASE status[t] \in TargetStatus \ Final /\ status'[t] \in Final
  BY <1>1, <1>2, <1>5 DEF Licence!Finish, PhaseOf, Final, TargetStatus, Claimed
<1>6. CASE status[t] = "calling" /\ status'[t] = "pending"
  BY <1>1, <1>2, <1>6 DEF Licence!Again, PhaseOf, Final
<1> QED
  BY <1>3, <1>4, <1>5, <1>6

\* The workers that hold a licence are those the step leaves alone.
LEMMA SameLicences ==
  ASSUME \A w \in Worker : /\ pc'[w] = "asking" <=> pc[w] = "asking"
                           /\ pc[w] = "asking" => tgt'[w] = tgt[w]
  PROVE  Licensed' = Licensed
BY DEF Licensed

\* A step that gives the licence of one target up, and moves no row.
LEMMA OneLicenceOut ==
  ASSUME TypeOK, CarrierInv, NEW w \in Worker, pc[w] = "asking",
         pc'[w] # "asking", UNCHANGED <<status, attempts>>,
         \A v \in Worker \ {w} : pc'[v] = pc[v] /\ tgt'[v] = tgt[v],
         \A t \in Target : t # tgt[w] => call'[t] = call[t],
         call'[tgt[w]] \in {call[tgt[w]], Append(call[tgt[w]], "up")}
  PROVE  Licence!Next
<1>1. tgt[w] \in Target
  BY DEF TypeOK, WorkerTypes, Dialling
<1>2. Licensed' = Licensed \ {tgt[w]}
  BY DEF Licensed, CarrierInv, OneAsker, AtCarrier
<1>3. tgt[w] \in Licensed
  BY <1>1 DEF Licensed
<1> SUFFICES ASSUME NEW t \in Target
             PROVE  Licence!Ring(t) \/ Licence!Lose(t) \/ Licence!Same(t)
  BY DEF Licence!Next
<1>4. Phase'[t] = Phase[t] /\ attempts'[t] = attempts[t]
  BY DEF Phase, PhaseOf
<1>5. CASE t # tgt[w]
  BY <1>2, <1>4, <1>5 DEF Licence!Same, Licence!KeepsLicence, Licence!KeepsCounts, Rings
<1>6. CASE t = tgt[w]
  <2>1. CASE call'[t] = call[t]
    BY <1>2, <1>3, <1>4, <1>6, <2>1 DEF Licence!Lose, Licence!KeepsCounts, Rings
  <2>2. CASE call'[t] = Append(call[t], "up")
    <3>1. Len(call'[t]) = Len(call[t]) + 1
      BY <2>2 DEF TypeOK, WorldTypes
    <3>2. Rings'[t] = Rings[t] + 1
      BY <3>1 DEF Rings
    <3> QED
      BY <1>2, <1>3, <1>4, <1>6, <3>2 DEF Licence!Ring
  <2> QED
    BY <1>6, <2>1, <2>2
<1> QED
  BY <1>5, <1>6

\* A step that moves one target, to `placing` or to `calling`, with the licences given.
LEMMA OneTargetMoves ==
  ASSUME TypeOK, NEW t \in Target, NEW s, status' = [status EXCEPT ![t] = s], call' = call,
         NEW n, attempts' = [attempts EXCEPT ![t] = n],
         Licence!Grant(t) \/ Licence!Record(t),
         \A u \in Target : u # t => (u \in Licensed' <=> u \in Licensed)
  PROVE  Licence!Next
<1> SUFFICES ASSUME NEW u \in Target, u # t
             PROVE  Licence!Same(u)
  BY DEF Licence!Next
<1>1. status'[u] = status[u] /\ attempts'[u] = attempts[u]
  BY DEF TypeOK, RowTypes
<1>2. Phase'[u] = Phase[u]
  BY <1>1 DEF Phase, PhaseOf
<1> QED
  BY <1>1, <1>2 DEF Licence!Same, Licence!KeepsLicence, Licence!KeepsCounts, Rings

LEMMA LicenceDial ==
  ASSUME TypeOK, CarrierInv, NEW w \in Worker, Dial(w)
  PROVE  Licence!Next
<1>0. pc[w] \in Dialling => tgt[w] \in Target
  BY DEF TypeOK, WorkerTypes
<1>1. CASE \/ ReserveRefused(w) \/ NothingToClaim(w) \/ Check(w)
           \/ NotRecorded(w) \/ NotDialled(w)
           \/ \E t \in Target : Claim(w, t) \/ Defer(w, t)
  <2> USE DEF Goto, EndDial, Move, FinishTarget, Unclaim, rows, world, workers
  <2>1. call' = call /\ attempts' = attempts
    BY <1>1 DEF ReserveRefused, NothingToClaim, Check, NotRecorded, NotDialled, Claim, Defer
  <2>2. Licensed' = Licensed
    <3>1. \A v \in Worker : /\ pc'[v] = "asking" <=> pc[v] = "asking"
                            /\ pc[v] = "asking" => tgt'[v] = tgt[v]
      BY <1>1 DEF ReserveRefused, NothingToClaim, Check, NotRecorded, NotDialled, Claim,
         Defer, TypeOK, WorkerTypes
    <3> QED
      BY <3>1, SameLicences
  <2>3. ASSUME NEW t \in Target
        PROVE  \/ status'[t] = status[t]
               \/ status[t] \in {"pending", "dialling"} /\ status'[t] \in {"pending", "dialling"}
               \/ status[t] \in TargetStatus \ Final /\ status'[t] \in Final
    <3>1. CASE ReserveRefused(w) \/ NothingToClaim(w) \/ Check(w)
      BY <3>1 DEF ReserveRefused, NothingToClaim, Check
    <3>2. CASE NotRecorded(w) \/ NotDialled(w)
      BY <3>2 DEF NotRecorded, NotDialled, TypeOK, RowTypes, TargetStatus, Claimed, Final
    <3>3. CASE \E u \in Target : Claim(w, u) \/ Defer(w, u)
      BY <3>3 DEF Claim, Defer, Claimable, Pending, TypeOK, RowTypes
    <3> QED
      BY <1>1, <3>1, <3>2, <3>3
  <2> QED
    BY <2>1, <2>2, <2>3, QuietLicence
<1>2. CASE BeginPlacing(w)
  <2>1. pc[w] = "checked" /\ tgt[w] \in Target /\ tgt' = tgt /\ call' = call /\ attempts' = attempts
    BY <1>0, <1>2 DEF BeginPlacing, Goto, Dialling, world
  <2>2. CASE status[tgt[w]] = "dialling" /\ campaign = "running"
    <3> DEFINE t == tgt[w]
    <3>1. status' = [status EXCEPT ![t] = "placing"] /\ pc' = [pc EXCEPT ![w] = "asking"]
      BY <1>2, <2>2 DEF BeginPlacing, Goto
    <3>2. Licensed' = Licensed \cup {t}
      BY <2>1, <3>1 DEF Licensed, TypeOK, WorkerTypes
    <3>3. t \notin Licensed
      BY <2>2 DEF Licensed, CarrierInv, CarrierRow, AtCarrier, Final
    <3>4. Len(call[t]) = attempts[t]
      <4>1. attempts[t] \in Nat
        BY <2>1 DEF TypeOK, RowTypes
      <4> QED
        BY <2>1, <2>2, <4>1 DEF CarrierInv, RingCounts, Final
    <3>5. Phase[t] = "waiting" /\ Phase'[t] = "placing"
      <4>1. status'[t] = "placing"
        BY <2>1, <3>1 DEF TypeOK, RowTypes
      <4> QED
        BY <2>1, <2>2, <4>1 DEF Phase, PhaseOf, Final
    <3>6. Licence!Grant(t)
      BY <2>1, <3>2, <3>3, <3>4, <3>5 DEF Licence!Grant, Licence!KeepsCounts, Rings
    <3>7. attempts' = [attempts EXCEPT ![t] = attempts[t]]
      BY <2>1 DEF TypeOK, RowTypes
    <3> QED
      BY <2>1, <3>1, <3>2, <3>6, <3>7, OneTargetMoves
  <2>3. CASE ~(status[tgt[w]] = "dialling" /\ campaign = "running")
    <3>1. pc' = [pc EXCEPT ![w] = "handback"] /\ status' = status
      BY <1>2, <2>3 DEF BeginPlacing, Goto
    <3>2. Licensed' = Licensed
      BY <2>1, <3>1, SameLicences DEF TypeOK, WorkerTypes
    <3> QED
      BY <2>1, <3>1, <3>2, QuietLicence
  <2> QED
    BY <2>2, <2>3
<1>3. CASE AskCarrier(w)
  <2>1. /\ pc[w] = "asking" /\ tgt[w] \in Target /\ tgt' = tgt /\ UNCHANGED <<status, attempts>>
        /\ pc'[w] # "asking" /\ \A v \in Worker \ {w} : pc'[v] = pc[v]
    BY <1>0, <1>3 DEF AskCarrier, Goto, Dialling, rows, TypeOK, WorkerTypes
  <2>2. /\ call'[tgt[w]] \in {call[tgt[w]], Append(call[tgt[w]], "up")}
        /\ \A t \in Target : t # tgt[w] => call'[t] = call[t]
    BY <1>3, <2>1 DEF AskCarrier, TypeOK, WorldTypes
  <2> QED
    BY <2>1, <2>2, OneLicenceOut
<1>4. CASE RecordDial(w)
  <2> DEFINE t == tgt[w]
  <2>1. /\ pc[w] = "asked" /\ t \in Target /\ call' = call
        /\ pc' = [pc EXCEPT ![w] = "next"] /\ tgt' = [tgt EXCEPT ![w] = NoTarget]
    BY <1>0, <1>4 DEF RecordDial, EndDial, Dialling, world
  <2>2. Licensed' = Licensed
    BY <2>1, SameLicences DEF TypeOK, WorkerTypes
  <2>3. CASE status[t] = "placing"
    <3>1. /\ status' = [status EXCEPT ![t] = "calling"]
          /\ attempts' = [attempts EXCEPT ![t] = attempts[t] + 1]
      BY <1>4, <2>3 DEF RecordDial, Move
    <3>2. t \notin Licensed
      BY <2>1 DEF Licensed, CarrierInv, OneAsker, AtCarrier
    <3>3. Rings[t] = attempts[t] + 1 /\ attempts'[t] = Rings[t] /\ Rings'[t] = Rings[t]
      BY <2>1, <3>1 DEF Rings, CarrierInv, RingCounts, TypeOK, RowTypes
    <3>4. Phase[t] = "placing" /\ Phase'[t] = "calling"
      <4>1. status'[t] = "calling"
        BY <2>1, <3>1 DEF TypeOK, RowTypes
      <4> QED
        BY <2>1, <2>3, <4>1 DEF Phase, PhaseOf, Final
    <3>5. Licence!Record(t)
      BY <2>2, <3>2, <3>3, <3>4 DEF Licence!Record, Licence!KeepsLicence
    <3> QED
      BY <2>1, <2>2, <3>1, <3>5, OneTargetMoves
  <2>4. CASE status[t] # "placing"
    <3>1. status' = status /\ attempts' = attempts
      BY <1>4, <2>4 DEF RecordDial, Move
    <3> QED
      BY <2>1, <2>2, <3>1, QuietLicence
  <2> QED
    BY <2>3, <2>4
<1> QED
  BY <1>1, <1>2, <1>3, <1>4, Dial(w) DEF Dial

LEMMA LicencePass ==
  ASSUME TypeOK, NEW w \in Worker, Pass(w)
  PROVE  Licence!Next
<1> USE DEF Goto, rows, world
<1>1. call' = call /\ attempts' = attempts
  BY Pass(w) DEF Pass, Reclaim, OpenPass, ReadEndings, Settle, Start, Announce, FinishIfDone
<1>2. Licensed' = Licensed
  <2>1. \A v \in Worker : /\ pc'[v] = "asking" <=> pc[v] = "asking"
                          /\ pc[v] = "asking" => tgt'[v] = tgt[v]
    BY Pass(w) DEF Pass, Reclaim, OpenPass, ReadEndings, Settle, Start, Announce,
       FinishIfDone, TypeOK,
       WorkerTypes
  <2> QED
    BY <2>1, SameLicences
<1>3. ASSUME NEW t \in Target
      PROVE  \/ status'[t] = status[t]
             \/ status[t] \in {"pending", "dialling"} /\ status'[t] \in {"pending", "dialling"}
             \/ status[t] \in TargetStatus \ Final /\ status'[t] \in Final
             \/ status[t] = "calling" /\ status'[t] = "pending"
  <2> USE DEF TypeOK, RowTypes, TargetStatus, Claimed, Final
  <2>1. CASE Reclaim(w)
    BY <2>1 DEF Reclaim
  <2>2. CASE Settle(w)
    BY <2>2 DEF Settle
  <2> QED
    BY <2>1, <2>2, Pass(w) DEF Pass, OpenPass, ReadEndings, Start, Announce, FinishIfDone
<1> QED
  BY <1>1, <1>2, <1>3, QuietLicence

LEMMA LicenceOthers ==
  ASSUME TypeOK, CarrierInv,
         \/ \E w \in Worker : Crash(w)
         \/ Control
         \/ \E t \in Target : Environment(t)
  PROVE  Licence!Next
<1>1. ASSUME NEW w \in Worker, Crash(w) PROVE Licence!Next
  <2>1. /\ pc' = [pc EXCEPT ![w] = "idle"] /\ tgt' = [tgt EXCEPT ![w] = NoTarget]
        /\ UNCHANGED <<status, attempts, call>>
    BY <1>1 DEF Crash, rows, world
  <2>2. CASE pc[w] = "asking"
    BY <2>1, <2>2, OneLicenceOut DEF TypeOK, WorkerTypes
  <2>3. CASE pc[w] # "asking"
    <3>1. Licensed' = Licensed
      BY <2>1, <2>3, SameLicences DEF TypeOK, WorkerTypes
    <3> QED
      BY <2>1, <3>1, QuietLicence
  <2> QED
    BY <2>2, <2>3
<1>2. CASE Control
  <2>1. call' = call /\ attempts' = attempts /\ Licensed' = Licensed
    BY <1>2 DEF Control, Pause, Resume, Cancel, AnnounceCancel, rows, world, workers,
       Licensed
  <2>2. ASSUME NEW t \in Target
        PROVE  \/ status'[t] = status[t]
               \/ status[t] \in TargetStatus \ Final /\ status'[t] \in Final
    <3>1. CASE Cancel
      <4>1. status'[t] = IF status[t] \in {"pending", "dialling"} THEN "cancelled" ELSE status[t]
        BY <3>1 DEF Cancel
      <4> QED
        BY <4>1 DEF TargetStatus, Claimed, Final
    <3>2. CASE Pause \/ Resume
      BY <3>2 DEF Pause, Resume
    <3>3. CASE AnnounceCancel
      BY <3>3 DEF AnnounceCancel, rows
    <3> QED
      BY <1>2, <3>1, <3>2, <3>3 DEF Control
  <2> QED
    BY <2>1, <2>2, QuietLicence
<1>3. ASSUME NEW t \in Target, Environment(t) PROVE Licence!Next
  <2>1. ASSUME NEW n \in DOMAIN call[t], NEW r \in Reason, CallEnds(t, n, r)
        PROVE  Licence!Next
    <3>1. UNCHANGED <<status, attempts, pc, tgt>> /\ call' = [call EXCEPT ![t][n] = r]
      BY <2>1 DEF CallEnds, rows, workers
    <3>2. \A s \in Target : Rings'[s] = Rings[s]
      BY <3>1 DEF TypeOK, WorldTypes, Rings
    <3>3. Phase' = Phase /\ Licensed' = Licensed
      BY <3>1 DEF Phase, Licensed, PhaseOf
    <3> QED
      BY <3>1, <3>2, <3>3 DEF Licence!Next, Licence!Same, Licence!KeepsLicence,
         Licence!KeepsCounts
  <2>2. CASE OptOut(t) \/ ClaimAges(t) \/ TimeComes(t) \/ WindowOpens(t) \/ WindowCloses(t)
    <3>1. UNCHANGED <<status, attempts, call, pc, tgt>>
      BY <2>2 DEF OptOut, ClaimAges, TimeComes, WindowOpens, WindowCloses, rows, world,
         workers
    <3>2. Licensed' = Licensed
      BY <3>1 DEF Licensed
    <3> QED
      BY <3>1, <3>2, QuietLicence
  <2> QED
    BY <1>3, <2>1, <2>2 DEF Environment
<1> QED
  BY <1>1, <1>2, <1>3

\* The campaign implements DialLicence: whatever its workers, its operator and its
\* failures do, a phone rings only under a licence granted once, and a target waits
\* again only when every ring it had is on record.
THEOREM CampaignImplementsDialLicence == Spec => ImplementsDialLicence
<1>1. Init => Licence!Init
  <2> SUFFICES ASSUME Init PROVE Licence!Init
    OBVIOUS
  <2>1. Phase = [t \in Target |-> "waiting"]
    BY DEF Init, Phase, PhaseOf, Final
  <2>2. Licensed = {}
    BY DEF Init, Licensed
  <2>3. Rings = [t \in Target |-> 0]
    BY DEF Init, Rings
  <2> QED
    BY <2>1, <2>2, <2>3 DEF Init, Licence!Init
<1>2. TypeOK /\ CarrierInv /\ [Next]_vars => [Licence!Next]_(Licence!vars)
  <2> SUFFICES ASSUME TypeOK, CarrierInv, [Next]_vars PROVE [Licence!Next]_(Licence!vars)
    OBVIOUS
  <2>1. CASE Next
    BY <2>1, LicencePass, LicenceDial, LicenceOthers DEF Next
  <2>2. CASE UNCHANGED vars
    BY <2>2 DEF vars, rows, world, workers, Licence!vars, Phase, PhaseOf, Licensed, Rings
  <2> QED
    BY <2>1, <2>2
<1> QED
  BY TypeCorrect, CarrierAgrees, <1>1, <1>2, PTL DEF Spec, ImplementsDialLicence,
     Licence!Spec
=============================================================================
