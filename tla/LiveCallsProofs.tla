---------------------------- MODULE LiveCallsProofs ----------------------------
(***************************************************************************)
(* What LiveCalls guarantees for every set of calls and processes, every   *)
(* limit and rate and every number of faults: type correctness, what the   *)
(* drain lets a call have, which calls hold a slot, and the bound on the   *)
(* calls that are live.                                                    *)
(***************************************************************************)
EXTENDS LiveCalls, FiniteSetTheorems, TLAPS

USE LiveCallsAssumption
USE DEF calls, redis, procs, Stage, Goes

\* The steps of a call before its pipeline, by where they take it.
Opens(c)  == Admit(c) \/ Reserve(c) \/ ReserveRefused(c) \/ LeaveWindow(c)
Rings(c)  == \/ Record(c) \/ NotTaken(c) \/ NotRecorded(c) \/ HangUp(c)
             \/ CarrierEnds(c) \/ CallbackMissed(c) \/ StreamDropped(c)
Speaks(c) == \/ \E p \in Process : Attach(c, p)
             \/ Renew(c) \/ PipelineEnds(c) \/ Free(c) \/ PassDeadline(c) \/ Lapse(c)

LEMMA CallCases ==
  ASSUME [Next]_vars
  PROVE  \/ UNCHANGED vars
         \/ \E c \in Call : Opens(c) \/ Rings(c) \/ Speaks(c)
         \/ \E p \in Process : ProcessNext(p)
BY DEF Next, CallNext, Opens, Rings, Speaks

LEMMA FaultCounts == TypeOK /\ (Fault \/ faults' = faults) => faults' \in Nat /\ faults' >= faults
BY DEF TypeOK, Fault

LEMMA ReleaseTypes == 
  ASSUME TypeOK, NEW c \in Call, Release(c)
  PROVE  lease' \subseteq Call /\ faults' \in Nat
BY FaultCounts DEF TypeOK, Release

LEMMA TypeInit == Init => TypeOK
BY DEF Init, TypeOK

LEMMA TypeOpens == ASSUME TypeOK, NEW c \in Call, Opens(c) PROVE TypeOK'
<1>1. CASE Admit(c)
  <2>1. faults' \in Nat
    BY <1>1, FaultCounts DEF Admit
  <2>2. at' \in [Call -> Stage] /\ lease' \subseteq Call
    BY <1>1 DEF Admit, TypeOK
  <2> QED
    BY <1>1, <2>1, <2>2 DEF Admit, TypeOK
<1>2. CASE Reserve(c)
  BY <1>2 DEF Reserve, TypeOK
<1>3. CASE ReserveRefused(c)
  BY <1>3, ReleaseTypes DEF ReserveRefused, TypeOK
<1>4. CASE LeaveWindow(c)
  BY <1>4 DEF LeaveWindow, TypeOK
<1> QED
  BY <1>1, <1>2, <1>3, <1>4 DEF Opens

LEMMA TypeRings == ASSUME TypeOK, NEW c \in Call, Rings(c) PROVE TypeOK'
<1>1. CASE Record(c) \/ NotRecorded(c) \/ HangUp(c) \/ CallbackMissed(c)
  BY <1>1 DEF Record, NotRecorded, HangUp, CallbackMissed, TypeOK
<1>2. CASE NotTaken(c)
  BY <1>2, ReleaseTypes DEF NotTaken, TypeOK
<1>3. CASE CarrierEnds(c)
  <2>1. lease' \subseteq Call /\ faults' \in Nat
    BY <1>3, ReleaseTypes DEF CarrierEnds
  <2>2. at' \in [Call -> Stage]
    BY <1>3 DEF CarrierEnds, TypeOK
  <2> QED
    BY <1>3, <2>1, <2>2 DEF CarrierEnds, TypeOK
<1>4. CASE StreamDropped(c)
  BY <1>4, ReleaseTypes DEF StreamDropped, TypeOK
<1> QED
  BY <1>1, <1>2, <1>3, <1>4 DEF Rings

LEMMA TypeSpeaks == ASSUME TypeOK, NEW c \in Call, Speaks(c) PROVE TypeOK'
<1>1. ASSUME NEW p \in Process, Attach(c, p) PROVE TypeOK'
  BY <1>1 DEF Attach, TypeOK
<1>2. CASE Renew(c) \/ PipelineEnds(c) \/ PassDeadline(c)
  BY <1>2 DEF Renew, PipelineEnds, PassDeadline, TypeOK
<1>3. CASE Free(c)
  BY <1>3, ReleaseTypes DEF Free, TypeOK
<1>4. CASE Lapse(c)
  BY <1>4, FaultCounts DEF Lapse, TypeOK
<1> QED
  BY <1>1, <1>2, <1>3, <1>4 DEF Speaks

LEMMA TypeProcess == ASSUME TypeOK, NEW p \in Process, ProcessNext(p) PROVE TypeOK'
<1>1. CASE SigTerm(p) \/ WaitForCalls(p)
  BY <1>1 DEF SigTerm, WaitForCalls, TypeOK
<1>2. CASE WaitForWork(p) \/ SigTermAgain(p)
  BY <1>2 DEF WaitForWork, SigTermAgain, Exit, TypeOK
<1>3. CASE Die(p)
  BY <1>3, FaultCounts DEF Die, Exit, TypeOK
<1> QED
  BY <1>1, <1>2, <1>3 DEF ProcessNext

LEMMA TypeStep == ASSUME TypeOK, [Next]_vars PROVE TypeOK'
<1>1. CASE UNCHANGED vars
  BY <1>1 DEF vars, TypeOK
<1> QED
  BY <1>1, CallCases, TypeOpens, TypeRings, TypeSpeaks, TypeProcess

\* Every variable keeps its type.
THEOREM TypeCorrect == Spec => []TypeOK
<1>1. TypeOK /\ [Next]_vars => TypeOK'
  BY TypeStep
<1> QED
  BY <1>1, TypeInit, PTL DEF Spec

-----------------------------------------------------------------------------
(* The drain                                                               *)

\* What a call that a process runs, or ran, was given: a call cut off was past its deadline,
\* came after the drain had waited for calls, or was on a process that did not wait.
Drained ==
  /\ \A c \in Call : holder[c] # NoProcess => at[c] \in {"held", "closing", "over", "lost"}
  /\ \A p \in Process : proc[p] = "finishing" => OnProcess(p) \subseteq overdue \cup late
  /\ \A c \in Call : at[c] = "lost" /\ holder[c] # NoProcess =>
       holder[c] \in forced \/ c \in overdue \cup late

LEMMA DrainedCalls ==
  ASSUME TypeOK, Drained, NEW c \in Call, Opens(c) \/ Rings(c) \/ Speaks(c)
  PROVE  Drained'
<1>1. CASE Admit(c) \/ Reserve(c) \/ ReserveRefused(c) \/ LeaveWindow(c)
  BY <1>1 DEF Admit, Reserve, ReserveRefused, LeaveWindow, Drained, OnProcess, TypeOK
<1>2. CASE Record(c) \/ NotTaken(c) \/ NotRecorded(c)
  BY <1>2 DEF Record, NotTaken, NotRecorded, Opening, Connecting, Drained, OnProcess, TypeOK
<1>3. CASE HangUp(c) \/ CarrierEnds(c) \/ CallbackMissed(c) \/ StreamDropped(c)
  BY <1>3 DEF HangUp, CarrierEnds, CallbackMissed, StreamDropped, Drained, OnProcess, TypeOK
<1>4. ASSUME NEW p \in Process, Attach(c, p) PROVE Drained'
  BY <1>4 DEF Attach, Drained, OnProcess, TypeOK
<1>5. CASE Renew(c) \/ PipelineEnds(c) \/ Free(c) \/ PassDeadline(c) \/ Lapse(c)
  BY <1>5 DEF Renew, PipelineEnds, Free, PassDeadline, Lapse, Drained, OnProcess, TypeOK
<1> QED
  BY <1>1, <1>2, <1>3, <1>4, <1>5 DEF Opens, Rings, Speaks

LEMMA DrainedProcess ==
  ASSUME TypeOK, Drained, NEW p \in Process, ProcessNext(p)
  PROVE  Drained'
<1>1. CASE SigTerm(p)
  BY <1>1 DEF SigTerm, Drained, OnProcess, TypeOK
<1>2. CASE WaitForCalls(p)
  BY <1>2 DEF WaitForCalls, CallsWaitedFor, Drained, OnProcess, TypeOK
<1>3. CASE WaitForWork(p)
  BY <1>3 DEF WaitForWork, Exit, Drained, OnProcess, TypeOK
<1>4. CASE SigTermAgain(p) \/ Die(p)
  BY <1>4 DEF SigTermAgain, Die, Exit, Drained, OnProcess, TypeOK
<1> QED
  BY <1>1, <1>2, <1>3, <1>4 DEF ProcessNext

LEMMA DrainedStep == ASSUME TypeOK, Drained, [Next]_vars PROVE Drained'
<1>1. CASE UNCHANGED vars
  BY <1>1 DEF vars, Drained, OnProcess
<1> QED
  BY <1>1, CallCases, DrainedCalls, DrainedProcess

\* A first SIGTERM cuts off no call before its deadline, unless it came while the process
\* was finishing its post-call work.
THEOREM DrainCutsNobodyHolds == Spec => []DrainCutsNobody
<1>1. Init => Drained
  BY DEF Init, Drained, OnProcess
<1>2. TypeOK /\ Drained /\ [Next]_vars => Drained'
  BY DrainedStep
<1>3. Drained => DrainCutsNobody
  BY DEF Drained, DrainCutsNobody, Cut
<1> QED
  BY <1>1, <1>2, <1>3, TypeCorrect, PTL DEF Spec

-----------------------------------------------------------------------------
(* The slots                                                               *)

\* Where no fault has happened, no slot is held for a call that code has ended; a call
\* that was not admitted yet holds none, ever.
Freed ==
  /\ \A c \in Call : at[c] = "new" => c \notin lease
  /\ faults = 0 => \A c \in Call : at[c] \in {"ended", "over", "refused"} => c \notin lease

LEMMA Releases ==
  ASSUME TypeOK, NEW c \in Call, Release(c)
  PROVE  /\ lease' \subseteq lease /\ lease \ {c} \subseteq lease'
         /\ faults' = 0 => faults = 0 /\ c \notin lease'
BY DEF Release, Fault, TypeOK

LEMMA FreedCalls ==
  ASSUME TypeOK, Freed, NEW c \in Call, Opens(c) \/ Rings(c) \/ Speaks(c)
  PROVE  Freed'
<1>1. CASE Admit(c)
  BY <1>1 DEF Admit, Room, Fault, Freed, TypeOK
<1>2. CASE Reserve(c) \/ LeaveWindow(c) \/ Record(c) \/ NotRecorded(c) \/ HangUp(c)
             \/ CallbackMissed(c)
  BY <1>2 DEF Reserve, LeaveWindow, Record, Opening, Connecting, NotRecorded, HangUp,
     CallbackMissed, Freed, TypeOK
<1>3. CASE ReserveRefused(c) \/ NotTaken(c) \/ StreamDropped(c) \/ Free(c)
  BY <1>3, Releases DEF ReserveRefused, NotTaken, StreamDropped, Free, Freed, TypeOK
<1>4. CASE CarrierEnds(c)
  BY <1>4, Releases DEF CarrierEnds, Freed, TypeOK
<1>5. ASSUME NEW p \in Process, Attach(c, p) PROVE Freed'
  BY <1>5 DEF Attach, Freed, TypeOK
<1>6. CASE Renew(c) \/ PipelineEnds(c) \/ PassDeadline(c)
  BY <1>6 DEF Renew, Renews, PipelineEnds, PassDeadline, Freed, TypeOK
<1>7. CASE Lapse(c)
  BY <1>7 DEF Lapse, Fault, Freed, TypeOK
<1> QED
  BY <1>1, <1>2, <1>3, <1>4, <1>5, <1>6, <1>7 DEF Opens, Rings, Speaks

LEMMA FreedStep == ASSUME TypeOK, Freed, [Next]_vars PROVE Freed'
<1>1. CASE UNCHANGED vars
  BY <1>1 DEF vars, Freed
<1>2. ASSUME NEW p \in Process, ProcessNext(p) PROVE Freed'
  BY <1>2 DEF ProcessNext, SigTerm, WaitForCalls, WaitForWork, SigTermAgain, Die, Exit,
     OnProcess, Fault, Freed, TypeOK
<1> QED
  BY <1>1, <1>2, CallCases, FreedCalls

\* An ending that runs code frees the slot at once; a refusal takes none.
THEOREM OrderlyIsFreeHolds == Spec => []OrderlyIsFree
<1>1. Init => Freed
  BY DEF Init, Freed
<1>2. TypeOK /\ Freed /\ [Next]_vars => Freed'
  BY FreedStep
<1>3. Freed => OrderlyIsFree
  BY DEF Freed, OrderlyIsFree
<1> QED
  BY <1>1, <1>2, <1>3, TypeCorrect, PTL DEF Spec

-----------------------------------------------------------------------------
(* The limit                                                               *)

\* The carrier frees the slot of a call that was hung up, and no other.
EndedInv == \A c \in Call : at[c] = "ended" => c \in hungup

LEMMA EndedStep == ASSUME TypeOK, EndedInv, [Next]_vars PROVE EndedInv'
<1>1. CASE UNCHANGED vars
  BY <1>1 DEF vars, EndedInv
<1>2. ASSUME NEW c \in Call, Opens(c) \/ Rings(c) \/ Speaks(c) PROVE EndedInv'
  <2>1. hungup \subseteq hungup' /\ \A q \in Call : at'[q] = at[q] \/ at'[q] # "ended" \/ q \in hungup
    <3>1. CASE Opens(c)
      BY <3>1 DEF Opens, Admit, Reserve, ReserveRefused, LeaveWindow, TypeOK
    <3>2. CASE Rings(c)
      BY <3>2 DEF Rings, Record, NotTaken, NotRecorded, HangUp, CarrierEnds, CallbackMissed,
         StreamDropped, TypeOK
    <3>3. CASE Speaks(c)
      BY <3>3 DEF Speaks, Attach, Renew, PipelineEnds, Free, PassDeadline, Lapse, TypeOK
    <3> QED
      BY <1>2, <3>1, <3>2, <3>3
  <2> QED
    BY <2>1 DEF EndedInv
<1>3. ASSUME NEW p \in Process, ProcessNext(p) PROVE EndedInv'
  BY <1>3 DEF ProcessNext, SigTerm, WaitForCalls, WaitForWork, SigTermAgain, Die, Exit, EndedInv,
     TypeOK
<1> QED
  BY <1>1, <1>2, <1>3, CallCases

LEMMA EndedIsHungUp == Spec => []EndedInv
<1>1. Init => EndedInv
  BY DEF Init, EndedInv
<1>2. TypeOK /\ EndedInv /\ [Next]_vars => EndedInv'
  BY EndedStep
<1> QED
  BY <1>1, <1>2, TypeCorrect, PTL DEF Spec

\* The calls that are live, or about to be; those of them that have no slot.
Holding  == {c \in Call : /\ at[c] \in {"admitted", "reserved", "dialling", "waiting", "held"}
                          /\ c \notin hungup}
Unbacked == Holding \ lease

\* Each fault leaves one of them without a slot at most; the others were admitted with room.
Bounded ==
  /\ \A c \in Call : at[c] = "new" => c \notin lease
  /\ Cardinality(Unbacked) <= faults
  /\ Limit > 0 => Cardinality(Holding) <= Limit + faults

LEMMA AddOne ==
  ASSUME NEW S, NEW x, IsFiniteSet(S)
  PROVE  /\ IsFiniteSet(S \cup {x}) /\ Cardinality(S \cup {x}) \in Nat
         /\ Cardinality(S) \in Nat /\ Cardinality(S \cup {x}) <= Cardinality(S) + 1
<1>1. Cardinality(S) \in Nat
  BY FS_CardinalityType
<1>2. /\ IsFiniteSet(S \cup {x})
      /\ Cardinality(S \cup {x}) = IF x \in S THEN Cardinality(S) ELSE Cardinality(S) + 1
  BY FS_AddElement
<1> QED
  BY <1>1, <1>2

LEMMA Disjoint ==
  ASSUME NEW S, NEW T, IsFiniteSet(S), IsFiniteSet(T), S \cap T = {}
  PROVE  IsFiniteSet(S \cup T) /\ Cardinality(S \cup T) = Cardinality(S) + Cardinality(T)
<1>1. Cardinality(S) \in Nat /\ Cardinality(T) \in Nat
  BY FS_CardinalityType
<1>2. Cardinality(S \cap T) = 0
  BY FS_EmptySet
<1>3. /\ IsFiniteSet(S \cup T)
      /\ Cardinality(S \cup T) = Cardinality(S) + Cardinality(T) - Cardinality(S \cap T)
  BY FS_Union
<1> QED
  BY <1>1, <1>2, <1>3

LEMMA Finite ==
  ASSUME TypeOK
  PROVE  /\ IsFiniteSet(Holding) /\ IsFiniteSet(Unbacked) /\ IsFiniteSet(lease)
         /\ Cardinality(Holding) \in Nat /\ Cardinality(Unbacked) \in Nat
         /\ Cardinality(lease) \in Nat /\ faults \in Nat
         /\ Cardinality(Holding) <= Cardinality(lease) + Cardinality(Unbacked)
<1>1. Holding \subseteq Call /\ Unbacked \subseteq Call /\ lease \subseteq Call /\ faults \in Nat
  BY DEF Holding, Unbacked, TypeOK
<1>2. IsFiniteSet(Holding) /\ IsFiniteSet(Unbacked) /\ IsFiniteSet(lease)
  BY <1>1, FS_Subset
<1>3. /\ Cardinality(Holding) \in Nat /\ Cardinality(Unbacked) \in Nat
      /\ Cardinality(lease) \in Nat
  BY <1>2, FS_CardinalityType
<1>4. lease \cap Unbacked = {} /\ Holding \subseteq lease \cup Unbacked
  BY DEF Unbacked
<1>5. /\ IsFiniteSet(lease \cup Unbacked)
      /\ Cardinality(lease \cup Unbacked) = Cardinality(lease) + Cardinality(Unbacked)
  BY <1>2, <1>4, Disjoint
<1>6. Cardinality(Holding) <= Cardinality(lease \cup Unbacked)
  BY <1>4, <1>5, FS_Subset
<1> QED
  BY <1>1, <1>2, <1>3, <1>5, <1>6

\* A step that adds no call and takes no slot of a live one keeps the bound.
LEMMA FewerKeep ==
  ASSUME TypeOK, Bounded, TypeOK', Holding' \subseteq Holding, Unbacked' \subseteq Unbacked,
         faults' >= faults, \A c \in Call : at'[c] = "new" => c \notin lease'
  PROVE  Bounded'
<1>1. Cardinality(Holding') <= Cardinality(Holding)
  BY Finite, FS_Subset
<1>2. Cardinality(Unbacked') <= Cardinality(Unbacked)
  BY Finite, FS_Subset
<1>3. faults' \in Nat /\ faults \in Nat
  BY DEF TypeOK
<1>4. /\ Cardinality(Holding) \in Nat /\ Cardinality(Unbacked) \in Nat
      /\ Cardinality(Holding)' \in Nat /\ Cardinality(Unbacked)' \in Nat
  <2>1. Holding' \subseteq Call /\ Unbacked' \subseteq Call
    BY DEF Holding, Unbacked
  <2> QED
    BY <2>1, Finite, FS_Subset, FS_CardinalityType
<1> QED
  BY <1>1, <1>2, <1>3, <1>4 DEF Bounded

\* A step that costs a fault may leave one more call live and without a slot.
LEMMA OneMoreKeeps ==
  ASSUME TypeOK, Bounded, NEW c \in Call,
         Holding' \subseteq Holding \cup {c}, Unbacked' \subseteq Unbacked \cup {c},
         faults' = faults + 1, \A x \in Call : at'[x] = "new" => x \notin lease'
  PROVE  Bounded'
<1>1. /\ IsFiniteSet(Holding \cup {c})
      /\ Cardinality(Holding \cup {c}) <= Cardinality(Holding) + 1
      /\ IsFiniteSet(Unbacked \cup {c})
      /\ Cardinality(Unbacked \cup {c}) <= Cardinality(Unbacked) + 1
  BY Finite, AddOne
<1>2. /\ IsFiniteSet(Holding') /\ Cardinality(Holding') <= Cardinality(Holding \cup {c})
      /\ IsFiniteSet(Unbacked') /\ Cardinality(Unbacked') <= Cardinality(Unbacked \cup {c})
  BY <1>1, FS_Subset
<1>3. /\ Cardinality(Holding') \in Nat /\ Cardinality(Unbacked') \in Nat
      /\ Cardinality(Holding \cup {c}) \in Nat /\ Cardinality(Unbacked \cup {c}) \in Nat
  BY <1>1, <1>2, FS_CardinalityType
<1> QED
  BY <1>1, <1>2, <1>3, Finite DEF Bounded

LEMMA BoundedAdmit == ASSUME TypeOK, Bounded, NEW c \in Call, Admit(c) PROVE Bounded'
<1>1. TypeOK'
  BY TypeOpens DEF Opens
<1>2. /\ at' = [at EXCEPT ![c] = at'[c]] /\ at[c] = "new"
      /\ at'[c] \in {"refused", "reserved", "admitted"}
      /\ hungup' = hungup /\ lease \subseteq lease' /\ lease' \subseteq lease \cup {c}
  BY DEF Admit, TypeOK
<1>3. Holding' \subseteq Holding \cup {c} /\ Unbacked' \subseteq Unbacked \cup {c}
  BY <1>2 DEF Holding, Unbacked, TypeOK
<1>4. \A x \in Call : at'[x] = "new" => x \notin lease'
  BY <1>2 DEF Bounded, TypeOK
<1>5. CASE Fault
  BY <1>3, <1>4, <1>5, OneMoreKeeps DEF Fault
<1>6. CASE ~Fault /\ ~Room(c)
  <2>1. at'[c] = "refused" /\ faults' = faults
    BY <1>6 DEF Admit, TypeOK
  <2>2. Holding' \subseteq Holding /\ Unbacked' \subseteq Unbacked
    BY <1>2, <2>1 DEF Holding, Unbacked, TypeOK
  <2>3. faults' >= faults
    BY <2>1 DEF TypeOK
  <2> QED
    BY <1>1, <1>4, <2>2, <2>3, FewerKeep
<1>7. CASE ~Fault /\ Room(c)
  <2>1. faults' = faults /\ c \in lease'
    BY <1>7 DEF Admit
  <2>2. Unbacked' \subseteq Unbacked
    BY <1>2, <2>1 DEF Holding, Unbacked, TypeOK
  <2>3. Cardinality(Unbacked') <= Cardinality(Unbacked) /\ Cardinality(Unbacked') \in Nat
    BY <2>2, Finite, FS_Subset, FS_CardinalityType
  <2>4. /\ IsFiniteSet(Holding \cup {c})
        /\ Cardinality(Holding \cup {c}) <= Cardinality(Holding) + 1
    BY Finite, AddOne
  <2>5. /\ Cardinality(Holding') <= Cardinality(Holding \cup {c})
        /\ Cardinality(Holding') \in Nat /\ Cardinality(Holding \cup {c}) \in Nat
    BY <1>3, <2>4, FS_Subset, FS_CardinalityType
  <2>6. Limit > 0 => Cardinality(lease) < Limit
    BY <1>2, <1>7 DEF Room, Bounded
  <2>7. Limit > 0 => Cardinality(Holding') <= Limit + faults'
    BY <2>1, <2>4, <2>5, <2>6, Finite DEF Bounded
  <2>8. Cardinality(Unbacked') <= faults'
    BY <2>1, <2>3, Finite DEF Bounded
  <2> QED
    BY <1>4, <2>7, <2>8 DEF Bounded
<1> QED
  BY <1>5, <1>6, <1>7

\* The other steps of a call make no other call live and take no live call's slot, but by
\* a fault.
LEMMA BoundedCalls ==
  ASSUME TypeOK, EndedInv, Bounded, NEW c \in Call, Opens(c) \/ Rings(c) \/ Speaks(c)
  PROVE  Bounded'
<1>1. TypeOK'
  BY TypeOpens, TypeRings, TypeSpeaks
<1>2. CASE Admit(c)
  BY <1>2, BoundedAdmit
<1>3. CASE Reserve(c) \/ LeaveWindow(c) \/ Record(c) \/ NotRecorded(c) \/ HangUp(c)
             \/ CallbackMissed(c)
  <2>1. Holding' \subseteq Holding /\ Unbacked' \subseteq Unbacked
    BY <1>3 DEF Reserve, LeaveWindow, Record, Opening, NotRecorded, HangUp, CallbackMissed,
       Holding, Unbacked, TypeOK
  <2>2. faults' = faults /\ \A x \in Call : at'[x] = "new" => x \notin lease'
    BY <1>3 DEF Reserve, LeaveWindow, Record, Opening, NotRecorded, HangUp, CallbackMissed,
       Bounded, TypeOK
  <2>3. faults' >= faults
    BY <2>2 DEF TypeOK
  <2> QED
    BY <1>1, <2>1, <2>2, <2>3, FewerKeep
<1>4. CASE ReserveRefused(c) \/ NotTaken(c) \/ CarrierEnds(c) \/ StreamDropped(c) \/ Free(c)
  <2>1. Release(c)
    BY <1>4 DEF ReserveRefused, NotTaken, CarrierEnds, StreamDropped, Free
  <2>2. lease' \subseteq lease /\ lease \ {c} \subseteq lease' /\ faults' >= faults
    BY <2>1, Releases, FaultCounts DEF Release
  <2>3. /\ at' = [at EXCEPT ![c] = at'[c]] /\ hungup' = hungup
        /\ at'[c] \in {"refused", "over", "ended"} \/ (at'[c] = at[c] /\ c \in hungup)
        /\ at'[c] # "new"
    <3>1. CASE CarrierEnds(c)
      BY <3>1 DEF CarrierEnds, TypeOK
    <3>2. ASSUME Goes(c, "refused") \/ Goes(c, "over"), hungup' = hungup
          PROVE  /\ at' = [at EXCEPT ![c] = at'[c]] /\ hungup' = hungup
                 /\ at'[c] \in {"refused", "over"}
      BY <3>2 DEF TypeOK
    <3>3. CASE ReserveRefused(c) \/ NotTaken(c) \/ StreamDropped(c) \/ Free(c)
      <4>1. (Goes(c, "refused") \/ Goes(c, "over")) /\ hungup' = hungup
        BY <3>3 DEF ReserveRefused, NotTaken, StreamDropped, Free
      <4> QED
        BY <3>2, <4>1
    <3> QED
      BY <1>4, <3>1, <3>3
  <2>4. Holding' \subseteq Holding /\ Unbacked' \subseteq Unbacked
    BY <2>2, <2>3 DEF Holding, Unbacked, TypeOK
  <2>5. \A x \in Call : at'[x] = "new" => x \notin lease'
    BY <2>2, <2>3 DEF Bounded, TypeOK
  <2> QED
    BY <1>1, <2>2, <2>4, <2>5, FewerKeep
<1>5. ASSUME NEW p \in Process, Attach(c, p) PROVE Bounded'
  <2>1. Holding' \subseteq Holding /\ Unbacked' \subseteq Unbacked
    BY <1>5 DEF Attach, Connecting, EndedInv, Holding, Unbacked, TypeOK
  <2>2. faults' = faults /\ \A x \in Call : at'[x] = "new" => x \notin lease'
    BY <1>5 DEF Attach, Bounded, TypeOK
  <2>3. faults' >= faults
    BY <2>2 DEF TypeOK
  <2> QED
    BY <1>1, <2>1, <2>2, <2>3, FewerKeep
<1>6. CASE Renew(c) \/ PipelineEnds(c) \/ PassDeadline(c)
  <2>1. Holding' \subseteq Holding /\ Unbacked' \subseteq Unbacked
    BY <1>6 DEF Renew, PipelineEnds, PassDeadline, Holding, Unbacked, TypeOK
  <2>2. faults' = faults /\ \A x \in Call : at'[x] = "new" => x \notin lease'
    BY <1>6 DEF Renew, Renews, PipelineEnds, PassDeadline, Bounded, TypeOK
  <2>3. faults' >= faults
    BY <2>2 DEF TypeOK
  <2> QED
    BY <1>1, <2>1, <2>2, <2>3, FewerKeep
<1>7. CASE Lapse(c)
  <2>1. /\ at' = at /\ hungup' = hungup /\ lease' = lease \ {c}
        /\ \/ at[c] \in {"ended", "over", "refused", "lost"} /\ faults' = faults
           \/ faults' = faults + 1
    BY <1>7 DEF Lapse, Fault
  <2>2. Holding' = Holding /\ Unbacked' \subseteq Unbacked \cup {c}
        /\ \A x \in Call : at'[x] = "new" => x \notin lease'
    BY <2>1 DEF Holding, Unbacked, Bounded
  <2>3. CASE faults' = faults + 1
    BY <2>2, <2>3, OneMoreKeeps
  <2>4. CASE at[c] \in {"ended", "over", "refused", "lost"} /\ faults' = faults
    <3>1. Unbacked' \subseteq Unbacked /\ faults' >= faults
      BY <2>1, <2>4 DEF Holding, Unbacked, TypeOK
    <3> QED
      BY <1>1, <2>2, <3>1, FewerKeep
  <2> QED
    BY <2>1, <2>3, <2>4
<1> QED
  BY <1>2, <1>3, <1>4, <1>5, <1>6, <1>7 DEF Opens, Rings, Speaks

LEMMA BoundedStep == ASSUME TypeOK, EndedInv, Bounded, [Next]_vars PROVE Bounded'
<1>0. TypeOK'
  BY TypeStep
<1>1. CASE UNCHANGED vars
  BY <1>1 DEF vars, Bounded, Unbacked, Holding
<1>2. ASSUME NEW p \in Process, ProcessNext(p) PROVE Bounded'
  <2>1. /\ hungup' = hungup /\ lease' = lease /\ (Fault \/ faults' = faults)
        /\ \A c \in Call : at'[c] = at[c] \/ at'[c] = "lost"
    BY <1>2 DEF ProcessNext, SigTerm, WaitForCalls, WaitForWork, SigTermAgain, Die, Exit, TypeOK
  <2>2. Holding' \subseteq Holding /\ Unbacked' \subseteq Unbacked /\ faults' >= faults
    BY <2>1, FaultCounts DEF Holding, Unbacked
  <2>3. \A x \in Call : at'[x] = "new" => x \notin lease'
    BY <2>1 DEF Bounded
  <2> QED
    BY <1>0, <2>2, <2>3, FewerKeep
<1> QED
  BY <1>1, <1>2, CallCases, BoundedCalls

\* The project is never over its limit but by one call for each fault.
THEOREM LiveWithinLimitHolds == Spec => []LiveWithinLimit
<1>1. Init => Bounded
  <2> SUFFICES ASSUME Init PROVE Bounded
    OBVIOUS
  <2>1. Holding = {} /\ Unbacked = {} /\ faults = 0 /\ lease = {}
    BY DEF Init, Holding, Unbacked
  <2>2. Cardinality(Holding) = 0 /\ Cardinality(Unbacked) = 0
    BY <2>1, FS_EmptySet
  <2> QED
    BY <2>1, <2>2 DEF Bounded
<1>2. TypeOK /\ EndedInv /\ Bounded /\ [Next]_vars => Bounded'
  BY BoundedStep
<1>3. TypeOK /\ Bounded => LiveWithinLimit
  <2> SUFFICES ASSUME TypeOK, Bounded, Limit > 0
               PROVE  Cardinality({c \in Call : Live(c)}) <= Limit + faults
    BY DEF LiveWithinLimit
  <2> DEFINE L == {c \in Call : Live(c)}
  <2>1. L \subseteq Holding
    BY DEF Live, Holding
  <2>2. IsFiniteSet(L) /\ Cardinality(L) <= Cardinality(Holding)
    BY <2>1, Finite, FS_Subset
  <2>3. Cardinality(L) \in Nat
    BY <2>2, FS_CardinalityType
  <2> HIDE DEF L
  <2>4. Cardinality(L) <= Limit + faults
    BY <2>2, <2>3, Finite DEF Bounded
  <2> QED
    BY <2>4 DEF L
<1> QED
  BY <1>1, <1>2, <1>3, TypeCorrect, EndedIsHungUp, PTL DEF Spec
=============================================================================
