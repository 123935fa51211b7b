---------------------------- MODULE EvalRunsProofs ----------------------------
(***************************************************************************)
(* What EvalRuns guarantees for every batch, number of slots, iterations   *)
(* and faults: type correctness, that an ended run stays as it ended, one  *)
(* inductive invariant, RunsInv, which ties each run's row to where the    *)
(* worker is with it, and that a batch implements EndsOnce.                *)
(***************************************************************************)
EXTENDS EvalRunsRefinement, TLAPS

USE EvalRunsAssumption
USE DEF rows, worker, loop, Open, Verdict, Terminal, Outcome, Stage, Goes

LEMMA FaultCounts == TypeOK /\ Fault => faults' \in Nat
BY DEF TypeOK, Fault

LEMMA TypeInit == Init => TypeOK
<1> SUFFICES ASSUME Init PROVE TypeOK
  OBVIOUS
<1>1. status \in [Run -> {"absent"} \cup Open \cup Terminal] /\ task \in [Run -> Stage]
  BY DEF Init
<1>2. outcomes \in [Run -> Seq(Outcome)] /\ queue \in Seq(Run)
  BY DEF Init
<1> QED
  BY <1>1, <1>2 DEF Init, TypeOK

\* The steps of the API, of the worker's loop, of a run's execution and of the janitor.
LEMMA TypeApi ==
  ASSUME TypeOK, NEW r \in Run,
         CreateRuns \/ Push(r) \/ PushRaises(r) \/ FailIfStillQueued(r) \/ ApiDies \/ Cancel(r)
  PROVE  TypeOK'
<1>1. CASE CreateRuns
  BY <1>1 DEF TypeOK, CreateRuns
<1>2. CASE Push(r)
  BY <1>2 DEF TypeOK, Push
<1>3. CASE PushRaises(r)
  <2>1. Append(queue, r) \in Seq(Run) /\ queue \in Seq(Run)
    BY DEF TypeOK
  <2>2. queue' \in Seq(Run) /\ faults' \in Nat
    BY <1>3, <2>1, FaultCounts DEF TypeOK, PushRaises
  <2> QED
    BY <1>3, <2>2 DEF TypeOK, PushRaises
<1>4. CASE FailIfStillQueued(r)
  BY <1>4 DEF TypeOK, FailIfStillQueued
<1>5. CASE ApiDies
  BY <1>5, FaultCounts DEF TypeOK, ApiDies
<1>6. CASE Cancel(r)
  BY <1>6 DEF TypeOK, Cancel
<1> QED
  BY <1>1, <1>2, <1>3, <1>4, <1>5, <1>6

LEMMA TypeLoop ==
  ASSUME TypeOK, LoopNext \/ RedisLosesQueue \/ ReclaimStalled
  PROVE  TypeOK'
<1>1. CASE TakeSlot
  BY <1>1 DEF TypeOK, TakeSlot
<1>2. CASE Dequeue
  <2>1. Head(queue) \in Run /\ Tail(queue) \in Seq(Run)
    BY <1>2 DEF TypeOK, Dequeue
  <2> QED
    BY <1>2, <2>1 DEF TypeOK, Dequeue
<1>3. CASE DequeueNothing
  BY <1>3 DEF TypeOK, DequeueNothing
<1>4. CASE DequeueLost
  <2>1. queue' \in Seq(Run) /\ faults' \in Nat
    BY <1>4, FaultCounts DEF TypeOK, DequeueLost
  <2> QED
    BY <1>4, <2>1 DEF TypeOK, DequeueLost
<1>5. CASE Stop \/ Restart
  BY <1>5 DEF TypeOK, Stop, Restart
<1>6. CASE Crash
  BY <1>6, FaultCounts DEF TypeOK, Crash
<1>7. CASE RedisLosesQueue
  BY <1>7, FaultCounts DEF TypeOK, RedisLosesQueue
<1>8. CASE ReclaimStalled
  BY <1>8 DEF TypeOK, ReclaimStalled
<1> QED
  BY <1>1, <1>2, <1>3, <1>4, <1>5, <1>6, <1>7, <1>8 DEF LoopNext

\* What the worker has written and not announced is an ending, and not a cancellation.
WrittenStands == \A r \in Run : task[r] = "written" => status[r] \in Verdict \cup {"errored"}

LEMMA TypeRun ==
  ASSUME TypeOK, WrittenStands, NEW r \in Run,
         Executes(r) \/ RecordUnrunnable(r) \/ PlanRaises(r) \/ BecomesLate(r)
  PROVE  TypeOK'
<1>1. CASE ReadRun(r)
  BY <1>1 DEF TypeOK, ReadRun
<1>2. CASE StartRun(r)
  BY <1>2 DEF TypeOK, StartRun
<1>3. CASE AnnounceStarted(r)
  BY <1>3 DEF TypeOK, AnnounceStarted
<1>4. CASE CheckCancelled(r)
  BY <1>4, FaultCounts DEF TypeOK, CheckCancelled
<1>5. ASSUME NEW o \in Outcome, Iterate(r, o)
      PROVE  TypeOK'
  <2>1. Append(outcomes[r], o) \in Seq(Outcome)
    BY <1>5 DEF TypeOK
  <2>2. outcomes' \in [Run -> Seq(Outcome)]
    BY <1>5, <2>1 DEF TypeOK, Iterate
  <2>3. wasted' \in [Run -> Nat] /\ task' \in [Run -> Stage]
    BY <1>5 DEF TypeOK, Iterate
  <2> QED
    BY <1>5, <2>2, <2>3 DEF TypeOK, Iterate
<1>6. CASE FinishRun(r)
  BY <1>6 DEF TypeOK, FinishRun, Finish, DeriveStatus
<1>7. CASE AnnounceCompleted(r)
  BY <1>7 DEF TypeOK, AnnounceCompleted, WrittenStands
<1>8. CASE RecordUnrunnable(r)
  BY <1>8 DEF TypeOK, RecordUnrunnable, Finish
<1>9. CASE PlanRaises(r) \/ BecomesLate(r)
  BY <1>9, FaultCounts DEF TypeOK, PlanRaises, BecomesLate
<1> QED
  BY <1>1, <1>2, <1>3, <1>4, <1>5, <1>6, <1>7, <1>8, <1>9 DEF Executes

-----------------------------------------------------------------------------
(* The rows                                                                *)

\* A step writes a run's status only over one that has not ended, and leaves the runs it
\* is not about alone: the WHERE of every write of eval_repo.
LEMMA EndedStays ==
  ASSUME TypeOK, [Next]_vars, NEW r \in Run, status[r] \in Terminal
  PROVE  status'[r] = status[r]
<1>1. CASE CreateRuns
  BY <1>1 DEF CreateRuns, TypeOK
<1>2. CASE ReclaimStalled
  BY <1>2 DEF ReclaimStalled, Abandoned, TypeOK
<1>3. CASE ApiDies \/ LoopNext \/ RedisLosesQueue \/ UNCHANGED vars
  BY <1>3 DEF ApiDies, LoopNext, RedisLosesQueue, TakeSlot, Dequeue, DequeueNothing,
     DequeueLost, Stop, Restart, Crash, vars
<1>4. ASSUME NEW q \in Run, ApiNext(q)
      PROVE  status'[r] = status[r]
  BY <1>4 DEF ApiNext, Push, PushRaises, FailIfStillQueued, Cancel, TypeOK
<1>5. ASSUME NEW q \in Run,
             ReadRun(q) \/ AnnounceStarted(q) \/ CheckCancelled(q) \/ AnnounceCompleted(q)
               \/ PlanRaises(q) \/ BecomesLate(q) \/ (\E o \in Outcome : Iterate(q, o))
      PROVE  status'[r] = status[r]
  BY <1>5 DEF ReadRun, AnnounceStarted, CheckCancelled, AnnounceCompleted, PlanRaises,
     BecomesLate, Iterate
<1>6. ASSUME NEW q \in Run, StartRun(q) \/ FinishRun(q) \/ RecordUnrunnable(q)
      PROVE  status'[r] = status[r]
  BY <1>6 DEF StartRun, FinishRun, RecordUnrunnable, Finish, Unfinished, TypeOK
<1> QED
  BY <1>1, <1>2, <1>3, <1>4, <1>5, <1>6 DEF Next, Executes

-----------------------------------------------------------------------------
(* The inductive invariant                                                 *)

\* A run with a verdict is not being worked on, and what the verdict stands on is whole; a
\* loop that stopped was cancelled, refused a tool, or went through.
Judged(r) ==
  /\ status[r] \in Verdict => task[r] \in {"none", "popped", "written"}
  /\ task[r] = "finishing" => \/ status[r] = "cancelled"
                              \/ Proved(outcomes[r], "refused")
                              \/ Len(outcomes[r]) = Iterations
  /\ status[r] \in Verdict =>
       Len(outcomes[r]) = Iterations /\ ~Proved(outcomes[r], "refused")

\* The event sent says what the row says.
Told(r) == completed[r] # "none" =>
             completed[r] = status[r] /\ status[r] \in Verdict \cup {"errored"}

\* An iteration on a cancelled row is one the check did not see, or the first.
Wasted(r) ==
  /\ status[r] # "cancelled" => wasted[r] = 0
  /\ wasted[r] <= 1 + faults
  /\ task[r] = "iterating" => wasted[r] <= faults

RunInv(r) == Judged(r) /\ Told(r) /\ Wasted(r)
RunsInv == WrittenStands /\ \A r \in Run : RunInv(r)

\* What a step does to a run it leaves to the worker: the worker's place and what the run
\* proved stay, and its status stays or goes where no verdict is.
Spared(r) ==
  /\ task'[r] = task[r] \/ task'[r] \in {"none", "popped"}
  /\ outcomes'[r] = outcomes[r] /\ wasted'[r] = wasted[r] /\ completed'[r] = completed[r]
  /\ status'[r] = status[r] \/ status'[r] \in {"queued", "errored", "cancelled"}
  /\ faults' >= faults

LEMMA SparedKeeps ==
  ASSUME TypeOK, RunsInv, [Next]_vars, NEW r \in Run, Spared(r), TypeOK'
  PROVE  RunInv(r)' /\ (task'[r] = "written" => status'[r] \in Verdict \cup {"errored"})
<1>1. status[r] \in Terminal => status'[r] = status[r]
  BY EndedStays
<1>2. Judged(r)'
  BY <1>1 DEF Spared, RunsInv, RunInv, Judged, TypeOK
<1>3. Told(r)'
  BY <1>1 DEF Spared, RunsInv, RunInv, Told, TypeOK
<1>4. Wasted(r)'
  <2>1. faults \in Nat /\ faults' \in Nat /\ wasted[r] \in Nat
    BY DEF TypeOK
  <2> QED
    BY <1>1, <2>1 DEF Spared, RunsInv, RunInv, Wasted, TypeOK
<1>5. task'[r] = "written" => status'[r] \in Verdict \cup {"errored"}
  BY <1>1 DEF Spared, RunsInv, WrittenStands
<1> QED
  BY <1>2, <1>3, <1>4, <1>5 DEF RunInv

\* The steps of the API, of the loop and of the janitor spare every run.
LEMMA OthersSpare ==
  ASSUME TypeOK, NEW r \in Run,
         \/ CreateRuns \/ ApiDies \/ LoopNext \/ RedisLosesQueue \/ ReclaimStalled
         \/ UNCHANGED vars
         \/ \E q \in Run : ApiNext(q) \/ PlanRaises(q) \/ BecomesLate(q)
  PROVE  Spared(r)
<1>1. ASSUME faults' = faults \/ Fault PROVE faults' >= faults
  BY <1>1 DEF Fault, TypeOK
<1>2. CASE CreateRuns \/ ReclaimStalled \/ UNCHANGED vars
  BY <1>1, <1>2 DEF CreateRuns, ReclaimStalled, vars, Spared, TypeOK
<1>3. CASE ApiDies \/ RedisLosesQueue
  BY <1>1, <1>3 DEF ApiDies, RedisLosesQueue, Spared, TypeOK
<1>4. CASE LoopNext
  BY <1>1, <1>4 DEF LoopNext, TakeSlot, Dequeue, DequeueNothing, DequeueLost, Stop, Restart,
     Crash, Spared, TypeOK
<1>5. ASSUME NEW q \in Run, ApiNext(q)
      PROVE  Spared(r)
  BY <1>1, <1>5 DEF ApiNext, Push, PushRaises, FailIfStillQueued, Cancel, Spared, TypeOK
<1>6. ASSUME NEW q \in Run, PlanRaises(q) \/ BecomesLate(q)
      PROVE  Spared(r)
  BY <1>1, <1>6 DEF PlanRaises, BecomesLate, Spared, TypeOK
<1> QED
  BY <1>2, <1>3, <1>4, <1>5, <1>6

\* What the worker does to one run spares the others.
LEMMA WorkerSpares ==
  ASSUME TypeOK, NEW q \in Run, NEW r \in Run, q # r, Executes(q) \/ RecordUnrunnable(q)
  PROVE  Spared(r)
<1>1. ASSUME faults' = faults \/ Fault PROVE faults' >= faults
  BY <1>1 DEF Fault, TypeOK
<1>2. CASE ReadRun(q) \/ StartRun(q) \/ AnnounceStarted(q)
  BY <1>1, <1>2 DEF ReadRun, StartRun, AnnounceStarted, Spared, TypeOK
<1>3. CASE CheckCancelled(q)
  BY <1>1, <1>3 DEF CheckCancelled, Spared, TypeOK
<1>4. ASSUME NEW o \in Outcome, Iterate(q, o)
      PROVE  Spared(r)
  BY <1>1, <1>4 DEF Iterate, Spared, TypeOK
<1>5. CASE FinishRun(q) \/ RecordUnrunnable(q) \/ AnnounceCompleted(q)
  BY <1>1, <1>5 DEF FinishRun, RecordUnrunnable, AnnounceCompleted, Finish, Spared, TypeOK
<1> QED
  BY <1>2, <1>3, <1>4, <1>5 DEF Executes

\* What the worker does to a run keeps what is known of it.
LEMMA WorkerKeeps ==
  ASSUME TypeOK, RunsInv, NEW r \in Run, Executes(r) \/ RecordUnrunnable(r)
  PROVE  RunInv(r)' /\ (task'[r] = "written" => status'[r] \in Verdict \cup {"errored"})
<1>0. /\ status[r] \in {"absent"} \cup Open \cup Terminal /\ task[r] \in Stage
      /\ outcomes[r] \in Seq(Outcome) /\ wasted[r] \in Nat /\ faults \in Nat
  BY DEF TypeOK
<1> USE DEF RunsInv, RunInv
<1>1. CASE ReadRun(r)
  BY <1>0, <1>1 DEF ReadRun, Judged, Told, Wasted, TypeOK
<1>2. CASE StartRun(r) \/ AnnounceStarted(r)
  BY <1>0, <1>2 DEF StartRun, AnnounceStarted, Judged, Told, Wasted, TypeOK
<1>3. CASE CheckCancelled(r)
  <2>1. /\ task[r] = "checking" /\ status' = status /\ completed' = completed
        /\ outcomes' = outcomes /\ wasted' = wasted
        /\ \/ /\ task'[r] = IF status[r] = "cancelled" THEN "finishing" ELSE "iterating"
              /\ faults' = faults
           \/ task'[r] = "iterating" /\ faults' = faults + 1
    BY <1>3 DEF CheckCancelled, Goes, Stops, Fault, TypeOK
  <2>2. Judged(r)' /\ task'[r] # "written"
    BY <2>1 DEF Judged
  <2>3. Told(r)' /\ Wasted(r)'
    BY <1>0, <2>1 DEF Told, Wasted
  <2> QED
    BY <2>2, <2>3
<1>4. ASSUME NEW o \in Outcome, Iterate(r, o)
      PROVE  RunInv(r)' /\ task'[r] # "written"
  <2>1. /\ task[r] = "iterating" /\ outcomes'[r] = Append(outcomes[r], o)
        /\ status' = status /\ completed' = completed /\ faults' = faults
        /\ wasted'[r] = IF status[r] = "cancelled" THEN wasted[r] + 1 ELSE wasted[r]
        /\ task'[r] = IF o = "refused" \/ Len(outcomes[r]) + 1 = Iterations
                      THEN "finishing" ELSE "checking"
    BY <1>4 DEF Iterate, TypeOK
  <2>2. status[r] \notin Verdict
    BY <2>1 DEF Judged
  <2>3. Len(outcomes'[r]) = Len(outcomes[r]) + 1 /\ outcomes'[r][Len(outcomes[r]) + 1] = o
    BY <1>0, <2>1
  <2>4. o = "refused" => Proved(outcomes'[r], "refused")
    <3>1. Len(outcomes[r]) + 1 \in DOMAIN outcomes'[r]
      BY <1>0, <2>1
    <3> QED
      BY <3>1, <2>3 DEF Proved
  <2>5. Judged(r)'
    BY <2>1, <2>2, <2>3, <2>4 DEF Judged
  <2>6. Told(r)' /\ Wasted(r)'
    BY <1>0, <2>1 DEF Told, Wasted
  <2> QED
    BY <2>1, <2>5, <2>6
<1>5. CASE FinishRun(r)
  <2>1. /\ task[r] = "finishing" /\ outcomes' = outcomes /\ completed' = completed
        /\ wasted' = wasted /\ faults' = faults
        /\ status'[r] = IF status[r] \in Open THEN DeriveStatus(outcomes[r]) ELSE status[r]
        /\ task'[r] = IF status[r] \in Open THEN "written" ELSE "none"
    BY <1>5 DEF FinishRun, Finish, Announced, Unfinished, TypeOK
  <2>2. /\ DeriveStatus(outcomes[r]) \in Verdict => ~Proved(outcomes[r], "refused")
        /\ DeriveStatus(outcomes[r]) \in Verdict \cup {"errored"}
    BY DEF DeriveStatus
  <2>3. Judged(r)'
    BY <2>1, <2>2 DEF Judged
  <2>4. Told(r)' /\ Wasted(r)'
    BY <1>0, <2>1, <2>2 DEF Told, Wasted
  <2> QED
    BY <2>1, <2>2, <2>3, <2>4
<1>6. CASE RecordUnrunnable(r)
  <2>1. /\ task[r] = "planning" /\ outcomes' = outcomes /\ completed' = completed
        /\ wasted' = wasted /\ faults' = faults
        /\ status'[r] = IF status[r] \in Open THEN "errored" ELSE status[r]
        /\ task'[r] = IF status[r] \in Open THEN "written" ELSE "none"
    BY <1>6 DEF RecordUnrunnable, Finish, Announced, Unfinished, TypeOK
  <2> QED
    BY <1>0, <2>1 DEF Judged, Told, Wasted
<1>7. CASE AnnounceCompleted(r)
  BY <1>0, <1>7 DEF AnnounceCompleted, WrittenStands, Judged, Told, Wasted, TypeOK
<1> QED
  BY <1>1, <1>2, <1>3, <1>4, <1>5, <1>6, <1>7 DEF Executes

LEMMA RunsInit == Init => RunsInv
BY DEF Init, RunsInv, RunInv, WrittenStands, Judged, Told, Wasted

\* One step keeps the types and the invariant.
LEMMA RunsStep == TypeOK /\ RunsInv /\ [Next]_vars => TypeOK' /\ RunsInv'
<1> SUFFICES ASSUME TypeOK, RunsInv, [Next]_vars
             PROVE  TypeOK' /\ RunsInv'
  OBVIOUS
<1>1. TypeOK'
  <2>1. CASE UNCHANGED vars
    BY <2>1 DEF vars, TypeOK
  <2>2. WrittenStands
    BY DEF RunsInv
  <2>3. CASE CreateRuns \/ ApiDies
    <3>1. CASE Run = {}
      BY <2>3, <3>1 DEF CreateRuns, ApiDies, TypeOK
    <3> QED
      BY <2>3, <3>1, TypeApi
  <2> QED
    BY <2>1, <2>2, <2>3, TypeApi, TypeLoop, TypeRun DEF Next, ApiNext
<1>2. ASSUME NEW r \in Run
      PROVE  RunInv(r)' /\ (task'[r] = "written" => status'[r] \in Verdict \cup {"errored"})
  <2>1. CASE Spared(r)
    BY <1>1, <2>1, SparedKeeps
  <2>2. CASE Executes(r) \/ RecordUnrunnable(r)
    BY <2>2, WorkerKeeps
  <2> QED
    BY <2>1, <2>2, OthersSpare, WorkerSpares DEF Next
<1> QED
  BY <1>1, <1>2 DEF RunsInv, WrittenStands

\* Every variable keeps its type.
THEOREM TypeCorrect == Spec => []TypeOK
<1>1. Init => TypeOK /\ RunsInv
  BY TypeInit, RunsInit
<1>2. TypeOK /\ RunsInv /\ [Next]_vars => (TypeOK /\ RunsInv)'
  BY RunsStep
<1> QED
  BY <1>1, <1>2, PTL DEF Spec

\* Each run's row agrees with where the worker is with it, what it proved and what was
\* announced of it.
THEOREM RunsAgree == Spec => []RunsInv
<1>1. Init => TypeOK /\ RunsInv
  BY TypeInit, RunsInit
<1>2. TypeOK /\ RunsInv /\ [Next]_vars => (TypeOK /\ RunsInv)'
  BY RunsStep
<1> QED
  BY <1>1, <1>2, PTL DEF Spec

\* A run that has ended stays as it ended.
THEOREM TerminalStaysHolds == Spec => TerminalStays
<1>1. TypeOK /\ [Next]_vars =>
        [\A r \in Run : status[r] \in Terminal => status'[r] = status[r]]_status
  BY EndedStays
<1> QED
  BY <1>1, TypeCorrect, PTL DEF Spec, TerminalStays

\* A subscriber is told the status the row has and keeps.
THEOREM CompletedAgreesHolds == Spec => []CompletedAgrees
<1>1. RunsInv => CompletedAgrees
  BY DEF RunsInv, RunInv, Told, CompletedAgrees
<1> QED
  BY <1>1, RunsAgree, PTL

\* A verdict stands on every iteration, none of which asked for an unmocked tool.
THEOREM VerdictIsWholeHolds == Spec => []VerdictIsWhole
<1>1. RunsInv => VerdictIsWhole
  BY DEF RunsInv, RunInv, Judged, VerdictIsWhole
<1> QED
  BY <1>1, RunsAgree, PTL

\* A cancel costs one more iteration at most, and one for each fault.
THEOREM WasteBoundedHolds == Spec => []WasteBounded
<1>1. RunsInv => WasteBounded
  BY DEF RunsInv, RunInv, Wasted, WasteBounded
<1> QED
  BY <1>1, RunsAgree, PTL

-----------------------------------------------------------------------------
(* The promise kept                                                        *)

RunPromise(r) == \/ Promise!Same(r) \/ Promise!End(r) \/ Promise!Settle(r)
                 \/ Promise!Tell(r) \/ Promise!Lose(r)

\* The UPDATE that ends a run settles whether that is told, and never of a cancellation.
LEMMA EndSettles ==
  ASSUME NEW r \in Run, status[r] \notin Terminal, status'[r] \in Terminal,
         task'[r] = "written" => status'[r] # "cancelled", completed'[r] = completed[r]
  PROVE  Promise!Settle(r)
<1>1. Promise!Ends(r)
  BY DEF Promise!Ends
<1>2. /\ ~[q \in Run |-> status[q] \in Terminal][r]
      /\ [q \in Run |-> status[q] \in Terminal]'[r]
  BY Zenon
<1>3. [q \in Run |-> IF task[q] = "written" THEN 1 ELSE 0]'[r]
        <= IF [q \in Run |-> IF status[q] \in Terminal THEN status[q] ELSE "none"]'[r]
                \in {"cancelled"}
           THEN 0 ELSE [q \in Run |-> 1][r]
  OBVIOUS
<1>4. Promise!TellsNot(r)
  BY DEF Promise!TellsNot
<1> QED
  BY <1>1, <1>2, <1>3, <1>4, Zenon DEF Promise!Settle

\* A run the step spares ends untold, loses its event, or stays.
LEMMA SparedPromise ==
  ASSUME TypeOK, RunsInv, [Next]_vars, NEW r \in Run, Spared(r)
  PROVE  RunPromise(r)
<1> USE DEF Promise!Same, Promise!Settle, Promise!Lose, Promise!Stands, Promise!Ends,
            Promise!Keeps, Promise!TellsNot
<1>1. completed'[r] = completed[r]
  BY DEF Spared
<1>2. CASE status[r] \in Terminal
  <2>1. status'[r] = status[r] /\ status[r] # "none"
    BY <1>2, EndedStays
  <2>2. task'[r] = task[r] \/ task'[r] # "written"
    BY DEF Spared
  <2>3. CASE (task[r] = "written") <=> (task'[r] = "written")
    BY <1>1, <1>2, <2>1, <2>3 DEF RunPromise
  <2>4. CASE task[r] = "written" /\ task'[r] # "written"
    BY <1>1, <1>2, <2>1, <2>4 DEF RunPromise
  <2> QED
    BY <2>2, <2>3, <2>4
<1>3. CASE status[r] \notin Terminal
  <2>1. task[r] # "written" /\ task'[r] # "written"
    BY <1>3 DEF Spared, RunsInv, WrittenStands
  <2>2. CASE status'[r] \in Terminal
    <3>1. Promise!Settle(r)
      BY <1>1, <1>3, <2>1, <2>2, EndSettles
    <3> QED
      BY <3>1 DEF RunPromise
  <2>3. CASE status'[r] \notin Terminal
    BY <1>1, <1>3, <2>1, <2>3 DEF RunPromise
  <2> QED
    BY <2>2, <2>3
<1> QED
  BY <1>2, <1>3

\* The worker that ends a run settles that it is told; the one that had written it tells.
LEMMA WorkerPromise ==
  ASSUME TypeOK, NEW r \in Run, Executes(r) \/ RecordUnrunnable(r)
  PROVE  RunPromise(r)
<1> USE DEF Promise!Same, Promise!Settle, Promise!Tell, Promise!Lose, Promise!Stands,
            Promise!Ends, Promise!Keeps, Promise!TellsNot
<1>0. status[r] \in {"absent"} \cup Open \cup Terminal
  BY DEF TypeOK
<1>1. ASSUME \/ status'[r] = status[r]
             \/ status[r] \notin Terminal /\ status'[r] \notin Terminal,
             task[r] # "written", task'[r] # "written", completed'[r] = completed[r]
      PROVE  RunPromise(r)
  <2>1. Promise!Same(r)
    BY <1>1
  <2> QED
    BY <2>1 DEF RunPromise
<1>2. CASE ReadRun(r) \/ StartRun(r) \/ AnnounceStarted(r) \/ CheckCancelled(r)
           \/ \E o \in Outcome : Iterate(r, o)
  BY <1>1, <1>2 DEF ReadRun, StartRun, AnnounceStarted, CheckCancelled, Iterate, TypeOK
<1>3. ASSUME NEW s \in Verdict \cup {"errored"}, Finish(r, s), task[r] # "written",
             completed' = completed
      PROVE  RunPromise(r)
  <2>1. CASE status[r] \in Open
    <3>1. status'[r] = s /\ task'[r] = "written"
      BY <1>3, <2>1 DEF Finish, Unfinished, Announced, TypeOK
    <3>2. Promise!Settle(r)
      BY <1>3, <2>1, <3>1, EndSettles
    <3> QED
      BY <3>2 DEF RunPromise
  <2>2. CASE status[r] \notin Open
    <3>1. status'[r] = status[r] /\ task'[r] = "none"
      BY <1>3, <2>2 DEF Finish, Unfinished, Announced, TypeOK
    <3> QED
      BY <1>1, <1>3, <3>1
  <2> QED
    BY <2>1, <2>2
<1>4. CASE FinishRun(r)
  BY <1>3, <1>4 DEF FinishRun, DeriveStatus
<1>5. CASE RecordUnrunnable(r)
  BY <1>3, <1>5 DEF RecordUnrunnable
<1>6. CASE AnnounceCompleted(r)
  <2>1. /\ task[r] = "written" /\ task'[r] = "none" /\ status' = status
        /\ completed'[r] = status[r] /\ status[r] # "none"
    BY <1>0, <1>6 DEF AnnounceCompleted, TypeOK
  <2>2. CASE completed[r] = "none"
    BY <2>1, <2>2 DEF RunPromise
  <2>3. CASE completed[r] # "none"
    BY <2>1, <2>3 DEF RunPromise
  <2> QED
    BY <2>2, <2>3
<1> QED
  BY <1>2, <1>4, <1>5, <1>6 DEF Executes

\* A batch implements EndsOnce, for any runs, slots, iterations and faults: a run ends one
\* way, and its event is told by the worker that wrote the ending, or by nobody.
THEOREM EvalRunsImplementEndsOnce == Spec => ImplementsEndsOnce
<1>1. Init => Promise!Init
  <2> SUFFICES ASSUME Init PROVE Promise!Init
    OBVIOUS
  <2>1. [r \in Run |-> 1] \in [Run -> 1 .. 2]
    OBVIOUS
  <2>2. \A r \in Run : status[r] \notin Terminal /\ task[r] = "none" /\ completed[r] = "none"
    BY DEF Init
  <2>3. [r \in Run |-> IF status[r] \in Terminal THEN status[r] ELSE "none"]
           = [r \in Run |-> "none"]
    BY <2>2
  <2>4. [r \in Run |-> status[r] \in Terminal] = [r \in Run |-> FALSE]
    <3>1. \A r \in Run : (status[r] \in Terminal) = FALSE
      BY <2>2
    <3> QED
      BY <3>1
  <2>5. /\ [r \in Run |-> IF task[r] = "written" THEN 1 ELSE 0] = [r \in Run |-> 0]
        /\ [r \in Run |-> IF completed[r] = "none" THEN 0 ELSE 1] = [r \in Run |-> 0]
    BY <2>2
  <2> QED
    BY <2>1, <2>3, <2>4, <2>5 DEF Promise!Init
<1>2. TypeOK /\ RunsInv /\ [Next]_vars => [Promise!Next]_(Promise!vars)
  <2> SUFFICES ASSUME TypeOK, RunsInv, [Next]_vars PROVE Promise!Next
    OBVIOUS
  <2>1. ASSUME NEW r \in Run PROVE RunPromise(r)
    <3>1. CASE Spared(r)
      BY <3>1, SparedPromise
    <3>2. CASE Executes(r) \/ RecordUnrunnable(r)
      BY <3>2, WorkerPromise
    <3> QED
      BY <3>1, <3>2, OthersSpare, WorkerSpares DEF Next
  <2> QED
    BY <2>1 DEF RunPromise, Promise!Next
<1> QED
  BY <1>1, <1>2, TypeCorrect, RunsAgree, PTL DEF Spec, ImplementsEndsOnce, Promise!Spec

\* An event about to be told of a run is the first.
Untold(r) == task[r] = "written" => completed[r] = "none"

LEMMA UntoldStep ==
  ASSUME TypeOK, RunsInv, [Next]_vars, NEW r \in Run, Untold(r)
  PROVE  Untold(r)'
<1>1. CASE Spared(r)
  BY <1>1 DEF Spared, Untold
<1>2. CASE ReadRun(r) \/ StartRun(r) \/ AnnounceStarted(r) \/ CheckCancelled(r)
           \/ AnnounceCompleted(r) \/ \E o \in Outcome : Iterate(r, o)
  BY <1>2 DEF ReadRun, StartRun, AnnounceStarted, CheckCancelled, AnnounceCompleted, Iterate,
     Untold, TypeOK
<1>3. ASSUME NEW s, Finish(r, s), completed' = completed
      PROVE  Untold(r)'
  <2>1. task'[r] = "written" => status[r] \in Open
    BY <1>3 DEF Finish, Unfinished, Announced, TypeOK
  <2>2. status[r] \in Open => completed[r] = "none"
    BY DEF RunsInv, RunInv, Told
  <2> QED
    BY <1>3, <2>1, <2>2 DEF Untold
<1>4. CASE FinishRun(r) \/ RecordUnrunnable(r)
  BY <1>3, <1>4 DEF FinishRun, RecordUnrunnable
<1> QED
  BY <1>1, <1>2, <1>4, OthersSpare, WorkerSpares DEF Next, Executes

\* So a run's event goes out once at most, after the run has ended, and never of one that
\* was cancelled.
THEOREM ToldWithinPromise == Spec => []Promise!Bounded
<1>1. Init => \A r \in Run : Untold(r)
  BY DEF Init, Untold
<1>2. /\ TypeOK /\ RunsInv /\ [Next]_vars /\ (\A r \in Run : Untold(r))
      => (\A r \in Run : Untold(r))'
  BY UntoldStep
<1>3. TypeOK /\ RunsInv /\ (\A r \in Run : Untold(r)) => Promise!Bounded
  <2> SUFFICES ASSUME TypeOK, RunsInv, \A r \in Run : Untold(r) PROVE Promise!Bounded
    OBVIOUS
  <2> DEFINE Ending(r) == IF status[r] \in Terminal THEN status[r] ELSE "none"
             Owed(r)   == IF task[r] = "written" THEN 1 ELSE 0
             Events(r) == IF completed[r] = "none" THEN 0 ELSE 1
  <2>1. ASSUME NEW r \in Run
        PROVE  /\ completed[r] # "none" => task[r] # "written" /\ status[r] # "cancelled"
               /\ completed[r] # "none" \/ task[r] = "written" => status[r] \in Terminal
               /\ task[r] = "written" => status[r] # "cancelled"
    BY DEF RunsInv, RunInv, Told, WrittenStands, Untold
  <2>2. ASSUME NEW r \in Run
        PROVE  /\ Events(r) + Owed(r) <= 1
               /\ status[r] \notin Terminal => Events(r) = 0 /\ Owed(r) = 0
               /\ status[r] \in Terminal => Ending(r) # "none"
               /\ Ending(r) \in {"cancelled"} => Events(r) = 0 /\ Owed(r) = 0
    BY <2>1
  <2> QED
    BY <2>2 DEF Promise!Bounded, Ending, Owed, Events
<1> QED
  BY <1>1, <1>2, <1>3, TypeCorrect, RunsAgree, PTL DEF Spec
=============================================================================
