------------------------------- MODULE EvalRuns -------------------------------
(***************************************************************************)
(* Eval runs: the API records the runs of a batch and pushes their ids to  *)
(* a Redis list; an eval worker pops them, as many at once as it has       *)
(* slots, executes a run's iterations one after the other, and writes its  *)
(* verdict; a janitor errors what nobody will finish (evals/worker.py,     *)
(* evals/queue.py, evals/runner.py, storage/repositories/eval_repo.py).    *)
(*                                                                         *)
(* A step is one transaction, one Redis command or one iteration.  What an *)
(* iteration proves (the simulation, the judge) is chosen freely.          *)
(***************************************************************************)
EXTENDS Naturals, Sequences, FiniteSets

CONSTANTS
  Run,         \* the runs of one batch
  Slots,       \* max_concurrent_runs
  Iterations,  \* of every run
  MaxFault     \* bound: crashes, lost messages, failed reads and stalls

ASSUME EvalRunsAssumption ==
  /\ Slots \in Nat \ {0} /\ Iterations \in Nat \ {0} /\ MaxFault \in Nat

VARIABLES
  status,      \* eval_runs.status
  late,        \* the runs past the janitor's cutoff for their status
  outcomes,    \* what the iterations of a run proved so far, in its worker
  queue,       \* the Redis list
  push,        \* where the API is with each run
  task,        \* where the worker is with each run
  popping,     \* the worker waits in BRPOP, a slot taken for what it pops
  draining,    \* it has been told to stop
  completed,   \* the status in a run's eval.run.completed, "none" before it
  wasted,      \* iterations that ran to their end on a cancelled row
  faults

rows   == <<status, late>>
worker == <<task, outcomes, wasted>>
loop   == <<popping, draining>>
vars   == <<rows, completed, worker, loop, queue, push, faults>>

Open     == {"queued", "running"}
Verdict  == {"passed", "failed"}
Terminal == Verdict \cup {"errored", "cancelled"}
Outcome  == {"pass", "fail", "error", "refused"}
Stage    == {"none", "popped", "planning", "starting", "checking", "iterating",
             "finishing", "written"}

TypeOK ==
  /\ status \in [Run -> {"absent"} \cup Open \cup Terminal]
  /\ late \subseteq Run
  /\ outcomes \in [Run -> Seq(Outcome)]
  /\ queue \in Seq(Run)
  /\ push \in [Run -> {"none", "recorded", "failing", "done"}]
  /\ task \in [Run -> Stage]
  /\ popping \in BOOLEAN /\ draining \in BOOLEAN
  /\ completed \in [Run -> {"none"} \cup Terminal]
  /\ wasted \in [Run -> Nat] /\ faults \in Nat

Init ==
  /\ status = [r \in Run |-> "absent"] /\ late = {}
  /\ outcomes = [r \in Run |-> <<>>] /\ queue = <<>>
  /\ push = [r \in Run |-> "none"] /\ task = [r \in Run |-> "none"]
  /\ popping = FALSE /\ draining = FALSE
  /\ completed = [r \in Run |-> "none"]
  /\ wasted = [r \in Run |-> 0] /\ faults = 0

Fault == faults < MaxFault /\ faults' = faults + 1

-----------------------------------------------------------------------------
(* The API                                                                 *)

\* create_eval_run: the rows of the whole batch in one transaction.
CreateRuns ==
  /\ \A r \in Run : status[r] = "absent"
  /\ status' = [r \in Run |-> "queued"]
  /\ push' = [r \in Run |-> "recorded"]
  /\ UNCHANGED <<late, completed, worker, loop, queue, faults>>

\* _queue_one, one run after the other.
Push(r) ==
  /\ push[r] = "recorded" /\ \A q \in Run : push[q] # "failing"
  /\ queue' = Append(queue, r)
  /\ push' = [push EXCEPT ![r] = "done"]
  /\ UNCHANGED <<rows, completed, worker, loop, faults>>

\* The push raises, whether or not it landed.
PushRaises(r) ==
  /\ push[r] = "recorded" /\ \A q \in Run : push[q] # "failing"
  /\ queue' \in {queue, Append(queue, r)}
  /\ push' = [push EXCEPT ![r] = "failing"]
  /\ Fault
  /\ UNCHANGED <<rows, completed, worker, loop>>

\* fail_if_still_queued.
FailIfStillQueued(r) ==
  /\ push[r] = "failing"
  /\ status' = [status EXCEPT ![r] = IF @ = "queued" THEN "errored" ELSE @]
  /\ push' = [push EXCEPT ![r] = "done"]
  /\ UNCHANGED <<late, completed, worker, loop, queue, faults>>

\* The API's process dies in its loop: what is left is never pushed.
ApiDies ==
  /\ \E r \in Run : push[r] \in {"recorded", "failing"}
  /\ push' = [r \in Run |-> "done"]
  /\ Fault
  /\ UNCHANGED <<rows, completed, worker, loop, queue>>

\* cancel_run.
Cancel(r) ==
  /\ status[r] \in Open
  /\ status' = [status EXCEPT ![r] = "cancelled"]
  /\ UNCHANGED <<late, completed, worker, loop, queue, push, faults>>

-----------------------------------------------------------------------------
(* The worker's loop                                                       *)

Busy == {r \in Run : task[r] # "none"}

\* _consume takes a slot before it pops.
TakeSlot ==
  /\ ~popping /\ ~draining /\ Cardinality(Busy) < Slots
  /\ popping' = TRUE
  /\ UNCHANGED <<rows, completed, worker, draining, queue, push, faults>>

Dequeue ==
  /\ popping /\ queue # <<>>
  /\ queue' = Tail(queue)
  /\ task' = [task EXCEPT ![Head(queue)] = "popped"]
  /\ popping' = FALSE
  /\ UNCHANGED <<rows, completed, outcomes, wasted, draining, push, faults>>

\* The wait ends with nothing.
DequeueNothing ==
  /\ popping /\ queue = <<>>
  /\ popping' = FALSE
  /\ UNCHANGED <<rows, completed, worker, draining, queue, push, faults>>

\* The client's read times out on an id the server has popped: dequeue calls it no work.
DequeueLost ==
  /\ popping /\ queue # <<>>
  /\ queue' = Tail(queue)
  /\ popping' = FALSE
  /\ Fault
  /\ UNCHANGED <<rows, completed, worker, draining, push>>

\* SIGTERM: nothing more is popped, what runs is finished, a new process takes over.
Stop ==
  /\ ~draining
  /\ draining' = TRUE
  /\ UNCHANGED <<rows, completed, worker, popping, queue, push, faults>>

Restart ==
  /\ draining /\ ~popping /\ Busy = {}
  /\ draining' = FALSE
  /\ UNCHANGED <<rows, completed, worker, popping, queue, push, faults>>

\* The process dies and another takes its place.
Crash ==
  /\ Busy # {} \/ popping
  /\ task' = [r \in Run |-> "none"]
  /\ popping' = FALSE /\ draining' = FALSE
  /\ Fault
  /\ UNCHANGED <<rows, completed, outcomes, wasted, queue, push>>

RedisLosesQueue ==
  /\ queue # <<>>
  /\ queue' = <<>>
  /\ Fault
  /\ UNCHANGED <<rows, completed, worker, loop, push>>

-----------------------------------------------------------------------------
(* execute_run                                                             *)

Goes(r, stage) == task' = [task EXCEPT ![r] = stage]

\* Mutant: a verdict is written over any row.
Unguarded(r) == TRUE

\* finish_run writes over a row that has not finished only.
Unfinished(r) == status[r] \in Open

\* Mutant: the ending is announced whether or not it was written.
AnnouncedAnyway(written) == TRUE

\* _record_unrunnable and _finish_run announce the ending they wrote.
Announced(written) == written

\* finish_run with status s, and what its caller does next.
Finish(r, s) ==
  /\ status' = [status EXCEPT ![r] = IF Unfinished(r) THEN s ELSE @]
  /\ Goes(r, IF Announced(Unfinished(r)) THEN "written" ELSE "none")

\* get_run: a run that is not queued any more is left alone.
ReadRun(r) ==
  /\ task[r] = "popped"
  /\ Goes(r, IF status[r] = "queued" THEN "planning" ELSE "none")
  /\ UNCHANGED <<rows, completed, outcomes, wasted, loop, queue, push, faults>>

\* _plan_run, of a run that cannot start.
RecordUnrunnable(r) ==
  /\ task[r] = "planning"
  /\ Finish(r, "errored")
  /\ UNCHANGED <<late, completed, outcomes, wasted, loop, queue, push, faults>>

\* Anything else in _plan_run raises: the task ends, the row stays as it is.
PlanRaises(r) ==
  /\ task[r] = "planning"
  /\ Goes(r, "none")
  /\ Fault
  /\ UNCHANGED <<rows, completed, outcomes, wasted, loop, queue, push>>

\* start_run, whose result is not looked at.
StartRun(r) ==
  /\ task[r] = "planning"
  /\ IF status[r] = "queued"
     THEN /\ status' = [status EXCEPT ![r] = "running"]
          /\ late' = late \ {r}
     ELSE UNCHANGED rows
  /\ Goes(r, "starting")
  /\ UNCHANGED <<completed, outcomes, wasted, loop, queue, push, faults>>

AnnounceStarted(r) ==
  /\ task[r] = "starting"
  /\ Goes(r, "checking")
  /\ UNCHANGED <<rows, completed, outcomes, wasted, loop, queue, push, faults>>

\* Mutant: only the first iteration looks for a cancellation.
StopsFirst(r) == status[r] = "cancelled" /\ outcomes[r] = <<>>

\* _was_cancelled, when the row can be read.
Stops(r) == status[r] = "cancelled"

\* run_iterations: the check between iterations; one that fails is not a cancellation.
CheckCancelled(r) ==
  /\ task[r] = "checking"
  /\ \/ /\ Goes(r, IF Stops(r) THEN "finishing" ELSE "iterating")
        /\ faults' = faults
     \/ Goes(r, "iterating") /\ Fault
  /\ UNCHANGED <<rows, completed, outcomes, wasted, loop, queue, push>>

\* run_iterations: an iteration proves something, errors, or asks for a tool no mock
\* covers, which ends the loop.
Iterate(r, o) ==
  /\ task[r] = "iterating"
  /\ outcomes' = [outcomes EXCEPT ![r] = Append(@, o)]
  /\ wasted' = [wasted EXCEPT ![r] = IF status[r] = "cancelled" THEN @ + 1 ELSE @]
  /\ Goes(r, IF o = "refused" \/ Len(outcomes[r]) + 1 = Iterations
             THEN "finishing" ELSE "checking")
  /\ UNCHANGED <<rows, completed, loop, queue, push, faults>>

Proved(os, o) == \E i \in DOMAIN os : os[i] = o

\* Mutant: a refused tool is an iteration without a verdict, like an error.
DeriveAnyway(os) ==
  IF Proved(os, "fail") THEN "failed" ELSE IF Proved(os, "pass") THEN "passed" ELSE "errored"

\* derive_status: no verdict over a refused tool, nor where no iteration reached one.
DeriveStatus(os) ==
  IF Proved(os, "refused") THEN "errored"
  ELSE IF Proved(os, "fail") THEN "failed"
  ELSE IF Proved(os, "pass") THEN "passed" ELSE "errored"

FinishRun(r) ==
  /\ task[r] = "finishing"
  /\ Finish(r, DeriveStatus(outcomes[r]))
  /\ UNCHANGED <<late, completed, outcomes, wasted, loop, queue, push, faults>>

\* The row is read back, so that the event is what it says.
AnnounceCompleted(r) ==
  /\ task[r] = "written"
  /\ completed' = [completed EXCEPT ![r] = status[r]]
  /\ Goes(r, "none")
  /\ UNCHANGED <<rows, outcomes, wasted, loop, queue, push, faults>>

-----------------------------------------------------------------------------
(* Time and the janitor                                                    *)

\* A run waits too long, or runs past its iterations' budgets: since each iteration is
\* bounded, because nobody executes it, or because its worker stalls.
BecomesLate(r) ==
  /\ status[r] \in Open /\ r \notin late
  /\ \/ (status[r] = "queued" \/ task[r] = "none") /\ faults' = faults
     \/ status[r] = "running" /\ task[r] # "none" /\ Fault
  /\ late' = late \cup {r}
  /\ UNCHANGED <<status, completed, worker, loop, queue, push>>

\* Mutant: the janitor looks at claimed runs only.
AbandonedClaimed(r) == r \in late /\ status[r] = "running"

\* reclaim_stalled_runs: what it sweeps.
Abandoned(r) == r \in late /\ status[r] \in Open

ReclaimStalled ==
  /\ \E r \in Run : Abandoned(r)
  /\ status' = [r \in Run |-> IF Abandoned(r) THEN "errored" ELSE status[r]]
  /\ UNCHANGED <<late, completed, worker, loop, queue, push, faults>>

-----------------------------------------------------------------------------
ApiNext(r) == Push(r) \/ PushRaises(r) \/ FailIfStillQueued(r) \/ Cancel(r)
LoopNext   == TakeSlot \/ Dequeue \/ DequeueNothing \/ DequeueLost \/ Stop \/ Restart \/ Crash
Executes(r) == \/ ReadRun(r) \/ StartRun(r) \/ AnnounceStarted(r) \/ CheckCancelled(r)
               \/ (\E o \in Outcome : Iterate(r, o))
               \/ FinishRun(r) \/ AnnounceCompleted(r)

Next ==
  \/ CreateRuns \/ ApiDies \/ LoopNext \/ RedisLosesQueue \/ ReclaimStalled
  \/ \E r \in Run : \/ ApiNext(r) \/ Executes(r) \/ RecordUnrunnable(r)
                    \/ PlanRaises(r) \/ BecomesLate(r)

Spec == Init /\ [][Next]_vars

\* A worker that lives works through a run (every iteration is bounded); time passes;
\* the janitor of whichever worker lives sweeps every interval.
Fairness == /\ \A r \in Run : WF_vars(Executes(r)) /\ WF_vars(BecomesLate(r))
            /\ WF_vars(ReclaimStalled)

FairSpec == Spec /\ Fairness

-----------------------------------------------------------------------------
(* Properties                                                              *)

\* A run that has ended stays as it ended, whichever of its worker, a cancel, the janitor
\* and a push that raised comes late (the WHERE of finish_run and of the others, #92).
TerminalStays ==
  [][\A r \in Run : status[r] \in Terminal => status'[r] = status[r]]_status

\* A subscriber is told the status the row has and keeps, never a cancelled run's.
CompletedAgrees ==
  \A r \in Run : completed[r] # "none" =>
    completed[r] = status[r] /\ status[r] \in Verdict \cup {"errored"}

\* A verdict stands on every iteration, none of which asked for an unmocked tool: a loop
\* that was cut short never leaves one.
VerdictIsWhole ==
  \A r \in Run : status[r] \in Verdict =>
    Len(outcomes[r]) = Iterations /\ ~Proved(outcomes[r], "refused")

\* A cancel costs one more iteration at most, and one for each check that failed (#92).
WasteBounded == \A r \in Run : wasted[r] <= 1 + faults

\* A run that was accepted ends: when its id was lost, when its worker died, when nobody
\* pops it.
EveryRunEnds == \A r \in Run : status[r] \in Open ~> status[r] \in Terminal
=============================================================================
