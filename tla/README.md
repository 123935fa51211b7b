# turncall in TLA+

turncall runs voice agents on phone and browser calls. Its processes (API
replicas, campaign workers, eval workers) share no memory: they coordinate
through guarded UPDATEs of Postgres rows, through leases and pub/sub channels in
Redis, and through requests to carriers and webhooks from them. What can go
wrong is therefore a matter of the order in which those happen, and of
processes that die or stall in between. These modules model the seven parts of
the program where that matters most, TLC checks them on small instances, and
TLAPS proves every safety property the passing runs check for every instance.

Paths below are relative to `src/src/turncall/` unless they begin with `docs/`,
`adr/` or `tests/` (under `src/`).

## The system

| Component | State | Operations | Interacts with | Hard behaviour |
|---|---|---|---|---|
| Outbound campaigns (`campaigns/`, `storage/repositories/campaign_repo.py`) | `campaigns`, `campaign_targets` | a worker's pass: reclaim, settle, start, claim, dial, finish; the operator's pause, resume, cancel | outbound dialling, limits, the call rows, events | several workers, stalls, crashes on either side of the carrier's request |
| Outbound dialling (`services/outbound_dial.py`) | a `calls` row | check, call-init, ask the carrier, record | suppression list, limits, carriers | a lost answer, a crash before the commit |
| Call ending and post-call start (`storage/repositories/call_repo.py`, `services/call_analysis_trigger.py`, `orchestrator/call_session.py`, `services/call_control.py`) | `calls.status`, `media_attached_at`, `post_call_deferred_at`, `post_call_started_at` | attach, progress, end, defer, claim, sweep, run | carrier webhooks, the audio pipeline, the conversation holder | racing endings, late callbacks, processes that die |
| Carrier webhooks (`webhooks/`) | the call row | voice, status, hangup, transfer and recording callbacks | carriers | lost, repeated, reordered callbacks; state read before an await |
| Conversation holder (`services/live_transcript.py`) and live control channel (`services/live_call_channel.py`, `orchestrator/live_control.py`) | lines in memory, Redis subscribers and acknowledgement lists | hold, release, ask, serve, request | post-call runs, warm transfer, the call control API | a timeout that races an answer |
| Live-call limits (`services/limits.py`) | Redis sorted sets of leases, one-second windows | admit, reserve, hold, renew, release | every call and dial | leases that lapse, releases that come twice or late |
| Graceful shutdown (`services/drain.py`) | live calls and tasks of one process | drain, second signal | call sessions, post-call runs | bounded waits, calls that start during a drain |
| Eval runs (`evals/`, `storage/repositories/eval_repo.py`) | `eval_runs`, a Redis list, a worker's slots | create, push, pop, plan, iterate, finish, cancel, reclaim | worker, janitor, events | a cancel or the janitor against a live worker, lost ids |
| Procedures (`domain/procedure_state.py`, `orchestrator/procedures.py`, `services/call_view.py`) | the route of a call through its steps, the events it stores | start, move, refuse, end, escalate | the model's tool calls, handoffs | moves in any order, writes by background tasks |
| Skills of a call (`services/skills.py`, `orchestrator/skill_loader.py`) | the skills loaded | load, make room, adopt | handoffs | the cap |
| Agent handoff (`orchestrator/tool_bridge.py`, `services/call_control.py`) | the pipeline's agent, `active_agent_id` | prepare, check, commit, switch | procedures, skills, the control channel | a barge-in between two of them, two at once |
| Transfers (`services/telnyx_transfer.py`, `services/transfer.py`, `webhooks/telnyx_media_stream.py`) | an intent in Redis, `calls.status`, `client_state` on the operator's leg | request, park, stop, tell, dial, brief, bridge, apologise | Telnyx, the pipeline, the media edge | commands that fail half way, webhooks repeated, two ends of a stream |
| Text sessions (`services/sms_chat.py`, `services/text_agent.py`, `services/text_skills.py`, `services/text_redaction.py`) | `sms_sessions`, `sms_messages`, redaction claims | find, open, reply, load, expire, delete, claim, rewrite | SMS, WhatsApp, chat API, every replica's sweep | two messages at once, a reply on a session that ended |
| Webhook delivery (`events/`) | tasks in memory | dispatch, retry, drop | subscribers | lost on a crash |
| Provider failover (`orchestrator/failover.py`), recording, knowledge, retention, redaction, agents, projects, credentials, adapters | rows, files, frames | create, read, update, delete; audio and text transformations | pipecat, object storage, providers | mostly data and I/O |

What makes each right, in a sentence. A campaign rings a phone only on purpose:
one worker per target, never again after a ring it cannot account for, never
once paused or cancelled, no oftener than the retry policy says, and it comes to
an end once its calls have. A call ends one way, is processed once, and only when its last words are
stored. A limit is never exceeded while Redis and the leases hold, and an orderly
ending frees its slot. A drain cuts nobody off and ends. An eval run has one result, which
stands on all its iterations. The record of a call names the agent that speaks,
its summary where each procedure stands, and the API's answers are true. A
transfer leaves nobody on a silent line. A text session that was rewritten holds
no raw text, and a live one is never rewritten.

## The modules

| Module | What it is |
|---|---|
| `Campaign` | one campaign: rows, workers, carrier, operator, time; properties and the invariant behind them |
| `DialLicence` | the abstract promise: a licence to ring, used once or lost, and a ring not on record is a target's last |
| `CampaignRefinement` | the mapping under which `Campaign` implements `DialLicence` |
| `CampaignProofs` | proofs about `Campaign` and the refinement |
| `MCCampaign` | values for the small instances |
| `CallEnding` | one call's end: row, line, pipeline, requests, sweeps, post-call runs; properties and the invariant |
| `EndsOnce` | the abstract promise of a thing that ends: one ending that stands, told as often as was settled when it ended, and never oftener |
| `CallEndingRefinement` | the mapping under which a call's ending implements `EndsOnce` |
| `CallEndingProofs`, `MCCallEnding` | proofs about `CallEnding` and the refinement; values for the small instances |
| `LiveCalls` | a project's live calls: their slots in Redis, their number's window, the processes that run and drain them |
| `LiveCallsProofs`, `MCLiveCalls` | its proofs; values |
| `EvalRuns` | a batch of eval runs: API, list, worker, janitor |
| `EvalRunsRefinement` | the mapping under which a batch of eval runs implements `EndsOnce` |
| `EvalRunsProofs`, `MCEvalRuns` | proofs about `EvalRuns` and the refinement; values |
| `TextSessions` | one customer's text conversations: turns, sessions, skills, the sweeps of every replica |
| `TextSessionsProofs`, `MCTextSessions` | its proofs; values |
| `Induction` | induction over the naturals with a set in the predicate's place; from it, the greatest of some positions and the function a recursion over a list defines |
| `CallAgent` | the agent, procedures and skills of one live call; handoffs by tool, escalate step and API, through the control channel |
| `CallAgentProofs`, `MCCallAgent` | its proofs; a graph of steps for the small instance |
| `TelnyxTransfer` | transfers of one Telnyx call: requests, webhooks, legs, the media edge |
| `TelnyxTransferProofs`, `MCTelnyxTransfer` | its proofs; values |

Three of them compose components: `CallEnding` the webhooks, the pipeline, the
API and the conversation's holder; `CallAgent` procedures, skills, handoffs and
the control channel; `TelnyxTransfer` the request's transaction, the webhooks'
handlers and the media edge. Where a component meets another that has its own
module, it is there as what it does to the first: a limit that refuses is a
`ReserveRefused` of `Campaign` and a `Drop` of `TextSessions`, a transfer is a
status written in `CallEnding` and one answer in `CallAgent`.

### Campaign

A step is one transaction or one request to the carrier. The rows are
`campaign` (with `started`, for `started_at`) and, per target, `status`, `next`
(`next_attempt_at` as absent, later or due), `stale` (`claimed_at` older than
the claim timeout), `attempts` and `reason`. What a worker has in memory between
two transactions is `pc`, `tgt` and `plan` (the endings `_settle` read), and a
`Crash` loses exactly that; a fault that ends a pass has the same effect.
`call` is the world's own record of the calls the carrier placed, the ones the
database never heard of included, so the properties speak of phones that rang
and not of rows that say so.

| Action | Code |
|---|---|
| `Reclaim` | `dialer._reclaim`, `campaign_repo.reclaim_abandoned` |
| `OpenPass` | `campaign_repo.active_campaigns` and `dialer.advance`'s test of the status it read |
| `ReadEndings`, `Settle` | `dialer._settle`: its read, and its writes through `retry_target` and `finish_target` |
| `Start`, `FinishIfDone`, `Announce`, `AnnounceCancel` | `lifecycle`: the guarded move, its commit, then the event |
| `ReserveRefused`, `NothingToClaim`, `Claim`, `Defer` | `dialer._dial_next`, `claim_statement`, `_defer_outside_window` |
| `Check`, `BeginPlacing`, `AskCarrier`, `RecordDial` | `place_outbound_call`, `before_carrier`, the carrier's request, `record_dial` with the call row |
| `NotRecorded`, `NotDialled` | `dialer._not_recorded`, `dialer._not_dialled` |
| `Pause`, `Resume`, `Cancel` | `campaign_repo`'s three, through `api/v1/campaigns.py` |
| `CallEnds`, `OptOut`, `ClaimAges`, `TimeComes`, `WindowOpens`, `WindowCloses`, `Crash` | callers, operator, clocks, failure |

Abstracted: which claimable target comes first, weights of an A/B test,
redaction, error texts, and every refusal of `place_outbound_call` but the
suppression list's, which become one. `_settle` reads and writes in one
READ COMMITTED transaction, so its reads and its writes are two steps; its
writes are one, since they become visible together at the commit.

### CallEnding

The row is `status`, `attached` (`media_attached_at`), `deferral`
(`post_call_deferred_at`, aged past the sweep's grace or not) and `started`
(`post_call_started_at`). `line`, `outcome` and `owed` are the phone and the
carrier's callbacks, which may be lost, repeated or reordered. `pipe`, `broke`,
`listening` and `held` are the pipeline, its control channel and the
conversation its process holds. `hand` is what each request read before it
writes, `sweeping` the sweeps between their look and their claim, and `begun`,
`asking`, `working` and `sent` count post-call runs until `call.ended` is
dispatched. `Place` is where a run is: the pipeline's process or another.

| Action | Code |
|---|---|
| `Arrives`, `WritesProgress`, `WritesEnding` | `twilio_handlers.status_callback`: the transition checked on the row it read, then the write |
| `Arrives`, `WritesHangup`, `AnswerFails` | `telnyx_handlers._on_hangup`, `_not_answered`, `_fail` |
| `EndApi`, `WritesEnding`, `StartsPostCall` | `call_control.end_call`, `start_or_defer_post_call` and its second transaction |
| `Attach`, `StreamDropped`, `BuildFails` | `media_stream.run_media_stream`, `attach_media`, `fail_unstarted_call` |
| `Opens`, `Runs`, `Said`, `Stops`, `PipelineFinalizes`, `FinalizeFails` | `CallSession.start`, `finalize_call` |
| `Transfers` | `call_control.transfer_call` |
| `SweepSees`, `SweepStarts`, `DeferralAges` | `sweep_deferred`, `run_sweep` |
| `GoesOn`, `AsksHolder`, `HolderAnswers`, `Sends`, `Forgets` | `_run_post_call`, `ask_holder`, `post_call_here`, `live_transcript.release` |
| `Answers`, `HangsUp`, `RingsOut`, `Lost`, `HolderDies`, `ReplicaDies` | the carrier, the caller, failure |

`DeferralAges` is guarded: a pipeline builds, opens its channel and finalizes
within the sweep's grace of 120 seconds. That is the assumption the code itself
makes (the comment on `SWEEP_GRACE_SECONDS`), and the only one about speed. A
run that raises before it dispatches is logged and lost, and a call whose agent
is gone gets no run: neither is modelled, both would only add ways to send
nothing.

### LiveCalls

`lease` is the project's sorted set without its expired members, `paced` the
window of the dialled number. `at` is how far each call has come, from its
admission (`admitted`, or `reserved` for a dial) through `dialling` and `waiting`
to `held` by a pipeline, and from there to `closing` and `over`; one is `ended`
when the carrier's callback freed its slot before a stream came, which it may
still do, and then takes the slot again. A call is `lost` once no code is left
that would free its slot: its pipeline's process died, or what follows its
admission raised (`NotRecorded`). `holder` is the process
that runs it and `proc` where that process is between serving and gone.

| Action | Code |
|---|---|
| `Admit`, `Reserve`, `ReserveRefused`, `LeaveWindow` | `admit_inbound_call`, `reserve_dial`, `release_dial`: the script `_ADMIT`, which admits when Redis is away |
| `Record`, `NotTaken`, `NotRecorded` | `open_inbound_call`, `webrtc_connect`, `_record_dial` and what each undoes when it fails |
| `HangUp`, `CarrierEnds`, `CallbackMissed`, `StreamDropped` | either party, the carriers' endings with their `release_live_call`, a callback that never comes |
| `Attach`, `Renew`, `PipelineEnds`, `Free` | `start_call_pipeline`, `hold_live_call` with its renewals through `claim_live_call` |
| `SigTerm`, `WaitForCalls`, `WaitForWork`, `SigTermAgain`, `Exit` | `install_sigterm_drain`, `drain`, `_post_call_work`, `_hand_back` |
| `PassDeadline`, `Lapse`, `Die` | the deadline of `live_call`, a lease's expiry, the operating system |

### EvalRuns

The rows are `status` and whether the run is `late` by the janitor's cutoff for
that status. `queue` is the Redis list, `push` where the API is with a run,
`task` where the worker is, `outcomes` what its iterations proved so far, and
`completed` what `eval.run.completed` said. `popping` is a worker in `BRPOP`
with a slot taken, `draining` one that was told to stop.

| Action | Code |
|---|---|
| `CreateRuns`, `Push`, `PushRaises`, `FailIfStillQueued`, `ApiDies`, `Cancel` | `create_eval_run`, `_record_runs`, `_queue_one`, `cancel_run` |
| `TakeSlot`, `Dequeue`, `DequeueNothing`, `DequeueLost`, `Stop`, `Restart`, `Crash` | `_consume`, `dequeue`, `run_worker` |
| `ReadRun`, `RecordUnrunnable`, `PlanRaises`, `StartRun`, `AnnounceStarted` | `execute_run`, `_plan_run`, `start_run`, `_dispatch_run_event` |
| `CheckCancelled`, `Iterate`, `FinishRun`, `AnnounceCompleted` | `run_iterations`, `_was_cancelled`, `run_iteration`, `_finish_run`, `derive_status` |
| `BecomesLate`, `ReclaimStalled`, `RedisLosesQueue` | the run's budget, `reclaim_stalled_runs`, Redis |

What an iteration proves (the simulated conversation and the judges) is any of
`pass`, `fail`, `error` and `refused`, an unmocked tool asked for.

### TextSessions

A session is named by the turn that opened it; `opened` orders them. A turn's
`found`, `on` and `replaces` are what it read and chose, `row` the two messages
it stores. `mark` is `metadata_json.redaction`, `claimed` the sessions under a
lease, `todo`, `sealing` and `texts` what a sweep has in memory.

Each message may be answered by another agent: `Listed` is the skills its agent
lists and that can be read, `Cap` its `max_loaded_skills`. `resolved` is the
session's `resolved_skills`, chosen by the first turn with skills; what a turn has
available are those its agent lists too. A reply that loaded something reads the
stored list through that (`Held`: what it has not available is dropped, and all but
the latest past its cap) and replays its loads onto it. A turn that cannot resolve
its skills runs without (`skips`).

| Action | Code |
|---|---|
| `Arrive`, `AskCallInit`, `Resolve`, `Store`, `Reply`, `Drop` | `handle_chat_message`, `resolve_text_agent`, `_resolve_or_create_session`, `_process_chat_message`, `admit_message`; `create_message` reopens the mark (`MarkReopened`), `session_skills` resolves and `persist_loads` merges the skills (`LoadSkills`, `Replay`) |
| `DeleteSession`, `ExpireStale`, `TtlPasses` | `delete_session`, `expire_stale_sessions`, `update_session_activity` |
| `ClaimPending`, `ReadRaw`, `Rewrite`, `ClearPending`, `Withhold`, `Leave` | `seal_ended_sessions`, `claim_pending_redaction`, `_seal`, `_release` |
| `ToggleRedaction`, `Lapse`, `Crash` | the project's setting, a lease's end, a replica that dies in its sweep |

### CallAgent

`path` and `finished` are the two parts of `ProcedureState`, `pending` the chain
of writes of `CallProcedures.record`, `told` the summary `call_procedures` makes
of the events stored. `agent` is whom the pipeline speaks as, `record` whom the
row names. `at` is where each handoff is between prepared, checked, committed
and switched, `inbox` and `serving` the control channel.

| Action | Code |
|---|---|
| `Move`, `Write`, `LoseWrite` | `run_move_to_step` with `move`, `_stayed`, `_start`; `store_call_event`, `call_procedures` |
| `LoadSkill` | `run_load_skill`, `prepare_load`, `apply_load` |
| `AskTool`, `Prepare`, `Check`, `Commit`, `CommitFails`, `Switch` | `_register_single_tool`, `_prepare_handoff`, `handoff_to_agent`, `_complete_handoff`, `apply_switch` with the adoption of skills and `leave_procedures` |
| `TransferSettles` | `run_escalation`, `_act` |
| `Ask`, `TimeOut`, `Listen`, `Acknowledge` | `handoff_call`, `request`, `_listen`, `answer`, `handoff_handler` |
| `BargeIn`, `RowEnds`, `PipelineEnds` | pipecat's interruption, the carrier or the API, `serve`'s end |

The moves of a step, its end and what it escalates to are constants, so the
theorems hold for every graph; the run has one that asks, checks, and resolves
or hands off, and one that verifies and pays or transfers.

### TelnyxTransfer

`job` is what each request and each webhook's handler does next, a step being
one command to Telnyx, one access to the intent or one transaction; `writer` is
who has the row's lock. `events` is a bag of webhooks Telnyx will send, in any
order. `step` is the `client_state` on an operator's leg, `stream` how far the
end of the media stream has come. `faults` is the bag of what went wrong so far,
and `givenUp` a history variable: the legs whose hangup was refused, or whose
briefing raised, after which the code does nothing more about them.

| Action | Code |
|---|---|
| `Check`, `Write`, `ParkIntent`, `StopStream`, `Tell`, `Commit` | `transfer_call`, `telnyx_transfer.start` |
| `Drop`, `Clear`, `LetGo`, `Release` | what each does when a command fails: hang up, forget the intent, leave the row |
| `Takes`, `CallerGone`, `CallerTold`, `Dial`, `Link` | `call_control_webhook`, `on_event`, `_on_caller_event`, `_ring_operator` |
| `Answered`, `Briefed`, `OperatorGone`, `Brief`, `BriefingRaises`, `Bridge`, `Free`, `Apologise` | `_on_operator_event`, `_answered`, `_bridge`, `_not_connected`, `_hang_up` |
| `Finalize`, `Judge`, `Close` | `finalize_call`, `_transferring`, `_hang_up` of the media edge |
| `PipelineEnds`, `OperatorAnswers`, `LegEnds`, `Expires` | the agent, the operator, either party, the intent's expiry |

Assumed: Redis can be read and written, the process does not die in a transfer,
the pipeline's finalize waits for the row's lock, and an intent does not expire
while the end of a stream is judged. Any command may be `refused`, a hangup by a
handler or by the media edge among them; a `lost answer` does a command and reports
a failure; a briefing that cannot be built (`raised`) is lost with its handler; an
`again` fault delivers a webhook twice.

## The runs

| Run | Instance | Question |
|---|---|---|
| `campaign_two_workers` | 2 workers, 1 target, 1 crash, 1 stall, a reason retried once and one not | do racing workers ever both dial, or dial after a ring unaccounted for, a pause or a cancel; is each event told once; is a final target final; is the licence kept |
| `campaign_one_worker` | 1 worker, 1 target with a window, 1 crash, 1 stall, 1 closing, fair | one call at a time, the policy's count, what a settled target reports, what a completed campaign leaves; is every ended call settled, does the campaign end as far as its calls' rows do |
| `campaign_cancelled_retry` | 1 worker, 1 target | is a cancelled campaign closed (it is not) |
| `campaign_stale_settle` | 2 workers, 1 target, no fault at all | one call at a time with two workers (it is not) |
| `call_ending` | 2 requests, all transports, redacting or not, 2 faults, fair | does the first ending stand, is there one run, does it wait for the last lines, does it implement `EndsOnce`; is a deferred call processed, is a call that was talked on heard of |
| `call_ending_webrtc` | a browser's call and the end API, no fault | does post-call processing wait for a browser's pipeline (it does not) |
| `call_ended_twice` | a redacting project, no fault | is call.ended sent once (it is not) |
| `live_calls` | 2 calls of any kind, a limit of 1, a rate of 1, 1 process, 1 fault, fair | is the limit kept, is a slot freed at once, whom does a drain cut off, does a drain end |
| `eval_runs` | 2 runs of 2 iterations, 1 slot, 1 fault, fair | one result per run, told as it is, on all its iterations; does it implement `EndsOnce`; what does a cancel cost; does every run end |
| `text_sessions` | 2 messages, answered by 2 agents that share 2 of 3 skills under caps of 2 and 3, 2 replicas, routed by webhook or by the API, 1 change of setting, 1 fault, fair | is raw text left under a rewritten session, is a live one rewritten, is a skill unloaded without cause, is every marked session rewritten |
| `call_agent` | 2 agents with a procedure each, 1 tool call, 1 request of the API, 4 moves or loads, 1 fault | does the summary say where procedures stand, does the record name who speaks, are answers true |
| `telnyx_transfer` | 2 requests (symmetric), 1 webhook handled at a time, 2 operator's legs (symmetric), 1 fault, a warm transfer with every speech and a cold one with none | who is left on a silent line, does a lone transfer ring two operators, does the edge hang up a caller being transferred |

The bounds, and why they are enough. Every race in a campaign is over one target
row or over the campaign row, so one target and two workers show it; a third
worker can only repeat what the second does, since the guards look at the row
and not at who holds it. The properties speak of each target by itself, and a
second target shares nothing with the first but the workers' time, so no passing
run has two; the liveness run has one worker, and a crash and a stall. One crash
and one stall leave room for the worst case known: a worker that stalls past its
claim, the janitor that gives the target away, and a second worker that dies or
goes on. The retry rule of two dials lets a target be dialled again, which
settling needs. `MaxTurn` closes a window once between a deferral and its
instant. For a call, two requests give two callbacks, or a callback and the end
API, against the pipeline and both sweeps; two faults give a process death with a
channel that never opened.

Two calls and a limit of one are the smallest instance where one call's slot can
cost another's admission; each of the faults (a command Redis does not do, a
lease not renewed in time, a late renewal, a process killed) is enough by itself
to break what it can break. Two eval runs and one slot make one wait for the other; two
iterations put a check between them. Two messages and two replicas race over one
session and over its replacement; one's agent lists a skill the other's does not,
and the list of skills is full after two loads for it and after three for the
other. Two handoffs are the overlap, and four moves or loads take one procedure to its end and
start the next. In `telnyx_transfer` two legs serve one dial for each request
and a dial repeated; a third dial is not explored. Its faults are counted, of
whatever kind, and the run has one: each of the exceptions of `NobodyLeft` needs
only that. None of these bounds appears in a theorem but as a constant, for every
value of which it is proved.

Deadlock is checked in the campaign runs and in `eval_runs`: a worker always has
a next pass, a loop a next pop. A call, a project's calls, a conversation or a
transfer that everyone has seen to is over, so the other runs say
`CHECK_DEADLOCK FALSE`.

Every property is one a change to the code can break: for each, a mutated
definition stands beside the original in its module, marked as a mutant, with
which TLC finds the property violated. No run checks `TypeOK`: a theorem states
it for every module.

### Fairness

`Campaign!Fairness`: a worker's loop takes its next step (`serve` runs passes
until stopped, and a restarted worker does the same); an instant comes, a window
opens, a claim nobody holds ages. Nothing is assumed of calls: a row ends by its
own pipeline, which keeps `max_call_duration_seconds` only while its process lives
(`orchestrator/call_session.py:588-619`), by the carrier's callback, which may be
lost (`webhooks/telnyx_handlers.py:326`), or by the end API. That the rows of a
campaign's calls do end is the hypothesis `RowsEnd` of `CampaignEnds`, in the
formula and not in the fairness. Claims get strong fairness, since the project's limits refuse while
other calls hold them and free again and again as those end. The operator, the
suppression list, crashes and stalls get none; `EndedCallSettles` asks that the
operator some day stops pausing and resuming, since one who never does can keep
every settling pass from its write.

`CallEnding!Fairness`: the event loop of a pipeline's process builds, runs and
finalizes it, its duration guard stops it, timers age a deferral and give up on
a holder, every replica's sweep comes round, and a post-call run goes on to its
end. Nothing is assumed of the phone line, of a carrier's callbacks, of the
API's clients, or of faults.

`LiveCalls!Fairness`: a call's deadline passes, and a process told to stop polls
what it waits for. Nothing of pipelines, one of which may hang, nor of leases.
`EvalRuns!Fairness`: a worker that lives works through a run, since each
iteration is bounded; runs become late; the janitor of some worker that lives
sweeps. `TextSessions!Fairness`: sweeps claim, read and let go, leases run out,
and the detector, asked for ever, answers some time (the only strong one).
`CallAgent` and `TelnyxTransfer` have no liveness property and no fairness.

## What the runs show

Holds, in the instances and (where listed below) for every instance: the first
ending of a call stands, whichever of the pipeline, the carrier and the API
brings it; one post-call run per call for projects that do not redact, and at
most two call.ended for those that do; a
deferred call is processed even if its pipeline's process dies; one worker at
the carrier per target; a ring nobody recorded is the last; final targets stay
final; a cancel or a pause that lands before `begin_placing` stops the dial; a
campaign does not run for ever, as far as the rows of its calls end, and tells
each of its events once; live calls exceed their limit only by what Redis failed
to do and by leases not renewed, or renewed late; a first SIGTERM cuts off
nobody before their deadline and the process exits; an eval run has one result,
a cancelled one none, and costs an iteration more at most; text sessions are
rewritten once they ended and only then, with all that was stored meanwhile;
of skills loaded by two messages at once neither is dropped for the other, as long
as both agents list them and there is room; the summary of a call
follows its procedures through moves and handoffs; the record names the agent
who speaks except in the windows named in `RecordIsPipeline`; a failed command of
a transfer leaves nobody on a silent line, but for a hangup refused and a briefing
that raised, and a lone transfer rings one operator.

Four statements of the documentation or of a docstring do not hold:

1. **A cancelled campaign leaves a target pending** (`campaign_cancelled_retry`).
   `docs/guides/campaigns.mdx:136` says every target not yet dialled is cancelled
   and placed calls finish normally. A call that was up at the cancel and ends
   in a way the policy retries sends its target back to `pending`, where
   nothing dials it or ends it.
2. **A settling pass can act on the wrong call** (`campaign_stale_settle`).
   `campaign_repo.py:3-6` says racing workers leave one winner. `retry_target`
   is guarded on `calling`, which the target's next call satisfies too: a
   worker that read the ending of the first call and writes during the second
   sends the target back, and it is dialled while it is being talked to.
3. **The end API does not wait for a browser's pipeline** (`call_ending_webrtc`).
   `call_analysis_trigger.py:14-18` says a call a pipeline runs is left to it.
   Only a carrier's media stream sets `media_attached_at`, so a browser's call
   is processed at once, its last lines perhaps missing.
4. **call.ended can be sent twice** (`call_ended_twice`). `call_repo.py:236-239`
   says once. For a redacting project, the holder of the conversation starts
   its run before it answers; an answer later than two seconds leaves both it
   and the asking process to send.

Met while modelling, in the models but without a run of their own (each is an
exemption of a property, so that the property says exactly what is left):

- two workers refused in turn by `begin_placing` can undo each other's claims
  for ever in lockstep (`campaigns/dialer.py:302`), so liveness is for one worker;
- a call that arrives while a drain waits for post-call work is not waited for
  (`services/drain.py:100`, against `docs/guides/graceful-shutdown.mdx:18`);
- `start_run`'s answer is not looked at, so a run cancelled while it is planned
  is announced as started (`evals/runner.py:542` against `:555`);
- two handoffs at once may commit in one order and switch in the other
  (`orchestrator/live_control.py:107`), a barge-in may fall between a handoff's
  commit and its switch, and an escalate step's handoff is not shielded from one
  as its transfer is (`orchestrator/procedure_escalation.py:84`); a handoff whose
  call has ended meanwhile writes nothing and succeeds (`services/call_control.py:469`);
- an unanswered dial whose terminal callback is lost, or a call whose process dies
  with its pipeline, keeps a live row: its target stays `calling` and its campaign
  `running` for ever (`webhooks/telnyx_handlers.py:326` ignores the hangup of a call
  that got further than ringing; `orchestrator/call_session.py:588-619`);
- a browser's call whose row cannot be written keeps its slot until the lease
  runs out (`api/v1/webrtc.py:244`), and so does an inbound call whose agent's
  lookup or whose commit raises (`services/inbound_call.py:142-231`), or a dial
  that rings and is not recorded;
- a message unloads, with room to spare, the skills of its session that its own
  agent does not list or could not read (`services/text_skills.py:201-214`),
  although the module's docstring (`:29-31`) says of two at once that neither's load
  is lost but to the cap;
- an operator who answers a Telnyx transfer and hangs up before the briefing's
  or the bridge's command still has the `client_state` of one who was rung, so
  the caller hears the fallback message instead of a hangup;
- a Telnyx request whose write finds the call ended parks its intent all the
  same: the edge may then leave the caller up while `stop_streaming`, which is
  outside the `try`, is refused, and nobody hangs up;
- a second transfer that fails clears the first one's intent
  (`services/call_control.py:367`), and a webhook delivered again dials a second
  operator (`services/telnyx_transfer.py:162`);
- a refused hangup is logged and not tried again (`services/telnyx_transfer.py:343-350`,
  `webhooks/telnyx_media_stream.py:94-95`), and an error while a briefing is built is
  outside its `try` (`services/telnyx_transfer.py:242-246`): the leg, or the operator
  and the caller, stay on a silent line until they hang up;
- two transfers that overlap share one intent: the later parks its own over the
  other's, whose message's end then dials the later's operator, whom the later
  dials again (`services/telnyx_transfer.py:200-208`).

## What is proved

Every invariant and every action property of the passing runs is stated by a
theorem, and so are the three refinements.

Assumptions: one named `ASSUME` per module (`CampaignAssumption`,
`CallEndingAssumption`, `LiveCallsAssumption`, `EvalRunsAssumption`,
`TextSessionsAssumption` and `SkillsAssumption`, `CallAgentAssumption`,
`TelnyxTransferAssumption`), which says what the constants are (`NoTarget` is no
target, `None` no request, leg, intent or step, bounds are naturals, transports
are among the three, an agent's cap is positive, what a text turn wants to load is
a sequence of skills).
They are evaluated by TLC in the runs. Nothing is assumed of how many workers,
targets, requests, messages or faults there are, but that the calls of
`LiveCalls` and the procedures of `CallAgent` are finitely many.

**CampaignProofs.** `TypeCorrect` comes first: `TypeOK` includes that a worker
has a target in hand exactly in the stages of a dial, and that a plan names a
real ending, which the other proofs rely on. The inductive invariant is
`CarrierInv`, of three parts:

- `OneAsker`, two workers are never at the carrier for one target, is not
  inductive: it needs to know that the target of a worker at the carrier cannot
  be claimed and placed again;
- `CarrierRow` says so: that target is `placing` or final, and neither can
  become `dialling`;
- `RingCounts` says that a phone rang once more than is on record only while
  its target is `placing` or final, and of which worker it is that owes the record.

Lemmas say what each kind of step does to a worker and to a row; the
preservation proof has one step per action. `OneAskerHolds` and
`UnknownNeverRedialledHolds` read off the invariant. `FinalIsFinalHolds`,
`CompletedIsClosedHolds`, `CancelStopsDialsHolds` and `RingsOnlyOnceLicensedHolds`
are proved from the moves a row can make. `EventsOnceHolds` has an invariant of
its own, `EventsInv`: an event not yet told is owed by the one worker, or
operator, that made the move, and the move cannot be made again; counting
tellings alone is not inductive. `CampaignImplementsDialLicence` maps
every step, target by target, to a step of `DialLicence` or none.

Three properties hold only where one worker serves the campaign, which the
theorems say as a hypothesis: they are about `OneWorker /\ Spec`, where
`OneWorker` says that any two workers are the same (`campaign_stale_settle`
shows why it cannot be dropped). Their invariant is `AloneInv`. Alone, a worker
at the carrier has its target still `placing` (`AskedWhilePlacing`), and the
endings a settling pass has read are still the last ones when it writes
(`PlanIsFresh`). So a target waits for a dial only once its last ring is over
(`UpIsLast`), and only while the policy has a dial left for it (`DialsLeft`):
`OneCallAtATimeHolds`, `DialsWithinPolicyHolds` and `SettledAsEndedHolds`.

**CallEndingProofs.** `CallInv` adds to `TypeOK` and the properties:
`StartsOfCompleted` (a request about to start post-call processing ended the
call as completed itself), `UnansweredDial` (why Telnyx's unguarded write of an
unanswered dial cannot undo another ending: nothing else ends such a call, so
`EndingStands` rests on it), `RunsCounted` (no run before the claim), and
`TwilioMedia` (how the row, the pipeline's stage and the sweeps hang together on
Twilio, for `LastLinesFirstTwilio`). Each part has its lemma; `CallAgrees` joins
them; `PostCallOfEndedHolds`, `OneRunHolds`, `LastLinesFirstTwilioHolds`,
`UnansweredIsSilentHolds` and `EndingStandsHolds` follow.

`CallImplementsEndsOnce` maps a call to a thing of `EndsOnce`: settled when
`claim_post_call` wins, and owing `Tellings`, what the runs under way may still
send. For a redacting project a run begun on another replica counts two, since
it may ask the holder for one and send itself. `SentWithinPromise` proves the
abstract specification's own invariant `Bounded` of the mapping, so call.ended
goes out only for a call that has ended, was answered and was claimed, once, or
twice at most for a redacting project. `call_ended_twice` shows that the second
happens; no third ever does.

**LiveCallsProofs.** `DrainCutsNobodyHolds` needs `Drained` (a process that has
waited for its calls has only such as are past their deadline or came after),
`OrderlyIsFreeHolds` needs `Freed` (a call not admitted yet holds no slot).
`LiveWithinLimitHolds` is an argument of counting, `Bounded`: of the calls that
are live or about to be (`Holding`), those without a slot (`Unbacked`) are at
most the faults so far, and all of them at most the limit and the faults, since
each was admitted with room; the library's theorems on cardinality add up. A call
whose slot the carrier freed before its stream came holds nothing and is not live,
since either party had hung up (`EndedInv`).

**EvalRunsProofs.** `RunsInv` ties each run's row to its worker: what is written
and not yet announced is an ending and not a cancellation (`WrittenStands`), a
verdict stands on whole outcomes and a loop stops for one of three reasons
(`Judged`), the event sent says what the row says (`Told`), and an iteration on a
cancelled row is the first or one a failed check let through (`Wasted`). A lemma
shows that a step leaves the runs it is not about alone; the rest is per run.

`EvalRunsImplementEndsOnce` maps each run to a thing whose ending and settling
are one UPDATE, and which is owed an event while its worker is between that
UPDATE and the dispatch; a cancellation is an ending nobody is told of. The
janitor may end several runs at once, for which `EndsOnce` lets each thing make
a step of its own. `ToldWithinPromise` proves `Bounded`, from `Untold`: a run
that is written but not told has told nothing before.

**TextSessionsProofs.** `SealInv`: a turn that has stored nothing has no rows and
has opened no session (`TurnsInv`), a mark and a sweep are on an ended session
(`SweepsInv`), what is rewritten was on an ended session and what is marked
rewritten has nothing raw (`RowsInv`), and no session ends unmarked while the
project redacts all along (`MarkedInv`). `SealedHasNoRaw` alone is not inductive,
since a sweep and a late reply cross.

`TypesInv` is the invariant for the rest: the other variables' types, and
`LoadedTypes`, that a session has loaded only skills it resolved, none twice, and
no more than some agent's cap. A reply reads the stored list name by name (`Reads`)
and replays its loads one by one (`Replays`), both functions of how many were done,
so that and `UnloadedForCauseHolds` go by induction on that number: read, a list
keeps what the turn has available, in its order and under its cap; replayed, it
loses a skill only by being full. The library's induction theorems take an operator
the provers cannot instantiate; those of `Induction` take the set of the numbers for
which the claim holds.

**CallAgentProofs.** `HandoffInv`: the requests in the control channel are each
there once and not begun (`Queued`), two handoffs are under way at once only if
one began under the other (`Alone`), and a committed handoff is what the record
says (`Recorded`).

`AgentInv` is `TypeOK`, `ToAgent` (a handoff on its way to a switch is to an
agent) and `ToldInOrder`: the summary says where a procedure stands, or the last
of its events that is not stored yet will, and events are stored in their order.
`SummaryTells`, which speaks only of a procedure all of whose events are stored,
is read off it (`SummaryTellsHolds`), and is not inductive.

**TelnyxTransferProofs.** `EdgeInv`: who has the row is in its transaction, and
every request past its write has it unless it found the call ended (`RowHeld`);
the pipeline's end is not written while the row is held, and the edge looks only
after it (`EndWaits`); nobody else clears a lone request's intent (`IntentKept`).
So the edge finds the intent: `EdgeLeavesTransferHolds`.

`NobodyLeftHolds` rests on `LeftInv`, that whoever is alone on a line is
somebody's next business or was given up on (`givenUp`), in three parts. `Minded`:
an operator who is up and not bridged is about to be seen to, by a handler or by a
webhook still to come.
`GoneDooms`: once an operator has left, somebody is about to hang the caller up.
`Carried`: an intent that no request works on any more has become a dialled leg,
the end of a message to wait for, or a hangup. Each is up to a leg whose hangup was
refused, or whose briefing raised. `OperatorRungOnceHolds` counts:
by `RungInv`, unless a webhook came again, the operators rung, the dials
ahead and the messages whose end will lead to one (`Paid`) are together no more
than the requests that asked, so with one request there is one operator at most.
Each step that adds to one of these takes from another.

**Model-checked only.** Liveness (`CampaignEnds`, `EndedCallSettles`,
`DeferredIsProcessed`, `TalkedIsHeard`, `DrainEnds`, `EveryRunEnds`,
`PendingIsSealed`): the prover has no reasoning for fairness and ENABLED.

## What is not modelled

Asterisk's and WhatsApp's endings of a call, Twilio's callbacks of a transfer
(a whisper, a result, machine detection), recording, the content of post-call
runs and of webhooks, delivery of events, and the components marked so in
`PROJECT.json`, each with its reason: pure I/O, transformations of text or audio,
rows created and read with no interleaving of interest, or code whose control
lies in pipecat. Within the modelled parts: the order of two skill loads'
events, the delay of a dial between its number's one-second window and the
carrier's request, a text turn that asks call-init for one session and ends on
another's (its agent is data here), and carriers' callbacks that arrive before a
call's row is committed, which the code ignores.

The map names a small share of the repository's lines: most of them are request
schemas, ORM models, CRUD, adapters, prompts and provider wiring, where there is
no state to interleave.

## Plan

Done: the modules above and their proofs. Next, in this order:

1. `CallEnding`: Asterisk as a fourth transport (its abandoned calls are written
   by an unguarded update), WhatsApp as a fifth.
2. Twilio's transfer: the TwiML, the whisper and the result callback beside
   `TelnyxTransfer`.
3. Webhook delivery with its retries and its loss on a crash, as the consumer of
   the events the modules announce.
