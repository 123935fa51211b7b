------------------------------ MODULE CallAgent ------------------------------
(***************************************************************************)
(* The agent a live call runs: its place in its procedures                 *)
(* (domain/procedure_state.py, orchestrator/procedures.py), its skills     *)
(* (orchestrator/skill_loader.py), and the handoffs that replace it        *)
(* (orchestrator/tool_bridge.py) - the model's, an escalate step's and the *)
(* API's, which reaches the call over its control channel                  *)
(* (services/live_call_channel.py).                                        *)
(*                                                                         *)
(* A step is what the call's event loop does without waiting, or one       *)
(* database transaction.  The caller talking over the agent cancels the    *)
(* tools of the model that are waiting; nothing else of the call stops.    *)
(* The steps of different procedures have different names here.            *)
(***************************************************************************)
EXTENDS Naturals, Sequences, FiniteSets, SequencesExt

CONSTANTS
  Agent, First,    \* the project's agents; the one the call starts as
  Procedure,       \* their procedures
  Owner,           \* the agent of a procedure
  OnCall,          \* the procedures of start "call"; the others are "on_request"
  Step, NoStep,    \* their steps; no step
  StartStep,       \* the start step of a procedure
  Moves,           \* the moves of a step
  Ends,            \* the steps of kind "end"
  Escalates,       \* what an "escalate" step does: an agent to hand off to, or Transfer
  Transfer,
  Skill,           \* the skills of the agents
  Available,       \* those of an agent
  Cap,             \* max_loaded_skills
  ToolCall,        \* tool calls of the model that hand off or escalate
  Request,         \* handoffs asked for through the API
  NoRequest,
  MaxMove,         \* bound: moves and skill loads of the model
  MaxFault         \* bound: barge-ins, lost writes, commits whose answer is lost

Handoff  == ToolCall \cup Request
Escalate == DOMAIN Escalates
Ending   == Ends \cup Escalate

ASSUME CallAgentAssumption ==
  /\ First \in Agent /\ Transfer \notin Agent
  /\ IsFiniteSet(Procedure) /\ Owner \in [Procedure -> Agent] /\ OnCall \subseteq Procedure
  /\ NoStep \notin Step /\ StartStep \in [Procedure -> Step]
  /\ Moves \in [Step -> SUBSET Step]
  /\ Ends \subseteq Step /\ Escalate \subseteq Step /\ Ends \cap Escalate = {}
  /\ \A s \in Escalate : Escalates[s] \in Agent \cup {Transfer}
  /\ Available \in [Agent -> SUBSET Skill] /\ Cap \in Nat \ {0}
  /\ ToolCall \cap Request = {} /\ NoRequest \notin Handoff
  /\ MaxMove \in Nat /\ MaxFault \in Nat

VARIABLES
  agent,     \* the agent whose prompt and tools the pipeline has
  skills,    \* CallSkills: whose they are, and those loaded
  path,      \* ProcedureState.runs: the steps each came by, none when not running
  finished,  \* ProcedureState.finished
  pending,   \* the events made and not stored yet, in the order made
  told,      \* the summary's ended_at of each procedure, from the events stored
  lost,      \* the procedures an event of which could not be stored
  row,       \* calls.status
  record,    \* calls.active_agent_id
  up,        \* whether the pipeline runs, and its control channel
  at,        \* where each handoff is
  to,        \* the agent it is to, or Transfer
  inbox,     \* the requests published and not taken up
  serving,   \* the one being answered
  answer,    \* what the API answered to each request
  overlap,   \* whether a handoff began while another was under way
  made, faults

call      == <<row, record, up>>
procedures == <<path, finished, pending>>
log       == <<told, lost>>
handoffs  == <<at, to, overlap>>
channel   == <<inbox, serving, answer>>
bounds    == <<made, faults>>
vars      == <<agent, skills, procedures, log, call, handoffs, channel, bounds>>

Stage  == {"idle", "asked", "preparing", "prepared", "checked", "committed", "switched",
           "transferring", "refused", "cut"}
Answer == {"none", "waiting", "ok", "refused", "not_live", "timeout"}
Event  == [type : {"step", "left"}, procedure : Procedure, step : Step]

\* The steps a procedure's path may run through: its moves, a step at a time.
Route(p, r) ==
  r # <<>> => /\ r[1] = StartStep[p]
              /\ \A i \in 1..(Len(r) - 1) : r[i + 1] \in Moves[r[i]]

TypeOK ==
  /\ agent \in Agent /\ record \in Agent
  /\ skills \in [of : {agent}, loaded : Seq(Available[agent])] /\ Len(skills.loaded) <= Cap
  /\ path \in [Procedure -> Seq(Step)] /\ finished \in [Procedure -> Seq(Step)]
  /\ \A p \in Procedure :
       /\ Route(p, path[p]) /\ Route(p, finished[p])
       /\ Owner[p] # agent => path[p] = <<>> /\ finished[p] = <<>>
  /\ pending \in Seq(Event) /\ told \in [Procedure -> Step \cup {NoStep}]
  /\ lost \subseteq Procedure
  /\ row \in {"in_progress", "ended"} /\ up \in BOOLEAN
  /\ at \in [Handoff -> Stage] /\ to \in [Handoff -> Agent \cup {Transfer}]
  /\ inbox \in Seq(Request) /\ serving \in Request \cup {NoRequest}
  /\ answer \in [Request -> Answer] /\ overlap \in BOOLEAN
  /\ made \in Nat /\ faults \in Nat

-----------------------------------------------------------------------------
(* Procedures                                                              *)

\* ProcedureState.at_call_start of agent a, its running and its finished procedures.
StartsOf(a) == {p \in OnCall : Owner[p] = a}
RunsOf(a) == [p \in Procedure |->
  IF p \in StartsOf(a) /\ StartStep[p] \notin Ending THEN <<StartStep[p]>> ELSE <<>>]
FinishedOf(a) == [p \in Procedure |->
  IF p \in StartsOf(a) /\ StartStep[p] \in Ending THEN <<StartStep[p]>> ELSE <<>>]

Reached(p, s) == [type |-> "step", procedure |-> p, step |-> s]
Left(p)       == [type |-> "left", procedure |-> p, step |-> Last(path[p])]

\* _record_starts.
StartEvents(a) == SetToSeq({Reached(p, StartStep[p]) : p \in StartsOf(a)})
\* leave_procedures: each procedure running ends where it stands.
LeftEvents == SetToSeq({Left(p) : p \in {q \in Procedure : path[q] # <<>>}})

Init ==
  /\ agent = First /\ record = First /\ row = "in_progress" /\ up = TRUE
  /\ skills = [of |-> First, loaded |-> <<>>]
  /\ path = RunsOf(First) /\ finished = FinishedOf(First)
  /\ pending = StartEvents(First)
  /\ told = [p \in Procedure |-> NoStep] /\ lost = {}
  /\ at = [h \in Handoff |-> "idle"] /\ to = [h \in Handoff |-> First]
  /\ inbox = <<>> /\ serving = NoRequest
  /\ answer = [q \in Request |-> "none"] /\ overlap = FALSE
  /\ made = 0 /\ faults = 0

Back(p) == IF Len(path[p]) > 1 THEN path[p][Len(path[p]) - 1] ELSE NoStep

\* move, of a running procedure: to the step before, or on by one of the step's moves.
Walk(p, s) == IF s = Back(p) THEN Front(path[p]) ELSE Append(path[p], s)

\* move: which one is accepted.  A move to the current step stays, the others are refused;
\* neither changes anything but the count of refusals in the summary.
Allowed(p, s) ==
  /\ finished[p] = <<>>
  /\ IF path[p] # <<>>
     THEN s # Last(path[p]) /\ (s = Back(p) \/ s \in Moves[Last(path[p])])
     ELSE p \notin OnCall /\ s = StartStep[p]

\* ProcedureState._placed: the procedure where it now stands.
Placed(p, r) ==
  IF Last(r) \in Ending
  THEN path' = [path EXCEPT ![p] = <<>>] /\ finished' = [finished EXCEPT ![p] = r]
  ELSE path' = [path EXCEPT ![p] = r] /\ finished' = finished

UnderWay(h) == at[h] \in {"preparing", "prepared", "checked", "committed"}

\* Handoff h to x begins.
Begin(h, x) ==
  /\ at' = [at EXCEPT ![h] = IF x = Transfer THEN "transferring" ELSE "preparing"]
  /\ to' = [to EXCEPT ![h] = x]
  /\ overlap' = (overlap \/ (\E g \in Handoff \ {h} : UnderWay(g)))

\* run_move: the move, its event, and the action of the escalate step it reached.
Move(p, s) ==
  /\ up /\ made < MaxMove /\ Owner[p] = agent /\ Allowed(p, s)
  /\ Placed(p, IF path[p] = <<>> THEN <<s>> ELSE Walk(p, s))
  /\ pending' = Append(pending, Reached(p, s))
  /\ IF s \in Escalate
     THEN \E h \in ToolCall : at[h] = "idle" /\ Begin(h, Escalates[s])
     ELSE UNCHANGED handoffs
  /\ made' = made + 1
  /\ UNCHANGED <<agent, skills, log, call, channel, faults>>

\* Mutant: a write does not wait for the one before it.
AnyWrite == DOMAIN pending

\* CallProcedures.record: a write waits for the one before it.
NextWrite == {1} \cap DOMAIN pending

\* store_call_event, and what call_procedures makes of the events stored.
Write(i) ==
  /\ i \in NextWrite
  /\ LET e == pending[i]
         opens == told[e.procedure] = NoStep
     IN told' = [told EXCEPT ![e.procedure] =
                   IF e.type = "step" \/ opens THEN e.step ELSE @]
  /\ pending' = RemoveAt(pending, i)
  /\ UNCHANGED <<agent, skills, path, finished, lost, call, handoffs, channel, bounds>>

\* store_call_event is best-effort.
LoseWrite(i) ==
  /\ i \in NextWrite /\ faults < MaxFault
  /\ lost' = lost \cup {pending[i].procedure}
  /\ pending' = RemoveAt(pending, i)
  /\ faults' = faults + 1
  /\ UNCHANGED <<agent, skills, path, finished, told, call, handoffs, channel, made>>

\* run_load_skill: past the cap, the skill loaded longest ago makes room (after_load).
LoadSkill(k) ==
  /\ up /\ made < MaxMove
  /\ k \in Available[skills.of] /\ ~Contains(skills.loaded, k)
  /\ LET more == Append(skills.loaded, k)
     IN skills' = [skills EXCEPT !.loaded = IF Len(more) > Cap THEN Tail(more) ELSE more]
  /\ made' = made + 1
  /\ UNCHANGED <<agent, procedures, log, call, handoffs, channel, faults>>

-----------------------------------------------------------------------------
(* A handoff: prepare, commit, apply                                       *)

\* The model calls handoff_to_agent.
AskTool(h, a) ==
  /\ up /\ h \in ToolCall /\ at[h] = "idle"
  /\ Begin(h, a)
  /\ UNCHANGED <<agent, skills, procedures, log, call, channel, bounds>>

Becomes(h, stage) == at' = [at EXCEPT ![h] = stage] /\ UNCHANGED <<to, overlap>>

\* _prepare_handoff: the target read and its frames built, or not.
Prepare(h) ==
  /\ at[h] = "preparing"
  /\ Becomes(h, "prepared") \/ Becomes(h, "refused")
  /\ UNCHANGED <<agent, skills, procedures, log, call, channel, bounds>>

\* handoff_to_agent: the call read, before the wait on the detector; or an error there.
Check(h) ==
  /\ at[h] = "prepared"
  /\ \/ row = "in_progress" /\ Becomes(h, "checked")
     \/ Becomes(h, "refused")
  /\ UNCHANGED <<agent, skills, procedures, log, call, channel, bounds>>

\* Its writes, committed: an ended call's row is left as it is, and the handoff goes on.
Commit(h) ==
  /\ at[h] = "checked"
  /\ Becomes(h, "committed")
  /\ record' = IF row = "in_progress" THEN to[h] ELSE record
  /\ UNCHANGED <<agent, skills, procedures, log, row, up, channel, bounds>>

\* The commit fails, or its answer is lost: the handler raises.
CommitFails(h) ==
  /\ at[h] = "checked" /\ faults < MaxFault
  /\ Becomes(h, "cut")
  /\ record' \in {record, IF row = "in_progress" THEN to[h] ELSE record}
  /\ faults' = faults + 1
  /\ UNCHANGED <<agent, skills, procedures, log, row, up, channel, made>>

\* Mutant: a handoff is applied as soon as it is prepared.
Prepared(h) == at[h] \in {"prepared", "checked", "committed"}

\* _complete_handoff: whether the switch was committed.
Committed(h) == at[h] = "committed"

\* _apply_handoff_context, which nothing cuts in two: the prompt and the tools, the skills
\* (adopt) and the procedures (leave_procedures) of the target for those of the agent.
Switch(h) ==
  /\ Committed(h)
  /\ Becomes(h, "switched")
  /\ agent' = to[h]
  /\ skills' = [of |-> to[h], loaded |-> <<>>]
  /\ path' = RunsOf(to[h]) /\ finished' = FinishedOf(to[h])
  /\ pending' = pending \o LeftEvents \o StartEvents(to[h])
  /\ UNCHANGED <<log, call, channel, bounds>>

\* An escalate step's transfer_call, which is shielded: the carrier takes the call away, or
\* it is refused.
TransferSettles(h) ==
  /\ at[h] = "transferring"
  /\ \/ Becomes(h, "switched") /\ row' = "ended"
     \/ Becomes(h, "refused") /\ row' = row
  /\ UNCHANGED <<agent, skills, procedures, log, record, up, channel, bounds>>

\* The caller talks over the agent: the model's tools that wait are cancelled.
BargeIn ==
  /\ faults < MaxFault /\ \E h \in ToolCall : UnderWay(h)
  /\ at' = [h \in Handoff |-> IF h \in ToolCall /\ UnderWay(h) THEN "cut" ELSE at[h]]
  /\ faults' = faults + 1
  /\ UNCHANGED <<agent, skills, procedures, log, call, to, overlap, channel, made>>

-----------------------------------------------------------------------------
(* The control channel                                                     *)

\* request_handoff: published to whoever runs the call.
Ask(q, a) ==
  /\ answer[q] = "none" /\ a \in Agent
  /\ to' = [to EXCEPT ![q] = a]
  /\ IF up
     THEN /\ answer' = [answer EXCEPT ![q] = "waiting"]
          /\ at' = [at EXCEPT ![q] = "asked"]
          /\ inbox' = Append(inbox, q)
     ELSE answer' = [answer EXCEPT ![q] = "not_live"] /\ UNCHANGED <<at, inbox>>
  /\ UNCHANGED <<agent, skills, procedures, log, call, overlap, serving, bounds>>

\* ACK_TIMEOUT_SECONDS have passed.
TimeOut(q) ==
  /\ answer[q] = "waiting"
  /\ answer' = [answer EXCEPT ![q] = "timeout"]
  /\ UNCHANGED <<agent, skills, procedures, log, call, handoffs, inbox, serving, bounds>>

\* _listen: one request at a time, in the order they arrived.
Listen ==
  /\ up /\ serving = NoRequest /\ inbox # <<>>
  /\ serving' = Head(inbox) /\ inbox' = Tail(inbox)
  /\ Begin(Head(inbox), to[Head(inbox)])
  /\ UNCHANGED <<agent, skills, procedures, log, call, answer, bounds>>

\* Mutant: the call answers once the record has moved.
AppliedOnRecord(q) == at[q] \in {"committed", "switched"}

\* handoff_handler: a handoff that made no switch is refused.
Applied(q) == at[q] = "switched"

\* answer: the outcome is pushed, and read if the API still waits for it.
Acknowledge ==
  /\ up /\ serving # NoRequest
  /\ Applied(serving) \/ at[serving] \in {"refused", "cut"}
  /\ serving' = NoRequest
  /\ answer' = [answer EXCEPT ![serving] =
                  IF @ # "waiting" THEN @ ELSE IF Applied(serving) THEN "ok" ELSE "refused"]
  /\ UNCHANGED <<agent, skills, procedures, log, call, handoffs, inbox, bounds>>

-----------------------------------------------------------------------------
(* The end of the call                                                     *)

\* The carrier, the API or a tool ends the call's row.
RowEnds ==
  /\ row = "in_progress" /\ row' = "ended"
  /\ UNCHANGED <<agent, skills, procedures, log, record, up, handoffs, channel, bounds>>

\* The pipeline ends: the tools that wait and the listener are cancelled.
PipelineEnds ==
  /\ up /\ up' = FALSE
  /\ at' = [h \in Handoff |-> IF UnderWay(h) \/ at[h] = "asked" THEN "cut" ELSE at[h]]
  /\ inbox' = <<>> /\ serving' = NoRequest
  /\ UNCHANGED <<agent, skills, procedures, log, row, record, to, overlap, answer, bounds>>

Next ==
  \/ \E p \in Procedure, s \in Step : Move(p, s)
  \/ \E i \in DOMAIN pending : Write(i) \/ LoseWrite(i)
  \/ \E k \in Skill : LoadSkill(k)
  \/ \E h \in ToolCall, a \in Agent : AskTool(h, a)
  \/ \E h \in Handoff : \/ Prepare(h) \/ Check(h) \/ Commit(h) \/ CommitFails(h)
                        \/ Switch(h) \/ TransferSettles(h)
  \/ \E q \in Request : TimeOut(q) \/ \E a \in Agent : Ask(q, a)
  \/ BargeIn \/ Listen \/ Acknowledge \/ RowEnds \/ PipelineEnds

Spec == Init /\ [][Next]_vars

-----------------------------------------------------------------------------
(* Properties                                                              *)

Written(p) == p \notin lost /\ \A i \in DOMAIN pending : pending[i].procedure # p

\* The call's `procedures` summary, read from the events stored, says of every procedure
\* of its agent where it stands or ended, however fast the moves and handoffs that made
\* the events came (CallProcedures.record chains the writes).
SummaryTells ==
  \A p \in Procedure : Written(p) =>
    /\ path[p] # <<>> => told[p] = Last(path[p])
    /\ finished[p] # <<>> => told[p] = Last(finished[p])

\* While the call is in progress the record names the agent the pipeline runs, but for a
\* handoff between its commit and its switch, unless one was cut there or two overlapped.
RecordIsPipeline ==
  \/ agent = record \/ row = "ended" \/ faults > 0 \/ overlap
  \/ \E h \in Handoff : at[h] = "committed"
  \/ ~up

\* An answer the API gave is true of the call: applied, it switched; refused, it did not
\* and never will, though the answer and the switch cross a wire and a time-out.
AnswerIsTrue ==
  \A q \in Request : /\ answer[q] = "ok" => at[q] = "switched"
                     /\ answer[q] = "refused" => at[q] \in {"refused", "cut"}
                     /\ answer[q] = "not_live" => at[q] = "idle"
=============================================================================
