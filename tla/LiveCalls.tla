------------------------------ MODULE LiveCalls ------------------------------
(***************************************************************************)
(* The live calls of one project: the slot each takes in Redis when it is  *)
(* admitted, a lease its pipeline renews and every orderly ending frees    *)
(* (services/limits.py and the transports that call it), and the processes *)
(* that run them, which a SIGTERM tells to wait for their calls before     *)
(* they exit (services/drain.py).                                          *)
(*                                                                         *)
(* A step is one Redis command or one move of a call or a process.  A call *)
(* is `lost` once no code is left that would free its slot.                *)
(***************************************************************************)
EXTENDS Naturals, FiniteSets

CONSTANTS
  Call, Process,
  NoProcess,  \* of a call no process runs
  Kind,       \* how calls come in: a subset of {"inbound", "outbound", "browser"}
  Limit,      \* live_calls; 0 for none
  Rate,       \* outbound_calls_per_second of their number; 0 for none
  MaxFault    \* bound: Redis commands that fail, processes killed, leases not renewed in time

ASSUME LiveCallsAssumption ==
  /\ IsFiniteSet(Call) /\ NoProcess \notin Process
  /\ Kind \subseteq {"inbound", "outbound", "browser"}
  /\ Limit \in Nat /\ Rate \in Nat /\ MaxFault \in Nat

VARIABLES
  kind,     \* how each call comes in
  at,       \* where it is
  hungup,   \* the calls whose caller, or callee, has hung up
  lease,    \* the members of the project's live-call set that have not expired
  paced,    \* the members of the number's one-second window
  proc,     \* where each process is in its life
  holder,   \* the process a call runs on
  overdue,  \* the calls past the deadline live_call gave them
  late,     \* the calls a process took once its drain had waited for calls
  forced,   \* the processes that did not wait: killed, or told twice
  faults

calls == <<kind, at, hungup>>
redis == <<lease, paced>>
procs == <<proc, holder, overdue, late, forced>>
vars  == <<calls, redis, procs, faults>>

\* A call is "ended" when its carrier has freed its slot before its stream came.
Stage == {"new", "admitted", "reserved", "dialling", "waiting", "ended", "held", "closing",
          "over", "refused", "lost"}

TypeOK ==
  /\ kind \in [Call -> Kind] /\ at \in [Call -> Stage] /\ hungup \subseteq Call
  /\ lease \subseteq Call /\ paced \subseteq Call
  /\ proc \in [Process -> {"serving", "draining", "finishing", "gone"}]
  /\ holder \in [Call -> Process \cup {NoProcess}]
  /\ overdue \subseteq Call /\ late \subseteq Call /\ forced \subseteq Process
  /\ faults \in Nat

Init ==
  /\ kind \in [Call -> Kind] /\ at = [c \in Call |-> "new"] /\ hungup = {}
  /\ lease = {} /\ paced = {}
  /\ proc = [p \in Process |-> "serving"] /\ holder = [c \in Call |-> NoProcess]
  /\ overdue = {} /\ late = {} /\ forced = {} /\ faults = 0

Goes(c, stage) == at' = [at EXCEPT ![c] = stage]

Fault == faults < MaxFault /\ faults' = faults + 1

-----------------------------------------------------------------------------
(* The slots                                                               *)

\* Mutant: the set may grow past the limit by one.
RoomForOneMore(c) == Limit = 0 \/ c \in lease \/ Cardinality(lease) <= Limit

\* _ADMIT's test: a member already in the set is never counted twice.
Room(c) == Limit = 0 \/ c \in lease \/ Cardinality(lease) < Limit

\* release_live_call, which never raises: it may free nothing if Redis is away, or if a
\* renewal cancelled on its way arrives after it.
Release(c) == \/ lease' = lease \ {c} /\ faults' = faults
              \/ lease' = lease /\ Fault

\* admit_inbound_call, admit_live_call, and reserve_dial's first half.  Redis away admits.
Admit(c) ==
  /\ at[c] = "new"
  /\ \/ /\ lease' = IF Room(c) THEN lease \cup {c} ELSE lease
        /\ Goes(c, IF ~Room(c) THEN "refused"
                   ELSE IF kind[c] = "outbound" THEN "reserved" ELSE "admitted")
        /\ faults' = faults
     \/ /\ Fault
        /\ Goes(c, IF kind[c] = "outbound" THEN "reserved" ELSE "admitted")
        /\ lease' = lease
  /\ UNCHANGED <<kind, hungup, paced, procs>>

PacedIn(c) == Rate = 0 \/ c \in paced \/ Cardinality(paced) < Rate

\* reserve_dial's second half, within the second's rate.
Reserve(c) ==
  /\ at[c] = "reserved"
  /\ PacedIn(c)
  /\ paced' = paced \cup {c}
  /\ Goes(c, "dialling")
  /\ UNCHANGED <<kind, hungup, lease, procs, faults>>

\* A dial the second refuses gives its slot back.
ReserveRefused(c) ==
  /\ at[c] = "reserved"
  /\ ~PacedIn(c)
  /\ Release(c)
  /\ Goes(c, "refused")
  /\ UNCHANGED <<kind, hungup, paced, procs>>

\* An entry of the window expires, or release_dial takes it out.
LeaveWindow(c) ==
  /\ c \in paced
  /\ paced' = paced \ {c}
  /\ UNCHANGED <<calls, lease, procs, faults>>

-----------------------------------------------------------------------------
(* A call before its pipeline                                              *)

Opening(c) == at[c] = "dialling" \/ (at[c] = "admitted" /\ kind[c] = "inbound")
Connecting(c) == at[c] = "admitted" /\ kind[c] = "browser"

\* open_inbound_call and place_outbound_call: the call row is committed.
Record(c) ==
  /\ Opening(c)
  /\ Goes(c, "waiting")
  /\ UNCHANGED <<kind, hungup, redis, procs, faults>>

\* No agent or no row for an inbound call, a dial the carrier refuses: the slot goes back.
NotTaken(c) ==
  /\ Opening(c)
  /\ Release(c)
  /\ Goes(c, "refused")
  /\ UNCHANGED <<kind, hungup, paced, procs>>

\* What follows the admission raises, and nothing frees the slot: a dial that rings and
\* whose row is not written, a browser's call whose row is not, an inbound call whose
\* agent could not be looked up or whose row was rolled back with its events.
NotRecorded(c) ==
  /\ Opening(c) \/ Connecting(c)
  /\ Goes(c, "lost")
  /\ UNCHANGED <<kind, hungup, redis, procs, faults>>

HangUp(c) ==
  /\ at[c] \in {"admitted", "waiting", "held"} /\ c \notin hungup
  /\ hungup' = hungup \cup {c}
  /\ UNCHANGED <<kind, at, redis, procs, faults>>

\* Twilio's terminal status, Telnyx's hangup, Asterisk's StasisEnd: the slot is freed
\* whether or not a pipeline holds it.
CarrierEnds(c) ==
  /\ at[c] \in {"waiting", "held"} /\ c \in hungup /\ kind[c] # "browser"
  /\ Release(c)
  /\ Goes(c, IF at[c] = "waiting" THEN "ended" ELSE at[c])
  /\ UNCHANGED <<kind, hungup, paced, procs>>

\* The caller left before the call's row was there to be found by that callback.
CallbackMissed(c) ==
  /\ at[c] = "waiting" /\ c \in hungup
  /\ Goes(c, "lost")
  /\ UNCHANGED <<kind, hungup, redis, procs, faults>>

\* run_media_stream, of a call with no agent's configuration left.
StreamDropped(c) ==
  /\ at[c] \in {"waiting", "ended"}
  /\ Release(c)
  /\ Goes(c, "over")
  /\ UNCHANGED <<kind, hungup, paced, procs>>

-----------------------------------------------------------------------------
(* A call in its pipeline                                                  *)

\* run_media_stream and start_call_pipeline: drain.live_call, then hold_live_call, also of
\* a call that was hung up, and of one whose slot was freed, which takes it again.
Attach(c, p) ==
  /\ at[c] \in {"waiting", "ended"} \/ Connecting(c)
  /\ proc[p] # "gone"
  /\ holder' = [holder EXCEPT ![c] = p]
  /\ late' = IF proc[p] = "finishing" THEN late \cup {c} ELSE late
  /\ Goes(c, "held")
  /\ UNCHANGED <<kind, hungup, redis, proc, overdue, forced, faults>>

\* Mutant: the renewal outlives the block.
RenewsOn(c) == at[c] \in {"held", "closing", "over"} /\ holder[c] # NoProcess

\* hold_live_call renews while the block runs, whatever the limit.
Renews(c) == at[c] = "held"

Renew(c) ==
  /\ Renews(c) /\ c \notin lease
  /\ lease' = lease \cup {c}
  /\ UNCHANGED <<calls, paced, procs, faults>>

\* The pipeline has finished: the renewal is cancelled,
PipelineEnds(c) ==
  /\ at[c] = "held"
  /\ Goes(c, "closing")
  /\ UNCHANGED <<kind, hungup, redis, procs, faults>>

\* and the slot freed.
Free(c) ==
  /\ at[c] = "closing"
  /\ Release(c)
  /\ Goes(c, "over")
  /\ UNCHANGED <<kind, hungup, paced, procs>>

\* The duration guard's time, and the slack, are over.
PassDeadline(c) ==
  /\ at[c] \in {"held", "closing"} /\ c \notin overdue
  /\ overdue' = overdue \cup {c}
  /\ UNCHANGED <<calls, redis, proc, holder, late, forced, faults>>

\* Two minutes without a renewal: of a slot nobody frees any more, of a phone that rings
\* too long, of a pipeline whose process stalls.
Lapse(c) ==
  /\ c \in lease
  /\ \/ at[c] \in {"ended", "over", "refused", "lost"} /\ faults' = faults
     \/ at[c] \notin {"ended", "over", "refused", "lost"} /\ Fault
  /\ lease' = lease \ {c}
  /\ UNCHANGED <<calls, paced, procs>>

-----------------------------------------------------------------------------
(* A process                                                               *)

OnProcess(p) == {c \in Call : holder[c] = p /\ at[c] \in {"held", "closing"}}

\* The process of p is gone: its calls are cut off and their slots left to lapse.
Exit(p) ==
  /\ proc' = [proc EXCEPT ![p] = "gone"]
  /\ at' = [c \in Call |-> IF c \in OnProcess(p) THEN "lost" ELSE at[c]]

\* The first SIGTERM: readiness fails, the drain starts.
SigTerm(p) ==
  /\ proc[p] = "serving"
  /\ proc' = [proc EXCEPT ![p] = "draining"]
  /\ UNCHANGED <<calls, redis, holder, overdue, late, forced, faults>>

\* Mutant: the drain gives up at the first deadline that passes.
SomeDeadline(p) == OnProcess(p) = {} \/ OnProcess(p) \cap overdue # {}

\* Mutant: it waits for every call, however long.
NoDeadline(p) == OnProcess(p) = {}

\* drain's first loop ends with no call live, or at the last of their deadlines.
CallsWaitedFor(p) == OnProcess(p) \subseteq overdue

WaitForCalls(p) ==
  /\ proc[p] = "draining" /\ CallsWaitedFor(p)
  /\ proc' = [proc EXCEPT ![p] = "finishing"]
  /\ UNCHANGED <<calls, redis, holder, overdue, late, forced, faults>>

\* drain's second loop ends with no post-call work left, or after its minute of grace.
WaitForWork(p) ==
  /\ proc[p] = "finishing"
  /\ Exit(p)
  /\ UNCHANGED <<kind, hungup, redis, holder, overdue, late, forced, faults>>

\* A second SIGTERM hands over at once.
SigTermAgain(p) ==
  /\ proc[p] \in {"draining", "finishing"}
  /\ Exit(p)
  /\ forced' = forced \cup {p}
  /\ UNCHANGED <<kind, hungup, redis, holder, overdue, late, faults>>

Die(p) ==
  /\ proc[p] # "gone"
  /\ Exit(p)
  /\ forced' = forced \cup {p}
  /\ Fault
  /\ UNCHANGED <<kind, hungup, redis, holder, overdue, late>>

-----------------------------------------------------------------------------
CallNext(c) ==
  \/ Admit(c) \/ Reserve(c) \/ ReserveRefused(c) \/ LeaveWindow(c)
  \/ Record(c) \/ NotTaken(c) \/ NotRecorded(c)
  \/ HangUp(c) \/ CarrierEnds(c) \/ CallbackMissed(c) \/ StreamDropped(c)
  \/ \E p \in Process : Attach(c, p)
  \/ Renew(c) \/ PipelineEnds(c) \/ Free(c) \/ PassDeadline(c) \/ Lapse(c)

ProcessNext(p) ==
  SigTerm(p) \/ WaitForCalls(p) \/ WaitForWork(p) \/ SigTermAgain(p) \/ Die(p)

Next == (\E c \in Call : CallNext(c)) \/ (\E p \in Process : ProcessNext(p))

Spec == Init /\ [][Next]_vars

\* Time passes; a process that is told to stop polls what it waits for.  Nothing is
\* assumed of pipelines: one may hang.
Fairness ==
  /\ \A c \in Call : WF_vars(PassDeadline(c))
  /\ \A p \in Process : WF_vars(WaitForCalls(p)) /\ WF_vars(WaitForWork(p))

FairSpec == Spec /\ Fairness

-----------------------------------------------------------------------------
(* Properties                                                              *)

Live(c) == at[c] \in {"admitted", "dialling", "waiting", "held"} /\ c \notin hungup

\* The project is never over its live-call limit, but by one call for each command Redis
\* did not do and each lease that ran out under its call: whatever carriers' callbacks,
\* pipelines and renewals free and take again.
LiveWithinLimit ==
  Limit > 0 => Cardinality({c \in Call : Live(c)}) <= Limit + faults

\* An ending that runs code frees the slot at once, and a refusal takes none, however the
\* carrier's release, the renewals and the pipeline's own release fall.
OrderlyIsFree ==
  faults = 0 => \A c \in Call : at[c] \in {"ended", "over", "refused"} => c \notin lease

Cut == {c \in Call : at[c] = "lost" /\ holder[c] # NoProcess}

\* A first SIGTERM cuts off no call before its own deadline, if the drain was still
\* waiting for calls when it began.
DrainCutsNobody ==
  \A c \in Cut : holder[c] \in forced \/ c \in overdue \cup late

\* A drain ends although a pipeline hangs, whatever calls come in while it waits.
DrainEnds == \A p \in Process : proc[p] = "draining" ~> proc[p] = "gone"
=============================================================================
