----------------------------- MODULE TextSessions -----------------------------
(***************************************************************************)
(* Text conversations: the messages of one customer to one project, by     *)
(* SMS, WhatsApp or the Chat API, answered at once by the replicas that    *)
(* got them; the sessions they open, continue and outlive; and the sweep   *)
(* of every replica, which expires sessions and rewrites an ended one's    *)
(* rows redacted (services/sms_chat.py, services/text_agent.py,            *)
(* services/text_skills.py, services/text_redaction.py).                   *)
(*                                                                         *)
(* A turn is one inbound message until its reply is stored.  A session is  *)
(* named by the turn that opened it.  A step is one database transaction,  *)
(* or the time between two: what a turn or a sweep read is in its own      *)
(* variables until it writes.                                              *)
(***************************************************************************)
EXTENDS Naturals, Sequences, FiniteSets, SequencesExt

CONSTANTS
  Turn,        \* inbound messages
  Replica,     \* API processes, each with its sweep
  NoSession,   \* no session
  Routing,     \* how the customer reaches the project, of {"agent", "webhook", "api"}
  Redacting,   \* whether the project redacts when the customer first writes: a set of BOOLEAN
  Skill,       \* skills of the project
  Listed,      \* the skills of the agent that answers a turn, those that can be read
  Cap,         \* its max_loaded_skills
  Wants,       \* what a turn's model may ask to load: a set of lists of skills
  MaxToggle,   \* bound: changes of the project's redaction setting
  MaxFault     \* bound: sweeps that die, leases that run out under a live sweep, and
               \* turns that could not resolve their skills

ASSUME TextSessionsAssumption ==
  /\ NoSession \notin Turn
  /\ Routing \subseteq {"agent", "webhook", "api"}
  /\ Redacting \subseteq BOOLEAN
  /\ MaxToggle \in Nat /\ MaxFault \in Nat

ASSUME SkillsAssumption ==
  /\ Listed \in [Turn -> SUBSET Skill]
  /\ Cap \in [Turn -> Nat \ {0}]
  /\ Wants \in [Turn -> SUBSET Seq(Skill)]

VARIABLES
  routing,     \* how this customer's messages are answered
  redacting,   \* projects.redaction_enabled
  opened,      \* the sessions, by created_at
  status,      \* sms_sessions.status
  stale,       \* the sessions whose expires_at has passed
  mark,        \* metadata_json.redaction of a session
  claimed,     \* the sessions whose redaction_claimed_until is still to come
  resolved,    \* metadata_json.resolved_skills: {} until a turn with skills is answered
  loaded,      \* metadata_json.loaded_skills
  row,         \* the stored message of each turn and role: "absent", "raw", "done"
  at,          \* where each turn is
  found,       \* the session a turn was given, or found before it asked call-init
  on,          \* the session a turn is on
  replaces,    \* the stale session a turn expires as it opens its own
  todo,        \* the sessions a sweep has claimed and not finished with
  sealing,     \* the session it is having redacted
  texts,       \* the rows whose raw text the detector was given
  toggles, crashes, lapses, skips

policy   == <<routing, redacting, toggles>>
skills   == <<resolved, loaded, skips>>
sessions == <<opened, status, stale, mark, claimed, skills>>
turns    == <<at, found, on, replaces>>
sweeps   == <<todo, sealing, texts, crashes, lapses>>
vars     == <<policy, sessions, row, turns, sweeps>>

Role     == {"customer", "assistant"}
Message  == Turn \X Role
MaybeSession == Turn \cup {NoSession}
Stage    == {"waiting", "found", "resolved", "stored", "answered", "dropped"}

PolicyTypes  == /\ routing \in Routing /\ redacting \in BOOLEAN /\ toggles \in Nat
SessionTypes == /\ opened \in Seq(Turn)
                /\ status \in [Turn -> {"none", "active", "expired"}]
                /\ mark \in [Turn -> {"none", "pending", "done"}]
                /\ stale \subseteq Turn /\ claimed \subseteq Turn
                /\ resolved \in [Turn -> SUBSET Skill] /\ skips \in Nat
                /\ loaded \in [Turn -> Seq(Skill)]
                /\ \A s \in Turn : /\ loaded[s] \in Seq(resolved[s]) /\ IsInjective(loaded[s])
                                   /\ \E t \in Turn : Len(loaded[s]) <= Cap[t]
RowTypes     == row \in [Message -> {"absent", "raw", "done"}]
TurnTypes    == /\ at \in [Turn -> Stage]
                /\ found \in [Turn -> MaybeSession] /\ on \in [Turn -> MaybeSession]
                /\ replaces \in [Turn -> MaybeSession]
SweepTypes   == /\ todo \in [Replica -> SUBSET Turn]
                /\ sealing \in [Replica -> MaybeSession]
                /\ texts \in [Replica -> SUBSET Message]
                /\ crashes \in Nat /\ lapses \in Nat

TypeOK == PolicyTypes /\ SessionTypes /\ RowTypes /\ TurnTypes /\ SweepTypes

Init ==
  /\ routing \in Routing /\ redacting \in Redacting /\ toggles = 0
  /\ opened = <<>> /\ stale = {} /\ claimed = {}
  /\ status = [s \in Turn |-> "none"] /\ mark = [s \in Turn |-> "none"]
  /\ resolved = [s \in Turn |-> {}] /\ loaded = [s \in Turn |-> <<>>]
  /\ skips = 0
  /\ row = [m \in Message |-> "absent"]
  /\ at = [t \in Turn |-> "waiting"]
  /\ found = [t \in Turn |-> NoSession] /\ on = [t \in Turn |-> NoSession]
  /\ replaces = [t \in Turn |-> NoSession]
  /\ todo = [r \in Replica |-> {}]
  /\ sealing = [r \in Replica |-> NoSession] /\ texts = [r \in Replica |-> {}]
  /\ crashes = 0 /\ lapses = 0

-----------------------------------------------------------------------------
(* The rows                                                                *)

Fresh(s) == status[s] = "active" /\ s \notin stale

\* get_active_session: of the pair's active sessions, the one created last.
ActiveSession ==
  LET active == {i \in DOMAIN opened : status[opened[i]] = "active"}
  IN IF active = {} THEN NoSession ELSE opened[Max(active)]

\* Mutant: a session ended before its TTL is not marked.
EndedMarkStale(s) == IF redacting /\ s \in stale THEN "pending" ELSE mark[s]

\* _ended_metadata: a session that ends while its project redacts is marked.
EndedMark(s) == IF redacting THEN "pending" ELSE mark[s]

\* expire_session and expire_stale_sessions: end those of ss that are active.
Expire(ss) ==
  LET ends == {s \in ss : status[s] = "active"}
  IN /\ status' = [s \in Turn |-> IF s \in ends THEN "expired" ELSE status[s]]
     /\ mark' = [s \in Turn |-> IF s \in ends THEN EndedMark(s) ELSE mark[s]]

\* Mutant: a message stored on a rewritten session leaves it so.
MarkLeft(k) == k

\* create_message, on the session's mark k: a rewritten session is to be rewritten again.
MarkReopened(k) == IF k = "done" THEN "pending" ELSE k

RowsOf(s) == {m \in Message : on[m[1]] = s /\ row[m] # "absent"}
RawRows(s) == {m \in RowsOf(s) : row[m] = "raw"}

Faults == crashes + lapses + skips

\* session_skills: the skills a session resolved, by the first of the turns stored on it
\* to ask.
Resolutions(s) ==
  IF resolved[s] # {} THEN {resolved[s]}
  ELSE {Listed[q] : q \in {q \in Turn : /\ on[q] = s
                                        /\ at[q] \in {"stored", "answered", "dropped"}}}

\* The last cap of a list.
Latest(list, cap) ==
  SubSeq(list, IF Len(list) > cap THEN Len(list) - cap + 1 ELSE 1, Len(list))

\* A skill joins a list at its end, or stays where it is.
Joined(list, k) == IF Contains(list, k) THEN list ELSE Append(list, k)

\* after_load: past the cap the skills loaded longest ago go.
AfterLoad(list, k, cap) == Latest(Joined(list, k), cap)

\* _held, its loop: what is read of a stored list, name by name.
Reads(list, available) ==
  LET read[n \in 0..Len(list)] ==
        IF n = 0 THEN <<>>
        ELSE IF list[n] \in available THEN Joined(read[n - 1], list[n]) ELSE read[n - 1]
  IN read

\* _held: of a stored list, the skills the reader has available, the latest cap of them.
Held(list, available, cap) == Latest(Reads(list, available)[Len(list)], cap)

\* persist_loads, its loop: the list after each of the turn's loads.
Replays(held, loads, cap) ==
  LET after[n \in 0..Len(loads)] ==
        IF n = 0 THEN held ELSE AfterLoad(after[n - 1], loads[n], cap)
  IN after

\* Mutant: the turn's whole list replaces the stored one.
ReplayOnNothing(list, loads, available, cap) == IF loads = <<>> THEN list ELSE loads

\* persist_loads: the turn's loads replayed onto the stored list, as the turn reads it; a
\* turn that loaded nothing leaves it.
Replay(list, loads, available, cap) ==
  IF loads = <<>> THEN list
  ELSE Replays(Held(list, available, cap), loads, cap)[Len(loads)]

-----------------------------------------------------------------------------
(* A turn                                                                  *)

\* handle_chat_message, which may name a session; resolve_text_agent on a number routed
\* to an agent, which reads none.
Arrive(t) ==
  /\ at[t] = "waiting" /\ routing # "webhook"
  /\ \E s \in (IF routing = "api" THEN ToSet(opened) ELSE {}) \cup {NoSession} :
       found' = [found EXCEPT ![t] = s]
  /\ at' = [at EXCEPT ![t] = "found"]
  /\ UNCHANGED <<policy, sessions, row, on, replaces, sweeps>>

\* resolve_text_agent on a number routed to call-init: the live session's agent, else
\* call-init is asked for the session this message would open.
AskCallInit(t) ==
  /\ at[t] = "waiting" /\ routing = "webhook"
  /\ LET s == ActiveSession
         live == s # NoSession /\ s \notin stale
     IN found' = [found EXCEPT ![t] = IF live THEN s ELSE NoSession]
  /\ at' = [at EXCEPT ![t] = "found"]
  /\ UNCHANGED <<policy, sessions, row, on, replaces, sweeps>>

\* _resolve_or_create_session: the session given if it is live, else the number pair's
\* (the Chat API's customer has no number), else a new one in place of a stale one.
Resolve(t) ==
  /\ at[t] = "found"
  /\ LET given  == found[t] # NoSession /\ Fresh(found[t])
         paired == IF routing = "api" THEN NoSession ELSE ActiveSession
         live   == paired # NoSession /\ paired \notin stale
     IN /\ on' = [on EXCEPT ![t] = IF given THEN found[t] ELSE IF live THEN paired ELSE t]
        /\ replaces' = [replaces EXCEPT ![t] = IF given \/ live THEN NoSession ELSE paired]
  /\ at' = [at EXCEPT ![t] = "resolved"]
  /\ UNCHANGED <<policy, sessions, row, found, sweeps>>

\* The rest of the inbound side's transaction: the stale session ends, the new one is
\* created, the customer's message is stored.
Store(t) ==
  /\ at[t] = "resolved"
  /\ LET s    == on[t]
         ends == {e \in {replaces[t]} \cap Turn : status[e] = "active"}
     IN /\ status' = [e \in Turn |-> IF e \in ends THEN "expired"
                                     ELSE IF e = t /\ s = t THEN "active" ELSE status[e]]
        /\ mark' = [e \in Turn |-> IF e \in ends THEN EndedMark(e)
                                   ELSE IF e = s THEN MarkReopened(mark[e]) ELSE mark[e]]
        /\ opened' = IF s = t THEN Append(opened, t) ELSE opened
  /\ row' = [row EXCEPT ![<<t, "customer">>] = "raw"]
  /\ at' = [at EXCEPT ![t] = "stored"]
  /\ found' = [found EXCEPT ![t] = NoSession]
  /\ replaces' = [replaces EXCEPT ![t] = NoSession]
  /\ UNCHANGED <<policy, stale, claimed, skills, on, sweeps>>

\* What the turn resolved, and loaded of what its model asked for; or its skills could not
\* be resolved, and it runs without.
LoadSkills(t, s) ==
  \/ \E known \in Resolutions(s), asked \in Wants[t] :
       LET available == Listed[t] \cap known
           loads     == Reads(asked, available)[Len(asked)]
       IN /\ resolved' = [resolved EXCEPT ![s] = known]
          /\ loaded' = [loaded EXCEPT ![s] = Replay(@, loads, available, Cap[t])]
          /\ skips' = skips
  \/ Faults < MaxFault /\ skips' = skips + 1 /\ UNCHANGED <<resolved, loaded>>

\* The reply's transaction: what the turn loaded, the reply, the session's activity.
Reply(t) ==
  /\ at[t] = "stored"
  /\ LoadSkills(t, on[t])
  /\ mark' = [mark EXCEPT ![on[t]] = MarkReopened(@)]
  /\ stale' = stale \ {on[t]}
  /\ row' = [row EXCEPT ![<<t, "assistant">>] = "raw"]
  /\ at' = [at EXCEPT ![t] = "answered"]
  /\ UNCHANGED <<policy, opened, status, claimed, found, on, replaces, sweeps>>

\* Call-init names no agent, the session is at its messages a minute, the model fails,
\* or the process dies: what is not committed is rolled back.
Drop(t) ==
  /\ at[t] \in {"found", "resolved", "stored"}
  /\ at' = [at EXCEPT ![t] = "dropped"]
  /\ found' = [found EXCEPT ![t] = NoSession]
  /\ replaces' = [replaces EXCEPT ![t] = NoSession]
  /\ on' = IF at[t] = "stored" THEN on ELSE [on EXCEPT ![t] = NoSession]
  /\ UNCHANGED <<policy, sessions, row, sweeps>>

-----------------------------------------------------------------------------
(* The operator, and time                                                  *)

\* delete_session.
DeleteSession(s) ==
  /\ status[s] = "active"
  /\ Expire({s})
  /\ UNCHANGED <<policy, opened, stale, claimed, skills, row, turns, sweeps>>

ToggleRedaction ==
  /\ toggles < MaxToggle
  /\ toggles' = toggles + 1
  /\ redacting' = ~redacting
  /\ UNCHANGED <<routing, sessions, row, turns, sweeps>>

\* A day passes with no reply.
TtlPasses(s) ==
  /\ Fresh(s)
  /\ stale' = stale \cup {s}
  /\ UNCHANGED <<policy, opened, status, mark, claimed, skills, row, turns, sweeps>>

-----------------------------------------------------------------------------
(* The sweep of a replica                                                  *)

\* _cleanup_expired_sessions: expire_stale_sessions, of any replica.
ExpireStale ==
  /\ Expire(stale)
  /\ UNCHANGED <<policy, opened, stale, claimed, skills, row, turns, sweeps>>

\* Mutant: every session not rewritten yet is taken, live ones too.
Unsealed(s) == status[s] # "none" /\ mark[s] # "done" /\ s \notin claimed

\* claim_pending_redaction's predicate.
Claimable(s) == status[s] = "expired" /\ mark[s] = "pending" /\ s \notin claimed

\* claim_pending_redaction: up to REWRITE_LIMIT of them, more than there are here.
ClaimPending(r) ==
  LET mine == {s \in Turn : Claimable(s)}
  IN /\ todo[r] = {} /\ mine # {}
     /\ claimed' = claimed \cup mine
     /\ todo' = [todo EXCEPT ![r] = mine]
     /\ UNCHANGED <<policy, opened, status, stale, mark, skills, row, turns, sealing,
                    texts, crashes, lapses>>

\* The sweep of r is through with the sessions ss of those it claimed.
Leave(r, ss) ==
  /\ todo' = [todo EXCEPT ![r] = @ \ ss]
  /\ sealing' = [sealing EXCEPT ![r] = NoSession]
  /\ texts' = [texts EXCEPT ![r] = {}]

\* _seal, its first transaction: the rows to redact.
ReadRaw(r, s) ==
  /\ sealing[r] = NoSession /\ s \in todo[r]
  /\ redacting
  /\ sealing' = [sealing EXCEPT ![r] = s]
  /\ texts' = [texts EXCEPT ![r] = RawRows(s)]
  /\ UNCHANGED <<policy, sessions, row, turns, todo, crashes, lapses>>

\* _seal, of a project that stopped redacting: clear_pending_redaction.
ClearPending(r, s) ==
  /\ sealing[r] = NoSession /\ s \in todo[r]
  /\ ~redacting
  /\ mark' = [mark EXCEPT ![s] = "none"]
  /\ claimed' = claimed \ {s}
  /\ Leave(r, {s})
  /\ UNCHANGED <<policy, opened, status, stale, skills, row, turns, crashes, lapses>>

\* Mutant: every row of the session counts as stored since.
AllLate(s, read) == RowsOf(s)

\* _seal: the rows still raw once those read are rewritten.
Late(s, read) == RawRows(s) \ read

\* _seal, its second transaction, the session's row locked throughout.
Rewrite(r) ==
  /\ sealing[r] # NoSession
  /\ LET s == sealing[r]
     IN /\ row' = [m \in Message |-> IF m \in texts[r] THEN "done" ELSE row[m]]
        /\ mark' = [mark EXCEPT ![s] = IF Late(s, texts[r]) # {} THEN "pending" ELSE "done"]
        /\ claimed' = claimed \ {s}
        /\ Leave(r, {s})
  /\ UNCHANGED <<policy, opened, status, stale, skills, turns, crashes, lapses>>

\* The detector does not answer, or the rewrite fails: the pass ends, and what it had
\* claimed is given back (release_redaction_claims), whoever holds it by now.
Withhold(r) ==
  /\ sealing[r] # NoSession
  /\ claimed' = claimed \ todo[r]
  /\ Leave(r, todo[r])
  /\ UNCHANGED <<policy, opened, status, stale, mark, skills, row, turns, crashes, lapses>>

\* The process dies in its pass; its claims stay.
Crash(r) ==
  /\ Faults < MaxFault /\ todo[r] # {}
  /\ crashes' = crashes + 1
  /\ Leave(r, todo[r])
  /\ UNCHANGED <<policy, sessions, row, turns, lapses>>

Holders(s) == {r \in Replica : s \in todo[r]}

\* REWRITE_LEASE runs out: of a sweep that died, or of one slower than its lease.
Lapse(s) ==
  /\ s \in claimed
  /\ \/ Holders(s) = {} /\ lapses' = lapses
     \/ Holders(s) # {} /\ Faults < MaxFault /\ lapses' = lapses + 1
  /\ claimed' = claimed \ {s}
  /\ UNCHANGED <<policy, opened, status, stale, mark, skills, row, turns, todo, sealing,
                 texts, crashes>>

-----------------------------------------------------------------------------
TurnNext(t) == Arrive(t) \/ AskCallInit(t) \/ Resolve(t) \/ Store(t)
                 \/ Reply(t) \/ Drop(t)
SweepNext(r) == \/ ClaimPending(r) \/ Rewrite(r) \/ Withhold(r) \/ Crash(r)
                \/ \E s \in Turn : ReadRaw(r, s) \/ ClearPending(r, s)
TimeNext == \E s \in Turn : DeleteSession(s) \/ TtlPasses(s) \/ Lapse(s)

Next == \/ \E t \in Turn : TurnNext(t)
        \/ \E r \in Replica : SweepNext(r)
        \/ ExpireStale \/ TimeNext \/ ToggleRedaction

Spec == Init /\ [][Next]_vars

\* A sweep runs every quarter of an hour and works through what it claimed; a dead one's
\* lease runs out; a detector asked for ever answers some time.
Fairness ==
  /\ \A r \in Replica :
       /\ WF_vars(ClaimPending(r)) /\ SF_vars(Rewrite(r))
       /\ WF_vars(\E s \in Turn : ReadRaw(r, s) \/ ClearPending(r, s))
  /\ \A s \in Turn : WF_vars(Lapse(s))

FairSpec == Spec /\ Fairness

-----------------------------------------------------------------------------
(* Properties                                                              *)

\* A session marked rewritten holds no raw row, whatever turn stored a reply on it while,
\* before or after the sweep rewrote it (create_message and _seal on one row's lock).
SealedHasNoRaw == \A s \in Turn : mark[s] = "done" => RawRows(s) = {}

\* While a project redacts all along, every way its sessions end (TTL, DELETE, replaced)
\* and every late reply leaves an ended session with a raw row marked for the sweep.
EndedRawIsMarked ==
  redacting /\ toggles = 0 =>
    \A s \in Turn : status[s] = "expired" /\ RawRows(s) # {} => mark[s] = "pending"

\* The model reads its session's rows back: none of a live session is rewritten, however
\* long a sweep's list of sessions is behind.
LiveIsRaw == \A s \in Turn : status[s] = "active" => RawRows(s) = RowsOf(s)

\* A skill is unloaded only by a reply, of a message whose own agent does not list it (or
\* could not read it), or that left the list full: of two messages at once, neither drops
\* what the other loaded (persist_loads merges under the session's row lock).
UnloadedForCause ==
  [][\A s \in Turn : \A k \in ToSet(loaded[s]) \ ToSet(loaded'[s]) :
       \E t \in Turn : /\ on[t] = s /\ at[t] = "stored" /\ at'[t] = "answered"
                       /\ k \notin Listed[t] \/ Len(loaded'[s]) = Cap[t]]_vars

\* A session marked for its rewrite is rewritten or, the project no longer redacting, let
\* go: a sweep that dies, a lease that runs out and a detector that is down only delay it.
PendingIsSealed == \A s \in Turn : mark[s] = "pending" ~> mark[s] # "pending"
=============================================================================
