---------------------------- MODULE CallAgentProofs ----------------------------
(***************************************************************************)
(* What CallAgent guarantees for every set of agents, procedures, tool     *)
(* calls and requests: what the API is told of a handoff is true of it,    *)
(* the record follows the pipeline, every variable has its type, and the   *)
(* summary says where every procedure stands.                              *)
(*                                                                         *)
(* The last rests on the order of the events: once one of a procedure is   *)
(* on its way, those of it that follow all say where it stands.            *)
(***************************************************************************)
EXTENDS CallAgent, FiniteSetTheorems, SequenceTheorems, TLAPS

USE CallAgentAssumption
USE DEF Handoff, procedures, log, call, handoffs, channel, bounds

\* The part of the types these arguments need.
HandoffTypes ==
  /\ row \in {"in_progress", "ended"} /\ up \in BOOLEAN /\ overlap \in BOOLEAN /\ faults \in Nat
  /\ at \in [Handoff -> Stage] /\ to \in [Handoff -> Agent \cup {Transfer}]
  /\ inbox \in Seq(Request) /\ serving \in Request \cup {NoRequest}
  /\ answer \in [Request -> Answer]

\* What is in the inbox is asked for, once; what nobody asked for has not begun.
Queued ==
  /\ \A i \in DOMAIN inbox : at[inbox[i]] = "asked"
  /\ \A i, j \in DOMAIN inbox : inbox[i] = inbox[j] => i = j
  /\ \A q \in Request : answer[q] = "none" => at[q] = "idle"

\* Two handoffs are under way at once only if one began under the other.
Alone == \A g, h \in Handoff : UnderWay(g) /\ UnderWay(h) => g = h \/ overlap

\* A committed handoff is what the record says.
Recorded ==
  \A h \in Handoff : at[h] = "committed" =>
    record = to[h] \/ row = "ended" \/ faults > 0 \/ overlap \/ ~up

HandoffInv == HandoffTypes /\ Queued /\ AnswerIsTrue /\ Alone /\ Recorded /\ RecordIsPipeline

\* What a step may leave alone of it.
Untouched == UNCHANGED <<agent, row, record, up, at, to, overlap, inbox, serving, answer>>

LEMMA UntouchedKeeps ==
  ASSUME HandoffInv, Untouched, faults' \in Nat, faults' >= faults
  PROVE  HandoffInv'
BY DEF HandoffInv, Untouched, HandoffTypes, Queued, AnswerIsTrue, Alone, UnderWay, Recorded,
   RecordIsPipeline

\* A handoff h that begins: it was idle, or asked for and out of the inbox.
LEMMA BeginKeeps ==
  ASSUME HandoffInv, NEW h \in Handoff, NEW x \in Agent \cup {Transfer}, Begin(h, x),
         at[h] \in {"idle", "asked"}, UNCHANGED <<agent, row, record, up, answer, faults>>,
         inbox' \in Seq(Request), serving' \in Request \cup {NoRequest},
         h \in Request => answer[h] # "none" /\ answer[h] # "not_live",
         \A i \in DOMAIN inbox' : at[inbox'[i]] = "asked" /\ inbox'[i] # h,
         \A i, j \in DOMAIN inbox' : inbox'[i] = inbox'[j] => i = j
  PROVE  HandoffInv'
<1> DEFINE s == IF x = Transfer THEN "transferring" ELSE "preparing"
<1>1. /\ at' = [at EXCEPT ![h] = s] /\ s \in {"transferring", "preparing"}
      /\ to' = [to EXCEPT ![h] = x]
      /\ overlap' = (overlap \/ (\E g \in Handoff \ {h} : UnderWay(g)))
  BY DEF Begin, HandoffInv, HandoffTypes
<1> HIDE DEF s
<1>2. HandoffTypes'
  <2>1. at' \in [Handoff -> Stage]
    BY <1>1 DEF HandoffInv, HandoffTypes, Stage
  <2>2. to' \in [Handoff -> Agent \cup {Transfer}] /\ overlap' \in BOOLEAN
    BY <1>1 DEF HandoffInv, HandoffTypes
  <2> QED
    BY <2>1, <2>2 DEF HandoffInv, HandoffTypes
<1>3. Queued'
  BY <1>1 DEF HandoffInv, HandoffTypes, Queued
<1>4. AnswerIsTrue'
  BY <1>1 DEF HandoffInv, HandoffTypes, AnswerIsTrue
<1>5. Alone'
  BY <1>1 DEF HandoffInv, HandoffTypes, Alone, UnderWay
<1>6. Recorded'
  BY <1>1 DEF HandoffInv, HandoffTypes, Recorded
<1>7. RecordIsPipeline'
  BY <1>1 DEF HandoffInv, HandoffTypes, RecordIsPipeline
<1> QED
  BY <1>2, <1>3, <1>4, <1>5, <1>6, <1>7 DEF HandoffInv

\* A handoff h that goes from one stage to another which is neither committed nor switched.
LEMMA BecomesKeeps ==
  ASSUME HandoffInv, NEW h \in Handoff, NEW s \in Stage, Becomes(h, s),
         UnderWay(h) \/ at[h] = "transferring", at[h] # "committed",
         s \in {"prepared", "checked", "refused", "switched"},
         UnderWay(h) \/ s \in {"refused", "switched"}, 
         UNCHANGED <<agent, record, up, inbox, serving, answer, faults>>,
         row' = row \/ row' = "ended"
  PROVE  HandoffInv'
<1>1. /\ at' = [at EXCEPT ![h] = s] /\ to' = to /\ overlap' = overlap
      /\ at[h] \in {"preparing", "prepared", "checked", "transferring"}
  BY DEF Becomes, UnderWay
<1>2. HandoffTypes'
  BY <1>1 DEF HandoffInv, HandoffTypes
<1>3. Queued' /\ AnswerIsTrue'
  BY <1>1 DEF HandoffInv, HandoffTypes, Queued, AnswerIsTrue
<1>4. Alone'
  BY <1>1 DEF HandoffInv, HandoffTypes, Alone, UnderWay
<1>5. Recorded' /\ RecordIsPipeline'
  BY <1>1 DEF HandoffInv, HandoffTypes, Recorded, RecordIsPipeline
<1> QED
  BY <1>2, <1>3, <1>4, <1>5 DEF HandoffInv

\* The commit, which alone moves the record.
LEMMA CommitKeeps ==
  ASSUME HandoffInv, NEW h \in Handoff, Commit(h) \/ CommitFails(h)
  PROVE  HandoffInv'
<1>1. CASE Commit(h)
  <2>1. /\ at' = [at EXCEPT ![h] = "committed"] /\ to' = to /\ overlap' = overlap
        /\ at[h] = "checked" /\ row' = row /\ up' = up /\ agent' = agent /\ faults' = faults
        /\ record' = IF row = "in_progress" THEN to[h] ELSE record
        /\ UNCHANGED <<inbox, serving, answer>>
    BY <1>1 DEF Commit, Becomes
  <2>2. HandoffTypes' /\ Queued' /\ AnswerIsTrue'
    BY <2>1 DEF HandoffInv, HandoffTypes, Queued, AnswerIsTrue, Stage
  <2>3. Alone'
    BY <2>1 DEF HandoffInv, HandoffTypes, Alone, UnderWay
  <2>4. ASSUME NEW g \in Handoff, at'[g] = "committed", g # h
        PROVE  overlap
    BY <2>1, <2>4 DEF HandoffInv, HandoffTypes, Alone, UnderWay
  <2>5. Recorded'
    BY <2>1, <2>4 DEF HandoffInv, HandoffTypes, Recorded
  <2>6. RecordIsPipeline'
    BY <2>1 DEF HandoffInv, HandoffTypes, RecordIsPipeline
  <2> QED
    BY <2>2, <2>3, <2>5, <2>6 DEF HandoffInv
<1>2. CASE CommitFails(h)
  <2>1. /\ at' = [at EXCEPT ![h] = "cut"] /\ to' = to /\ overlap' = overlap
        /\ at[h] = "checked" /\ row' = row /\ up' = up /\ faults' = faults + 1
        /\ UNCHANGED <<inbox, serving, answer>>
    BY <1>2 DEF CommitFails, Becomes
  <2>2. HandoffTypes' /\ Queued' /\ AnswerIsTrue'
    BY <2>1 DEF HandoffInv, HandoffTypes, Queued, AnswerIsTrue, Stage
  <2>3. Alone'
    BY <2>1 DEF HandoffInv, HandoffTypes, Alone, UnderWay
  <2>4. faults' > 0
    BY <2>1 DEF HandoffInv, HandoffTypes
  <2> QED
    BY <2>2, <2>3, <2>4 DEF HandoffInv, Recorded, RecordIsPipeline
<1> QED
  BY <1>1, <1>2

\* The switch, which alone moves the pipeline: to what was committed.
LEMMA SwitchKeeps == ASSUME HandoffInv, NEW h \in Handoff, Switch(h) PROVE HandoffInv'
<1>1. /\ at' = [at EXCEPT ![h] = "switched"] /\ to' = to /\ overlap' = overlap
      /\ at[h] = "committed" /\ row' = row /\ record' = record /\ up' = up
      /\ agent' = to[h] /\ faults' = faults /\ UNCHANGED <<inbox, serving, answer>>
  BY DEF Switch, Committed, Becomes
<1>2. HandoffTypes' /\ Queued' /\ AnswerIsTrue'
  BY <1>1 DEF HandoffInv, HandoffTypes, Queued, AnswerIsTrue, Stage
<1>3. Alone'
  BY <1>1 DEF HandoffInv, HandoffTypes, Alone, UnderWay
<1>4. Recorded' /\ RecordIsPipeline'
  BY <1>1 DEF HandoffInv, HandoffTypes, Recorded, RecordIsPipeline
<1> QED
  BY <1>2, <1>3, <1>4 DEF HandoffInv

\* The barge-in and the end of the pipeline, which cut what is under way.
LEMMA CutKeeps == ASSUME HandoffInv, BargeIn \/ PipelineEnds PROVE HandoffInv'
<1>1. CASE BargeIn
  <2>1. /\ at' = [h \in Handoff |-> IF h \in ToolCall /\ UnderWay(h) THEN "cut" ELSE at[h]]
        /\ faults' = faults + 1
        /\ UNCHANGED <<row, up, to, overlap, inbox, serving, answer>>
    BY <1>1 DEF BargeIn
  <2>2. HandoffTypes' /\ Queued' /\ AnswerIsTrue'
    BY <2>1 DEF HandoffInv, HandoffTypes, Queued, AnswerIsTrue, Stage
  <2>3. Alone'
    BY <2>1 DEF HandoffInv, HandoffTypes, Alone, UnderWay
  <2>4. faults' > 0
    BY <2>1 DEF HandoffInv, HandoffTypes
  <2> QED
    BY <2>2, <2>3, <2>4 DEF HandoffInv, Recorded, RecordIsPipeline
<1>2. CASE PipelineEnds
  <2>1. /\ up' = FALSE /\ inbox' = <<>> /\ serving' = NoRequest
        /\ at' = [h \in Handoff |-> IF UnderWay(h) \/ at[h] = "asked" THEN "cut" ELSE at[h]]
        /\ UNCHANGED <<to, overlap, answer, faults>>
    BY <1>2 DEF PipelineEnds
  <2>2. HandoffTypes'
    <3>1. at' \in [Handoff -> Stage]
      BY <2>1 DEF HandoffInv, HandoffTypes, Stage
    <3>2. inbox' \in Seq(Request)
      BY <2>1
    <3> QED
      BY <1>2, <2>1, <3>1, <3>2 DEF PipelineEnds, HandoffInv, HandoffTypes
  <2>4. Queued'
    BY <2>1 DEF HandoffInv, HandoffTypes, Queued, UnderWay
  <2>3. AnswerIsTrue' /\ Alone'
    BY <2>1 DEF HandoffInv, HandoffTypes, AnswerIsTrue, Alone, UnderWay
  <2> QED
    BY <2>1, <2>2, <2>3, <2>4 DEF HandoffInv, Recorded, RecordIsPipeline
<1> QED
  BY <1>1, <1>2

\* The control channel: a request, its time-out, its answer.
LEMMA ChannelKeeps ==
  ASSUME HandoffInv, NEW q \in Request,
         TimeOut(q) \/ Acknowledge \/ \E a \in Agent : Ask(q, a)
  PROVE  HandoffInv'
<1>1. CASE TimeOut(q)
  BY <1>1 DEF TimeOut, HandoffInv, HandoffTypes, Queued, AnswerIsTrue, Alone, UnderWay, Recorded,
     RecordIsPipeline, Answer
<1>2. CASE Acknowledge
  <2> DEFINE y == IF answer[serving] # "waiting" THEN answer[serving]
                  ELSE IF Applied(serving) THEN "ok" ELSE "refused"
  <2>0. /\ serving \in Request /\ serving' = NoRequest
        /\ answer' = [answer EXCEPT ![serving] = y]
        /\ UNCHANGED <<agent, row, record, up, at, to, overlap, inbox, faults>>
    BY <1>2 DEF Acknowledge, HandoffInv, HandoffTypes
  <2>1. \/ y = answer[serving]
        \/ answer[serving] = "waiting" /\ y = "ok" /\ at[serving] = "switched"
        \/ answer[serving] = "waiting" /\ y = "refused" /\ at[serving] \in {"refused", "cut"}
    BY <1>2 DEF Acknowledge, Applied
  <2> HIDE DEF y
  <2>2. HandoffTypes' /\ Queued' /\ AnswerIsTrue'
    BY <2>0, <2>1 DEF HandoffInv, HandoffTypes, Queued, AnswerIsTrue, Answer
  <2>3. Alone' /\ Recorded' /\ RecordIsPipeline'
    BY <2>0 DEF HandoffInv, Alone, UnderWay, Recorded, RecordIsPipeline
  <2> QED
    BY <2>2, <2>3 DEF HandoffInv
<1>3. ASSUME NEW a \in Agent, Ask(q, a) PROVE HandoffInv'
  <2>1. /\ to' = [to EXCEPT ![q] = a] /\ answer[q] = "none" /\ at[q] = "idle"
        /\ UNCHANGED <<agent, row, record, up, overlap, serving, faults>>
    BY <1>3 DEF Ask, HandoffInv, Queued
  <2>2. \/ /\ answer' = [answer EXCEPT ![q] = "waiting"] /\ at' = [at EXCEPT ![q] = "asked"]
           /\ inbox' = Append(inbox, q)
        \/ answer' = [answer EXCEPT ![q] = "not_live"] /\ at' = at /\ inbox' = inbox
    BY <1>3 DEF Ask
  <2>3. HandoffTypes'
    <3>0. inbox \in Seq(Request) /\ q \in Request
      BY DEF HandoffInv, HandoffTypes
    <3>1. inbox' \in Seq(Request)
      <4>1. Append(inbox, q) \in Seq(Request)
        BY <3>0
      <4>2. inbox' = inbox \/ inbox' = Append(inbox, q)
        BY <2>2
      <4> QED
        BY <3>0, <4>1, <4>2
    <3>2. answer' \in [Request -> Answer]
      BY <2>2 DEF HandoffInv, HandoffTypes, Answer
    <3>3. at' \in [Handoff -> Stage]
      BY <2>2 DEF HandoffInv, HandoffTypes, Stage
    <3>4. to' \in [Handoff -> Agent \cup {Transfer}]
      BY <2>1 DEF HandoffInv, HandoffTypes
    <3> QED
      BY <2>1, <3>1, <3>2, <3>3, <3>4 DEF HandoffInv, HandoffTypes
  <2>4. Queued'
    <3>1. CASE inbox' = Append(inbox, q)
      <4>1. /\ at' = [at EXCEPT ![q] = "asked"] /\ answer' = [answer EXCEPT ![q] = "waiting"]
        BY <2>2, <3>1 DEF HandoffInv, HandoffTypes
      <4>2. \A i \in DOMAIN inbox : inbox[i] # q
        BY <2>1 DEF HandoffInv, Queued
      <4>3. /\ inbox \in Seq(Request) /\ inbox'[Len(inbox) + 1] = q
            /\ \A i \in DOMAIN inbox' : \/ i \in DOMAIN inbox /\ inbox'[i] = inbox[i]
                                        \/ i = Len(inbox) + 1
        BY <3>1 DEF HandoffInv, HandoffTypes
      <4>4. /\ \A i \in DOMAIN inbox' : at'[inbox'[i]] = "asked"
            /\ \A i, j \in DOMAIN inbox' : inbox'[i] = inbox'[j] => i = j
        BY <4>1, <4>2, <4>3 DEF HandoffInv, HandoffTypes, Queued
      <4>5. \A x \in Request : answer'[x] = "none" => at'[x] = "idle"
        BY <4>1 DEF HandoffInv, HandoffTypes, Queued
      <4> QED
        BY <4>4, <4>5 DEF Queued
    <3>2. CASE answer' = [answer EXCEPT ![q] = "not_live"] /\ at' = at /\ inbox' = inbox
      BY <3>2 DEF HandoffInv, HandoffTypes, Queued
    <3> QED
      BY <2>2, <3>1, <3>2
  <2>5. AnswerIsTrue' /\ Alone'
    BY <2>1, <2>2 DEF HandoffInv, HandoffTypes, AnswerIsTrue, Alone, UnderWay
  <2>6. Recorded' /\ RecordIsPipeline'
    BY <2>1, <2>2 DEF HandoffInv, HandoffTypes, Recorded, RecordIsPipeline
  <2> QED
    BY <2>3, <2>4, <2>5, <2>6 DEF HandoffInv
<1> QED
  BY <1>1, <1>2, <1>3

\* Handoffs that begin: the model's, an escalate step's, the request heard.
LEMMA BeginsKeep ==
  ASSUME HandoffInv, Listen \/ (\E h \in ToolCall, a \in Agent : AskTool(h, a))
                     \/ \E p \in Procedure, s \in Step : Move(p, s)
  PROVE  HandoffInv'
<1>0. \A h \in ToolCall : at[h] = "idle" => \A i \in DOMAIN inbox : inbox[i] # h
  BY DEF HandoffInv, HandoffTypes, Queued
<1>1. ASSUME NEW h \in ToolCall, NEW a \in Agent, AskTool(h, a) PROVE HandoffInv'
  BY <1>0, <1>1, BeginKeeps DEF AskTool, HandoffInv, HandoffTypes, Queued
<1>2. ASSUME NEW p \in Procedure, NEW s \in Step, Move(p, s) PROVE HandoffInv'
  <2>1. CASE s \in Escalate
    <3>1. PICK h \in ToolCall : at[h] = "idle" /\ Begin(h, Escalates[s])
      BY <1>2, <2>1 DEF Move
    <3>2. Escalates[s] \in Agent \cup {Transfer}
      BY <2>1
    <3>3. UNCHANGED <<agent, row, record, up, answer, faults, inbox, serving>>
      BY <1>2 DEF Move
    <3> QED
      BY <1>0, <3>1, <3>2, <3>3, BeginKeeps DEF HandoffInv, HandoffTypes, Queued
  <2>2. CASE s \notin Escalate
    BY <1>2, <2>2, UntouchedKeeps DEF Move, Untouched, HandoffInv, HandoffTypes
  <2> QED
    BY <2>1, <2>2
<1>3. CASE Listen
  <2> DEFINE h == Head(inbox)
  <2>1. /\ inbox # <<>> /\ h = inbox[1] /\ h \in Request /\ at[h] = "asked"
        /\ 1 \in DOMAIN inbox /\ Tail(inbox) \in Seq(Request)
        /\ Begin(h, to[h]) /\ inbox' = Tail(inbox) /\ serving' = h
        /\ UNCHANGED <<agent, row, record, up, answer, faults>>
    BY <1>3 DEF Listen, HandoffInv, HandoffTypes, Queued
  <2>2. \A i \in DOMAIN Tail(inbox) :
          i + 1 \in DOMAIN inbox /\ Tail(inbox)[i] = inbox[i + 1] /\ i + 1 # 1 /\ i \in Nat
    BY <2>1 DEF HandoffInv, HandoffTypes
  <2>3. /\ \A i \in DOMAIN inbox' : at[inbox'[i]] = "asked" /\ inbox'[i] # h
        /\ \A i, j \in DOMAIN inbox' : inbox'[i] = inbox'[j] => i = j
    BY <2>1, <2>2 DEF HandoffInv, Queued
  <2>4. answer[h] # "none" /\ answer[h] # "not_live" /\ to[h] \in Agent \cup {Transfer}
    BY <2>1 DEF HandoffInv, HandoffTypes, Queued, AnswerIsTrue
  <2> HIDE DEF h
  <2> QED
    BY <2>1, <2>3, <2>4, BeginKeeps
<1> QED
  BY <1>1, <1>2, <1>3

LEMMA HandoffStep == ASSUME HandoffInv, [Next]_vars PROVE HandoffInv'
<1>1. CASE UNCHANGED vars
  BY <1>1, UntouchedKeeps DEF vars, Untouched, HandoffInv, HandoffTypes
<1>2. ASSUME NEW i \in DOMAIN pending, Write(i) \/ LoseWrite(i) PROVE HandoffInv'
  BY <1>2, UntouchedKeeps DEF Write, LoseWrite, Untouched, HandoffInv, HandoffTypes
<1>3. ASSUME NEW k \in Skill, LoadSkill(k) PROVE HandoffInv'
  BY <1>3, UntouchedKeeps DEF LoadSkill, Untouched, HandoffInv, HandoffTypes
<1>4. ASSUME NEW h \in Handoff, Prepare(h) \/ Check(h) PROVE HandoffInv'
  BY <1>4, BecomesKeeps DEF Prepare, Check, UnderWay, Stage
<1>5. ASSUME NEW h \in Handoff, TransferSettles(h) PROVE HandoffInv'
  BY <1>5, BecomesKeeps DEF TransferSettles, Stage
<1>6. CASE RowEnds
  BY <1>6 DEF RowEnds, HandoffInv, HandoffTypes, Queued, AnswerIsTrue, Alone, UnderWay, Recorded,
     RecordIsPipeline
<1>7. CASE \E q \in Request : TimeOut(q) \/ \E a \in Agent : Ask(q, a)
  BY <1>7, ChannelKeeps
<1>8. CASE Acknowledge
  <2>1. serving \in Request
    BY <1>8 DEF Acknowledge, HandoffInv, HandoffTypes
  <2> QED
    BY <1>8, <2>1, ChannelKeeps
<1> QED
  BY <1>1, <1>2, <1>3, <1>4, <1>5, <1>6, <1>7, <1>8, CommitKeeps, SwitchKeeps, CutKeeps,
     BeginsKeep DEF Next

\* What the API is told of a handoff is true of it, and the record follows the pipeline.
THEOREM HandoffsAgree == Spec => []HandoffInv
<1>1. Init => HandoffInv
  <2> SUFFICES ASSUME Init PROVE HandoffInv
    OBVIOUS
  <2>1. /\ at = [h \in Handoff |-> "idle"] /\ to = [h \in Handoff |-> First]
        /\ answer = [q \in Request |-> "none"] /\ inbox = <<>> /\ serving = NoRequest
        /\ overlap = FALSE /\ agent = record /\ row = "in_progress" /\ up = TRUE /\ faults = 0
    BY DEF Init
  <2>2. HandoffTypes
    <3>1. inbox \in Seq(Request)
      BY <2>1
    <3>2. at \in [Handoff -> Stage] /\ to \in [Handoff -> Agent \cup {Transfer}]
      BY <2>1 DEF Stage
    <3> QED
      BY <2>1, <3>1, <3>2 DEF HandoffTypes, Answer
  <2>3. Queued /\ AnswerIsTrue /\ Alone
    BY <2>1 DEF Queued, AnswerIsTrue, Alone, UnderWay
  <2>4. Recorded /\ RecordIsPipeline
    BY <2>1 DEF Recorded, RecordIsPipeline
  <2> QED
    BY <2>2, <2>3, <2>4 DEF HandoffInv
<1>2. HandoffInv /\ [Next]_vars => HandoffInv'
  BY HandoffStep
<1> QED
  BY <1>1, <1>2, PTL DEF Spec

\* While the call is in progress the record names the agent the pipeline runs.
THEOREM RecordIsPipelineHolds == Spec => []RecordIsPipeline
BY HandoffsAgree, PTL DEF HandoffInv

\* An answer the API gave is true of the call.
THEOREM AnswerIsTrueHolds == Spec => []AnswerIsTrue
BY HandoffsAgree, PTL DEF HandoffInv

-----------------------------------------------------------------------------
(* The call's events, in the order they are made                           *)

\* A finite set written as a sequence: its elements, every one of them.
LEMMA SeqOfSet ==
  ASSUME NEW S, IsFiniteSet(S)
  PROVE  /\ SetToSeq(S) \in Seq(S)
         /\ \A x \in S : \E i \in DOMAIN SetToSeq(S) : SetToSeq(S)[i] = x
<1> DEFINE n == Cardinality(S)
           f == SetToSeq(S)
<1>1. n \in Nat /\ ExistsBijection(1..n, S)
  BY FS_CardinalityType
<1>2. \E g \in [1..n -> S] : IsInjective(g)
  BY <1>1 DEF ExistsBijection, Bijection, Injection
<1>3. f \in [1..n -> S] /\ IsInjective(f)
  BY <1>2 DEF SetToSeq
<1>4. f \in Injection(1..n, S)
  BY <1>3 DEF Injection
<1>5. Cardinality(1..n) = n
  BY <1>1, FS_Interval
<1>6. f \in Surjection(1..n, S)
  BY <1>4, <1>5, FS_Injection
<1>7. f \in Seq(S) /\ DOMAIN f = 1..n
  BY <1>1, <1>3
<1> QED
  BY <1>6, <1>7 DEF Surjection

\* The events of a start: of each procedure that starts with the call, one.
LEMMA StartsWritten ==
  ASSUME NEW a \in Agent
  PROVE  /\ StartEvents(a) \in Seq(Event)
         /\ \A i \in DOMAIN StartEvents(a) : \E p \in StartsOf(a) :
              StartEvents(a)[i] = Reached(p, StartStep[p])
         /\ \A p \in StartsOf(a) : \E i \in DOMAIN StartEvents(a) :
              StartEvents(a)[i] = Reached(p, StartStep[p])
<1> DEFINE T == {Reached(p, StartStep[p]) : p \in StartsOf(a)}
           f == [p \in StartsOf(a) |-> Reached(p, StartStep[p])]
<1>1. IsFiniteSet(StartsOf(a))
  BY FS_Subset DEF StartsOf
<1>2. f \in Surjection(StartsOf(a), T)
  BY DEF Surjection
<1>3. IsFiniteSet(T)
  BY <1>1, <1>2, FS_Surjection
<1>4. T \subseteq Event
  BY DEF StartsOf, Reached, Event
<1>5. StartEvents(a) = SetToSeq(T)
  BY DEF StartEvents
<1> HIDE DEF T
<1>6. /\ StartEvents(a) \in Seq(T)
      /\ \A x \in T : \E i \in DOMAIN StartEvents(a) : StartEvents(a)[i] = x
  BY <1>3, <1>5, SeqOfSet
<1>7. StartEvents(a) \in Seq(Event)
  BY <1>4, <1>6
<1> QED
  BY <1>6, <1>7 DEF T

\* A step a procedure stands at, and the events of it, are of the types they should be.
Paths ==
  /\ path \in [Procedure -> Seq(Step)] /\ finished \in [Procedure -> Seq(Step)]
  /\ pending \in Seq(Event)

\* The events of the procedures left.
LEMMA LeftWritten == ASSUME Paths PROVE LeftEvents \in Seq(Event)
<1> DEFINE R == {q \in Procedure : path[q] # <<>>}
           T == {Left(p) : p \in R}
           f == [p \in R |-> Left(p)]
<1>1. IsFiniteSet(R)
  BY FS_Subset
<1>2. f \in Surjection(R, T)
  BY DEF Surjection
<1>3. IsFiniteSet(T)
  BY <1>1, <1>2, FS_Surjection
<1>4. ASSUME NEW p \in R PROVE Left(p) \in Event
  BY <1>4 DEF Left, Event, Paths, Last
<1>5. LeftEvents = SetToSeq(T) /\ T \subseteq Event
  BY <1>4 DEF LeftEvents
<1> HIDE DEF T
<1> QED
  BY <1>3, <1>5, SeqOfSet

\* Where a procedure stands: at the end of its path, running or finished.
StandsAt(p) == {Last(r) : r \in {path[p], finished[p]} \ {<<>>}}

EventsOf(p) == {i \in DOMAIN pending : pending[i].procedure = p}

\* The summary says it, or the last events to be stored of the procedure will.
WillTell(p, s) ==
  \/ EventsOf(p) = {} /\ told[p] = s
  \/ \E i \in EventsOf(p) : \A j \in EventsOf(p) : j >= i => pending[j] = Reached(p, s)

ToldInOrder == \A p \in Procedure \ lost : \A s \in StandsAt(p) : WillTell(p, s)

\* A handoff on its way to a switch is to an agent.
ToAgent == \A h \in Handoff : UnderWay(h) \/ at[h] = "asked" => to[h] \in Agent

AgentInv == TypeOK /\ ToAgent /\ ToldInOrder

\* What is told once every event is stored.
LEMMA ToldIsSummary == ASSUME Paths, ToldInOrder PROVE SummaryTells
<1> SUFFICES ASSUME NEW p \in Procedure, Written(p)
             PROVE  \A s \in StandsAt(p) : told[p] = s
  BY DEF SummaryTells, StandsAt
<1>1. p \notin lost /\ EventsOf(p) = {}
  BY DEF Written, EventsOf
<1> QED
  BY <1>1 DEF ToldInOrder, WillTell

\* The first event stored, or lost.
LEMMA WriteTells ==
  ASSUME AgentInv, NEW i \in DOMAIN pending, Write(i) \/ LoseWrite(i)
  PROVE  ToldInOrder' /\ pending' \in Seq(Event) /\ told' \in [Procedure -> Step \cup {NoStep}]
<1>1. /\ i = 1 /\ pending \in Seq(Event) /\ pending # <<>> /\ pending[1] \in Event
      /\ path' = path /\ finished' = finished
  BY DEF Write, LoseWrite, NextWrite, AgentInv, TypeOK
<1>2. /\ pending' = Tail(pending) /\ pending' \in Seq(Event)
      /\ DOMAIN pending' = 1..(Len(pending) - 1)
      /\ \A j \in DOMAIN pending' : pending'[j] = pending[j + 1]
      /\ DOMAIN pending = 1..Len(pending) /\ Len(pending) \in Nat
  <2>1. pending' = RemoveAt(pending, 1)
    BY <1>1 DEF Write, LoseWrite
  <2>2. RemoveAt(pending, 1) = Tail(pending)
    <3>1. SubSeq(pending, 1, 0) = <<>>
      BY SubSeqEmpty
    <3>2. SubSeq(pending, 2, Len(pending)) = Tail(pending) /\ Tail(pending) \in Seq(Event)
      BY <1>1, TailIsSubSeq, HeadTailProperties
    <3>3. RemoveAt(pending, 1) = <<>> \o Tail(pending)
      BY <3>1, <3>2 DEF RemoveAt
    <3> QED
      BY <3>2, <3>3, ConcatEmptySeq
  <2>3. /\ Tail(pending) \in Seq(Event) /\ Len(Tail(pending)) = Len(pending) - 1
        /\ \A j \in 1..Len(Tail(pending)) : Tail(pending)[j] = pending[j + 1]
    BY <1>1, HeadTailProperties
  <2> QED
    BY <1>1, <2>1, <2>2, <2>3, LenProperties
<1> DEFINE e == pending[1]
<1>3. told' \in [Procedure -> Step \cup {NoStep}]
  BY <1>1 DEF Write, LoseWrite, AgentInv, TypeOK, Event
<1>4. ASSUME NEW p \in Procedure \ lost', NEW s \in StandsAt(p)' PROVE WillTell(p, s)'
  <2>1. p \in Procedure \ lost /\ s \in StandsAt(p)
    BY <1>1, <1>4 DEF Write, LoseWrite, StandsAt
  <2>2. WillTell(p, s)
    BY <2>1 DEF AgentInv, ToldInOrder
  <2>3. EventsOf(p)' = {j \in 1..(Len(pending) - 1) : j + 1 \in EventsOf(p)}
    BY <1>2 DEF EventsOf
  <2>4. CASE e.procedure # p
    <3>1. told'[p] = told[p] /\ 1 \notin EventsOf(p)
      BY <1>1, <2>1, <2>4 DEF Write, LoseWrite, AgentInv, TypeOK, EventsOf
    <3>2. CASE EventsOf(p) = {}
      BY <2>2, <2>3, <3>1, <3>2 DEF WillTell
    <3>3. CASE EventsOf(p) # {}
      <4>1. PICK k \in EventsOf(p) :
              \A j \in EventsOf(p) : j >= k => pending[j] = Reached(p, s)
        BY <2>2, <3>3 DEF WillTell
      <4>2. k \in Nat /\ k > 1 /\ k - 1 \in EventsOf(p)'
        BY <1>2, <2>3, <3>1, <4>1 DEF EventsOf
      <4>3. \A j \in EventsOf(p)' : j >= k - 1 => pending'[j] = Reached(p, s)
        BY <1>2, <2>3, <4>1, <4>2
      <4> QED
        BY <4>2, <4>3 DEF WillTell, Reached
    <3> QED
      BY <3>2, <3>3
  <2>5. CASE e.procedure = p
    <3>0. 1 \in EventsOf(p) /\ p \in Procedure
      BY <1>1, <1>2, <2>5 DEF EventsOf
    <3>1. PICK k \in EventsOf(p) :
            \A j \in EventsOf(p) : j >= k => pending[j] = Reached(p, s)
      BY <2>2, <3>0 DEF WillTell
    <3>2. CASE EventsOf(p) = {1}
      <4>1. EventsOf(p)' = {}
        BY <1>2, <2>3, <3>2
      <4>2. e = Reached(p, s)
        BY <3>0, <3>1, <3>2
      <4>3. ~LoseWrite(i)
        BY <1>1, <1>4, <2>5 DEF LoseWrite
      <4>4. told'[p] = s
        <5>1. /\ e.procedure = p /\ e.type = "step" /\ e.step = s
              /\ told \in [Procedure -> Step \cup {NoStep}]
          BY <4>2 DEF Reached, AgentInv, TypeOK
        <5>2. told' = [told EXCEPT ![e.procedure] = e.step]
          BY <1>1, <4>3, <5>1 DEF Write
        <5> QED
          BY <2>1, <5>1, <5>2
      <4> QED
        BY <4>1, <4>4 DEF WillTell
    <3>3. CASE EventsOf(p) # {1}
      <4>0. k \in Nat
        BY <1>2, <3>1 DEF EventsOf
      <4>1. PICK m \in EventsOf(p) : m >= k /\ m > 1
        <5>1. CASE k > 1
          BY <4>0, <5>1, <3>1
        <5>2. CASE ~ (k > 1)
          BY <1>2, <3>0, <3>1, <3>3, <5>2 DEF EventsOf
        <5> QED
          BY <5>1, <5>2
      <4>2. m \in Nat /\ k \in Nat /\ m - 1 \in EventsOf(p)'
        BY <1>2, <2>3, <3>1, <4>1 DEF EventsOf
      <4>3. \A j \in EventsOf(p)' : j >= m - 1 => pending'[j] = Reached(p, s)
        BY <1>2, <2>3, <3>1, <4>1, <4>2
      <4> QED
        BY <4>2, <4>3 DEF WillTell, Reached
    <3> QED
      BY <3>2, <3>3
  <2> QED
    BY <2>4, <2>5
<1> QED
  BY <1>2, <1>3, <1>4 DEF ToldInOrder

\* A sequence without its last element, and with one more.
LEMMA BackOrOn ==
  ASSUME NEW S, NEW q \in Seq(S), NEW x \in S
  PROVE  /\ Len(q) > 1 => /\ Front(q) \in Seq(S) /\ Len(Front(q)) = Len(q) - 1
                          /\ \A i \in 1..(Len(q) - 1) : Front(q)[i] = q[i]
         /\ Append(q, x) \in Seq(S) /\ Len(Append(q, x)) = Len(q) + 1
         /\ Append(q, x)[Len(q) + 1] = x /\ \A i \in 1..Len(q) : Append(q, x)[i] = q[i]
<1> DEFINE n == Len(q) - 1
<1>1. ASSUME Len(q) > 1
      PROVE  Front(q) \in Seq(S) /\ Len(Front(q)) = n /\ \A i \in 1..n : Front(q)[i] = q[i]
  <2>1. Len(q) \in Nat /\ n \in Int /\ n >= 1 /\ \A i \in 1..n : q[i] \in S
    BY <1>1, LenProperties
  <2>2. Front(q) = SubSeq(q, 1, n)
    BY DEF Front
  <2> HIDE DEF n
  <2>3. /\ SubSeq(q, 1, n) \in Seq(S) /\ Len(SubSeq(q, 1, n)) = IF 1 <= n THEN n - 1 + 1 ELSE 0
        /\ \A i \in 1..(n - 1 + 1) : SubSeq(q, 1, n)[i] = q[1 + i - 1]
    BY <2>1, SubSeqProperties
  <2>4. n - 1 + 1 = n /\ \A i \in 1..n : i = 1 + i - 1
    BY <2>1
  <2> QED
    BY <2>1, <2>2, <2>3, <2>4
<1> QED
  BY <1>1, AppendProperties

\* A move's walk is a route of the procedure, to the step moved to.
LEMMA WalkIsRoute ==
  ASSUME TypeOK, NEW p \in Procedure, NEW s \in Step, Allowed(p, s),
         NEW r, r = IF path[p] = <<>> THEN <<s>> ELSE Walk(p, s)
  PROVE  r \in Seq(Step) /\ r # <<>> /\ Last(r) = s /\ Route(p, r)
<1> DEFINE q == path[p]
<1>0. /\ q \in Seq(Step) /\ Len(q) \in Nat /\ DOMAIN q = 1..Len(q) /\ Route(p, q)
  BY DEF TypeOK
<1>1. CASE q = <<>>
  <2>1. s = StartStep[p]
    BY <1>1 DEF Allowed
  <2>2. r = <<s>> /\ Len(r) = 1 /\ r[1] = s
    BY <1>1
  <2> QED
    BY <2>1, <2>2 DEF Route, Last
<1>2. CASE q # <<>> /\ s = Back(p)
  <2>1. Len(q) > 1 /\ s = q[Len(q) - 1]
    BY <1>2 DEF Back
  <2>2. r = Front(q)
    BY <1>2 DEF Walk
  <2>3. r = SubSeq(q, 1, Len(q) - 1)
    BY <2>2 DEF Front
  <2> DEFINE n == Len(q) - 1
  <2>4. n \in Int /\ n >= 1 /\ \A i \in 1..n : q[i] \in Step
    BY <1>0, <2>1
  <2>5. r \in Seq(Step) /\ Len(r) = n /\ \A i \in 1..n : r[i] = q[i]
    BY <1>0, <2>1, <2>2, BackOrOn
  <2>6. Route(p, r)
    <3>1. q[1] = StartStep[p] /\ \A i \in 1..n : q[i + 1] \in Moves[q[i]]
      BY <1>0, <1>2 DEF Route
    <3> HIDE DEF q, n
    <3> QED
      BY <2>4, <2>5, <3>1 DEF Route
  <2> QED
    BY <1>0, <2>1, <2>5, <2>6 DEF Last
<1>3. CASE q # <<>> /\ s # Back(p)
  <2>1. s \in Moves[q[Len(q)]] /\ Len(q) >= 1
    BY <1>0, <1>3 DEF Allowed, Last
  <2>2. r = Append(q, s)
    BY <1>3 DEF Walk
  <2>3. /\ r \in Seq(Step) /\ Len(r) = Len(q) + 1 /\ r[Len(q) + 1] = s
        /\ \A i \in 1..Len(q) : r[i] = q[i]
    <3>1. Append(q, s) \in Seq(Step) /\ Len(Append(q, s)) = Len(q) + 1
      BY <1>0, BackOrOn
    <3>2. Append(q, s)[Len(q) + 1] = s /\ \A i \in 1..Len(q) : Append(q, s)[i] = q[i]
      BY <1>0, BackOrOn
    <3> QED
      BY <2>2, <3>1, <3>2
  <2>4. r[1] = StartStep[p]
    BY <1>0, <1>3, <2>1, <2>3 DEF Route
  <2>5. ASSUME NEW i \in 1..Len(q) PROVE r[i + 1] \in Moves[r[i]]
    <3>1. CASE i = Len(q)
      BY <1>0, <2>1, <2>3, <3>1
    <3>2. CASE i < Len(q)
      BY <1>0, <1>3, <2>3, <3>2 DEF Route
    <3> QED
      BY <1>0, <3>1, <3>2
  <2> DEFINE n == Len(q)
  <2>6. n \in Nat /\ Len(r) = n + 1 /\ r \in Seq(Step) /\ r[n + 1] = s
    BY <1>0, <2>3
  <2>7. r # <<>> /\ Last(r) = s
    <3> HIDE DEF q, n
    <3> QED
      BY <2>6 DEF Last
  <2>8. \A i \in 1..n : r[i + 1] \in Moves[r[i]]
    BY <2>5
  <2>9. Route(p, r)
    <3> HIDE DEF q, n
    <3>1. Len(r) - 1 = n
      BY <2>6
    <3> QED
      BY <2>4, <2>7, <2>8, <3>1 DEF Route
  <2> QED
    BY <2>6, <2>7, <2>9
<1> QED
  BY <1>1, <1>2, <1>3

\* What a move leaves: the procedure where it was moved to, the others where they were.
LEMMA MoveTells ==
  ASSUME AgentInv, NEW p \in Procedure, NEW s \in Step, Move(p, s)
  PROVE  /\ ToldInOrder' /\ Paths'
         /\ \A q \in Procedure : /\ Route(q, path'[q]) /\ Route(q, finished'[q])
                                 /\ Owner[q] # agent => path'[q] = <<>> /\ finished'[q] = <<>>
<1> DEFINE r == IF path[p] = <<>> THEN <<s>> ELSE Walk(p, s)
<1>1. /\ Owner[p] = agent /\ Allowed(p, s) /\ Placed(p, r)
      /\ pending' = Append(pending, Reached(p, s)) /\ told' = told /\ lost' = lost
  BY DEF Move
<1>2. TypeOK /\ Paths
  BY DEF AgentInv, TypeOK, Paths
<1>3. r \in Seq(Step) /\ r # <<>> /\ Last(r) = s /\ Route(p, r)
  BY <1>1, <1>2, WalkIsRoute
<1> HIDE DEF r
<1>4. /\ path' \in [Procedure -> Seq(Step)] /\ finished' \in [Procedure -> Seq(Step)]
      /\ \/ path'[p] = <<>> /\ finished'[p] = r
         \/ path'[p] = r /\ finished'[p] = <<>>
      /\ \A q \in Procedure \ {p} : path'[q] = path[q] /\ finished'[q] = finished[q]
  <2>1. /\ finished[p] = <<>> /\ r \in Seq(Step) /\ <<>> \in Seq(Step)
        /\ path \in [Procedure -> Seq(Step)] /\ finished \in [Procedure -> Seq(Step)]
    BY <1>1, <1>2, <1>3 DEF Allowed, Paths
  <2>2. CASE path' = [path EXCEPT ![p] = <<>>] /\ finished' = [finished EXCEPT ![p] = r]
    BY <2>1, <2>2
  <2>3. CASE path' = [path EXCEPT ![p] = r] /\ finished' = finished
    BY <2>1, <2>3
  <2> QED
    BY <1>1, <2>2, <2>3 DEF Placed
<1>5. Reached(p, s) \in Event
  BY DEF Reached, Event
<1>6. /\ pending' \in Seq(Event) /\ Len(pending') = Len(pending) + 1 /\ Len(pending) \in Nat
      /\ pending'[Len(pending) + 1] = Reached(p, s)
      /\ \A i \in 1..Len(pending) : pending'[i] = pending[i]
      /\ DOMAIN pending = 1..Len(pending) /\ DOMAIN pending' = 1..(Len(pending) + 1)
  BY <1>1, <1>2, <1>5, AppendProperties, LenProperties DEF Paths
<1>7. Paths'
  BY <1>4, <1>6 DEF Paths
<1>8. ASSUME NEW q \in Procedure
      PROVE  /\ Route(q, path'[q]) /\ Route(q, finished'[q])
             /\ Owner[q] # agent => path'[q] = <<>> /\ finished'[q] = <<>>
  <2>1. CASE q = p
    BY <1>1, <1>3, <1>4, <2>1 DEF Route
  <2>2. CASE q # p
    BY <1>2, <1>4, <2>2 DEF TypeOK
  <2> QED
    BY <2>1, <2>2
<1>9. ASSUME NEW q \in Procedure \ lost', NEW x \in StandsAt(q)' PROVE WillTell(q, x)'
  <2>1. CASE q = p
    <3>1. x = s
      BY <1>3, <1>4, <1>9, <2>1 DEF StandsAt
    <3>2. Len(pending) + 1 \in EventsOf(p)'
      BY <1>6 DEF EventsOf, Reached
    <3>3. \A j \in EventsOf(p)' : j >= Len(pending) + 1 => pending'[j] = Reached(p, s)
      BY <1>6 DEF EventsOf
    <3> QED
      BY <2>1, <3>1, <3>2, <3>3 DEF WillTell, Reached
  <2>2. CASE q # p
    <3>1. x \in StandsAt(q) /\ q \notin lost
      BY <1>1, <1>4, <1>9, <2>2 DEF StandsAt
    <3>2. EventsOf(q)' = EventsOf(q) /\ \A j \in EventsOf(q) : pending'[j] = pending[j]
      BY <1>6, <2>2 DEF EventsOf, Reached
    <3>3. WillTell(q, x)
      BY <3>1 DEF AgentInv, ToldInOrder
    <3>4. CASE EventsOf(q) = {} /\ told[q] = x
      BY <1>1, <3>2, <3>4 DEF WillTell
    <3>5. CASE \E i \in EventsOf(q) :
                 \A j \in EventsOf(q) : j >= i => pending[j] = Reached(q, x)
      BY <3>2, <3>5 DEF WillTell, Reached
    <3> QED
      BY <3>3, <3>4, <3>5 DEF WillTell
  <2> QED
    BY <2>1, <2>2
<1> QED
  BY <1>7, <1>8, <1>9 DEF ToldInOrder

\* The procedures of an agent that takes the call: those of start "call", at their start.
LEMMA StartsStand ==
  ASSUME NEW a \in Agent
  PROVE  /\ RunsOf(a) \in [Procedure -> Seq(Step)] /\ FinishedOf(a) \in [Procedure -> Seq(Step)]
         /\ \A p \in Procedure :
              /\ Route(p, RunsOf(a)[p]) /\ Route(p, FinishedOf(a)[p])
              /\ Owner[p] # a => RunsOf(a)[p] = <<>> /\ FinishedOf(a)[p] = <<>>
              /\ \A r \in {RunsOf(a)[p], FinishedOf(a)[p]} \ {<<>>} :
                   p \in StartsOf(a) /\ Last(r) = StartStep[p]
<1>1. \A p \in Procedure : /\ <<StartStep[p]>> \in Seq(Step) /\ <<StartStep[p]>>[1] = StartStep[p]
                           /\ Len(<<StartStep[p]>>) = 1
  OBVIOUS
<1>2. \A p \in Procedure : /\ RunsOf(a)[p] \in {<<>>, <<StartStep[p]>>}
                           /\ FinishedOf(a)[p] \in {<<>>, <<StartStep[p]>>}
                           /\ RunsOf(a)[p] # <<>> => p \in StartsOf(a)
                           /\ FinishedOf(a)[p] # <<>> => p \in StartsOf(a)
  BY DEF RunsOf, FinishedOf
<1>3. \A p \in Procedure : Route(p, <<>>) /\ Route(p, <<StartStep[p]>>)
  BY <1>1 DEF Route
<1>4. /\ RunsOf(a) \in [Procedure -> Seq(Step)] /\ FinishedOf(a) \in [Procedure -> Seq(Step)]
  BY <1>1 DEF RunsOf, FinishedOf
<1>5. \A p \in Procedure : Owner[p] # a => p \notin StartsOf(a)
  BY DEF StartsOf
<1> QED
  <2>1. ASSUME NEW p \in Procedure, NEW r \in {RunsOf(a)[p], FinishedOf(a)[p]} \ {<<>>}
        PROVE  p \in StartsOf(a) /\ Last(r) = StartStep[p]
    BY <1>1, <1>2, <2>1 DEF Last
  <2>2. \A p \in Procedure : /\ Route(p, RunsOf(a)[p]) /\ Route(p, FinishedOf(a)[p])
                             /\ Owner[p] # a => RunsOf(a)[p] = <<>> /\ FinishedOf(a)[p] = <<>>
    BY <1>2, <1>3, <1>5
  <2> QED
    BY <1>4, <2>1, <2>2

\* What a switch leaves: the target's procedures, and their events after all others.
LEMMA SwitchTells ==
  ASSUME AgentInv, NEW h \in Handoff, Switch(h)
  PROVE  /\ ToldInOrder' /\ Paths' /\ agent' \in Agent
         /\ \A q \in Procedure : /\ Route(q, path'[q]) /\ Route(q, finished'[q])
                                 /\ Owner[q] # agent' => path'[q] = <<>> /\ finished'[q] = <<>>
<1> DEFINE a == to[h]
<1>1. /\ a \in Agent /\ agent' = a /\ path' = RunsOf(a) /\ finished' = FinishedOf(a)
      /\ pending' = pending \o LeftEvents \o StartEvents(a) /\ told' = told /\ lost' = lost
  BY DEF Switch, Committed, AgentInv, ToAgent, UnderWay
<1> HIDE DEF a
<1> DEFINE s == pending \o LeftEvents
           n == Len(s)
           e == StartEvents(a)
<1>2. s \in Seq(Event) /\ e \in Seq(Event)
  <2>1. Paths
    BY DEF AgentInv, TypeOK, Paths
  <2> QED
    BY <1>1, <2>1, LeftWritten, StartsWritten, ConcatProperties DEF Paths
<1>3. /\ \A i \in DOMAIN e : \E p \in StartsOf(a) : e[i] = Reached(p, StartStep[p])
      /\ \A p \in StartsOf(a) : \E i \in DOMAIN e : e[i] = Reached(p, StartStep[p])
  BY <1>1, StartsWritten
<1>4. pending' = s \o e
  BY <1>1
<1> HIDE DEF s, e
<1>5. /\ pending' \in Seq(Event) /\ n \in Nat /\ Len(e) \in Nat
      /\ DOMAIN e = 1..Len(e) /\ DOMAIN pending' = 1..(n + Len(e))
      /\ \A i \in 1..Len(e) : n + i \in DOMAIN pending' /\ pending'[n + i] = e[i]
  BY <1>2, <1>4, ConcatProperties, LenProperties
<1>6. \A j \in DOMAIN pending' : j > n => j - n \in DOMAIN e /\ pending'[j] = e[j - n]
  BY <1>5
<1>7. Paths'
  BY <1>1, <1>5, StartsStand DEF Paths
<1>8. ASSUME NEW p \in Procedure \ lost', NEW x \in StandsAt(p)' PROVE WillTell(p, x)'
  <2>1. p \in StartsOf(a) /\ x = StartStep[p]
    BY <1>1, <1>8, StartsStand DEF StandsAt
  <2>2. PICK i \in DOMAIN e : e[i] = Reached(p, x)
    BY <1>3, <2>1
  <2>3. n + i \in EventsOf(p)' /\ n + i > n
    BY <1>5, <2>2 DEF EventsOf, Reached
  <2>4. ASSUME NEW j \in EventsOf(p)', j >= n + i PROVE pending'[j] = Reached(p, x)
    <3>1. j \in DOMAIN pending' /\ j > n /\ pending'[j].procedure = p
      BY <1>5, <2>3, <2>4 DEF EventsOf
    <3>2. PICK q \in StartsOf(a) : pending'[j] = Reached(q, StartStep[q])
      BY <1>3, <1>6, <3>1
    <3>3. q = p
      BY <3>1, <3>2 DEF Reached
    <3> QED
      BY <2>1, <3>2, <3>3
  <2> QED
    BY <2>3, <2>4 DEF WillTell, Reached
<1> QED
  BY <1>1, <1>7, <1>8, StartsStand DEF ToldInOrder

\* The procedures of the agent, and their log.
ProcedureTypes ==
  /\ Paths /\ agent \in Agent /\ told \in [Procedure -> Step \cup {NoStep}]
  /\ lost \subseteq Procedure
  /\ \A p \in Procedure :
       /\ Route(p, path[p]) /\ Route(p, finished[p])
       /\ Owner[p] # agent => path[p] = <<>> /\ finished[p] = <<>>

LEMMA ProceduresStep ==
  ASSUME AgentInv, [Next]_vars PROVE ProcedureTypes' /\ ToldInOrder'
<1>0. ProcedureTypes /\ ToldInOrder
  BY DEF AgentInv, TypeOK, ProcedureTypes, Paths
<1>1. ASSUME UNCHANGED <<agent, procedures, log>> PROVE ProcedureTypes' /\ ToldInOrder'
  <2>1. UNCHANGED <<agent, path, finished, pending, told, lost>>
    BY <1>1
  <2>2. ProcedureTypes'
    BY <1>0, <2>1 DEF ProcedureTypes, Paths, Route
  <2>3. \A p \in Procedure : StandsAt(p)' = StandsAt(p) /\ EventsOf(p)' = EventsOf(p)
    BY <2>1 DEF StandsAt, EventsOf
  <2>4. ASSUME NEW p \in Procedure, NEW s, WillTell(p, s) PROVE WillTell(p, s)'
    BY <2>1, <2>3, <2>4 DEF WillTell, Reached
  <2>5. ToldInOrder'
    BY <1>0, <2>1, <2>3, <2>4 DEF ToldInOrder
  <2> QED
    BY <2>2, <2>5
<1>2. ASSUME NEW p \in Procedure, NEW s \in Step, Move(p, s)
      PROVE  ProcedureTypes' /\ ToldInOrder'
  <2>1. UNCHANGED <<agent, told, lost>>
    BY <1>2 DEF Move
  <2>2. /\ ToldInOrder' /\ Paths'
        /\ \A q \in Procedure : /\ Route(q, path'[q]) /\ Route(q, finished'[q])
                                /\ Owner[q] # agent => path'[q] = <<>> /\ finished'[q] = <<>>
    BY <1>2, MoveTells
  <2> QED
    BY <1>0, <2>1, <2>2 DEF ProcedureTypes, Route
<1>3. ASSUME NEW i \in DOMAIN pending, Write(i) \/ LoseWrite(i)
      PROVE  ProcedureTypes' /\ ToldInOrder'
  <2>1. /\ ToldInOrder' /\ pending' \in Seq(Event)
        /\ told' \in [Procedure -> Step \cup {NoStep}]
    BY <1>3, WriteTells
  <2>2. UNCHANGED <<agent, path, finished>>
    BY <1>3 DEF Write, LoseWrite
  <2>3. pending[i] \in Event
    BY <1>0 DEF ProcedureTypes, Paths
  <2>4. lost' \subseteq Procedure
    BY <1>0, <1>3, <2>3 DEF Write, LoseWrite, ProcedureTypes, Event
  <2> QED
    BY <1>0, <2>1, <2>2, <2>4 DEF ProcedureTypes, Paths, Route
<1>4. ASSUME NEW h \in Handoff, Switch(h) PROVE ProcedureTypes' /\ ToldInOrder'
  <2>1. UNCHANGED <<told, lost>>
    BY <1>4 DEF Switch
  <2>2. /\ ToldInOrder' /\ Paths' /\ agent' \in Agent
        /\ \A q \in Procedure : /\ Route(q, path'[q]) /\ Route(q, finished'[q])
                                /\ Owner[q] # agent' => path'[q] = <<>> /\ finished'[q] = <<>>
    BY <1>4, SwitchTells
  <2> QED
    BY <1>0, <2>1, <2>2 DEF ProcedureTypes, Route
<1>5. ASSUME NEW h \in Handoff, \/ Prepare(h) \/ Check(h) \/ Commit(h) \/ CommitFails(h)
                                \/ TransferSettles(h)
      PROVE  UNCHANGED <<agent, procedures, log>>
  BY <1>5 DEF Prepare, Check, Commit, CommitFails, TransferSettles
<1>6. ASSUME NEW q \in Request, TimeOut(q) \/ \E a \in Agent : Ask(q, a)
      PROVE  UNCHANGED <<agent, procedures, log>>
  BY <1>6 DEF TimeOut, Ask
<1>7. ASSUME BargeIn \/ Listen \/ Acknowledge \/ RowEnds \/ PipelineEnds
      PROVE  UNCHANGED <<agent, procedures, log>>
  BY <1>7 DEF BargeIn, Listen, Acknowledge, RowEnds, PipelineEnds
<1>8. ASSUME \/ \E k \in Skill : LoadSkill(k)
             \/ \E h \in ToolCall, a \in Agent : AskTool(h, a)
      PROVE  UNCHANGED <<agent, procedures, log>>
  BY <1>8 DEF LoadSkill, AskTool
<1>9. CASE UNCHANGED vars
  BY <1>1, <1>9 DEF vars
<1> QED
  BY <1>1, <1>2, <1>3, <1>4, <1>5, <1>6, <1>7, <1>8, <1>9 DEF Next

\* A handoff that begins is to an agent, or is a transfer.
LEMMA BeginToAgent ==
  ASSUME ToAgent, HandoffTypes, NEW h \in Handoff, NEW x \in Agent \cup {Transfer}, Begin(h, x)
  PROVE  ToAgent'
<1>1. /\ at' = [at EXCEPT ![h] = IF x = Transfer THEN "transferring" ELSE "preparing"]
      /\ to' = [to EXCEPT ![h] = x]
  BY DEF Begin
<1> QED
  BY <1>1 DEF ToAgent, HandoffTypes, UnderWay

LEMMA ToAgentStep == ASSUME AgentInv, HandoffInv, [Next]_vars PROVE ToAgent'
<1>0. ToAgent /\ HandoffTypes
  BY DEF AgentInv, HandoffInv
<1>1. ASSUME UNCHANGED <<at, to>> PROVE ToAgent'
  BY <1>0, <1>1 DEF ToAgent, UnderWay
<1>2. ASSUME NEW p \in Procedure, NEW s \in Step, Move(p, s) PROVE ToAgent'
  <2>1. CASE s \in Escalate
    BY <1>0, <1>2, <2>1, BeginToAgent DEF Move
  <2>2. CASE s \notin Escalate
    BY <1>1, <1>2, <2>2 DEF Move
  <2> QED
    BY <2>1, <2>2
<1>3. ASSUME NEW h \in ToolCall, NEW a \in Agent, AskTool(h, a) PROVE ToAgent'
  BY <1>0, <1>3, BeginToAgent DEF AskTool
<1>4. ASSUME NEW h \in Handoff, \/ Prepare(h) \/ Check(h) \/ Commit(h) \/ CommitFails(h)
                                \/ Switch(h) \/ TransferSettles(h)
      PROVE  ToAgent'
  <2>1. /\ to' = to
        /\ \A g \in Handoff : at'[g] # at[g] =>
             g = h /\ (UnderWay(h) \/ at'[h] \in {"switched", "refused"})
    BY <1>0, <1>4 DEF Prepare, Check, Commit, CommitFails, Switch, TransferSettles, Becomes,
       Committed, UnderWay, HandoffTypes
  <2> QED
    BY <1>0, <2>1 DEF ToAgent, UnderWay
<1>5. ASSUME NEW q \in Request, NEW a \in Agent, Ask(q, a) PROVE ToAgent'
  <2>1. /\ to' = [to EXCEPT ![q] = a] /\ q \in Handoff
        /\ \A h \in Handoff \ {q} : at'[h] = at[h]
    BY <1>0, <1>5 DEF Ask, HandoffTypes
  <2> QED
    BY <1>0, <2>1 DEF ToAgent, UnderWay, HandoffTypes
<1>6. CASE BargeIn \/ PipelineEnds
  <2>1. to' = to /\ \A h \in Handoff : at'[h] \in {at[h], "cut"}
    BY <1>0, <1>6 DEF BargeIn, PipelineEnds, HandoffTypes
  <2> QED
    BY <1>0, <2>1 DEF ToAgent, UnderWay
<1>7. CASE Listen
  <2>1. Head(inbox) \in Request
    BY <1>0, <1>7 DEF Listen, HandoffTypes
  <2>2. to[Head(inbox)] \in Agent \cup {Transfer} /\ Begin(Head(inbox), to[Head(inbox)])
    BY <1>0, <1>7, <2>1 DEF Listen, HandoffTypes
  <2> QED
    BY <1>0, <2>1, <2>2, BeginToAgent
<1>8. ASSUME \/ \E i \in DOMAIN pending : Write(i) \/ LoseWrite(i)
             \/ \E k \in Skill : LoadSkill(k)
             \/ \E q \in Request : TimeOut(q)
             \/ Acknowledge \/ RowEnds \/ UNCHANGED vars
      PROVE  UNCHANGED <<at, to>>
  BY <1>8 DEF Write, LoseWrite, LoadSkill, TimeOut, Acknowledge, RowEnds, vars
<1> QED
  BY <1>1, <1>2, <1>3, <1>4, <1>5, <1>6, <1>7, <1>8 DEF Next

\* The skills, the record and the counts.
RestTypes ==
  /\ record \in Agent /\ made \in Nat /\ faults \in Nat
  /\ skills \in [of : {agent}, loaded : Seq(Available[agent])] /\ Len(skills.loaded) <= Cap

LEMMA RestStep == ASSUME AgentInv, HandoffInv, [Next]_vars PROVE RestTypes'
<1>0. TypeOK /\ RestTypes
  BY DEF AgentInv, TypeOK, RestTypes
<1>1. ASSUME UNCHANGED <<skills, agent, record>>, made' \in Nat, faults' \in Nat
      PROVE  RestTypes'
  BY <1>0, <1>1 DEF RestTypes
<1>2. ASSUME NEW k \in Skill, LoadSkill(k) PROVE RestTypes'
  <2> DEFINE V == Available[agent]
             l == skills.loaded
             more == Append(l, k)
             new == IF Len(more) > Cap THEN Tail(more) ELSE more
  <2>1. /\ skills \in [of : {agent}, loaded : Seq(V)] /\ Len(l) <= Cap
        /\ UNCHANGED <<agent, record, faults>> /\ made' = made + 1
    BY <1>0, <1>2 DEF LoadSkill, RestTypes
  <2>2. l \in Seq(V) /\ k \in V /\ skills' = [of |-> agent, loaded |-> new]
    BY <1>2, <2>1 DEF LoadSkill
  <2> HIDE DEF V, l
  <2>3. Len(l) \in Nat /\ more \in Seq(V) /\ Len(more) = Len(l) + 1 /\ more # <<>>
    BY <2>2, AppendProperties, LenProperties
  <2> HIDE DEF more
  <2>4. Tail(more) \in Seq(V) /\ Len(Tail(more)) = Len(more) - 1
    BY <2>3, HeadTailProperties
  <2>5. new \in Seq(V) /\ Len(new) <= Cap
    BY <2>1, <2>3, <2>4
  <2> HIDE DEF new
  <2> QED
    BY <1>0, <2>1, <2>2, <2>5 DEF RestTypes, V
<1>3. ASSUME NEW h \in Handoff, Switch(h) PROVE RestTypes'
  <2>1. /\ to[h] \in Agent /\ agent' = to[h] /\ UNCHANGED <<record, made, faults>>
        /\ skills' = [of |-> to[h], loaded |-> <<>>]
    BY <1>3 DEF Switch, Committed, AgentInv, ToAgent, UnderWay
  <2> QED
    BY <1>0, <2>1 DEF RestTypes
<1>4. ASSUME NEW h \in Handoff, Commit(h) \/ CommitFails(h) PROVE RestTypes'
  <2>1. /\ to[h] \in Agent /\ record' \in {record, to[h]} /\ faults' \in Nat
        /\ UNCHANGED <<agent, skills, made>>
    BY <1>0, <1>4 DEF Commit, CommitFails, AgentInv, ToAgent, UnderWay, RestTypes
  <2> QED
    BY <1>0, <2>1 DEF RestTypes
<1>5. ASSUME \/ \E p \in Procedure, s \in Step : Move(p, s)
             \/ \E i \in DOMAIN pending : Write(i) \/ LoseWrite(i)
             \/ \E h \in ToolCall, a \in Agent : AskTool(h, a)
             \/ \E h \in Handoff : Prepare(h) \/ Check(h) \/ TransferSettles(h)
      PROVE  UNCHANGED <<skills, agent, record>> /\ made' \in Nat /\ faults' \in Nat
  <2>1. UNCHANGED <<skills, agent, record>>
    BY <1>5 DEF Move, Write, LoseWrite, AskTool, Prepare, Check, TransferSettles
  <2>2. made' \in {made, made + 1} /\ faults' \in {faults, faults + 1}
    BY <1>5 DEF Move, Write, LoseWrite, AskTool, Prepare, Check, TransferSettles
  <2> QED
    BY <1>0, <2>1, <2>2 DEF RestTypes
<1>6. ASSUME \/ \E q \in Request : TimeOut(q) \/ \E a \in Agent : Ask(q, a)
             \/ BargeIn \/ Listen \/ Acknowledge \/ RowEnds \/ PipelineEnds \/ UNCHANGED vars
      PROVE  UNCHANGED <<skills, agent, record>> /\ made' \in Nat /\ faults' \in Nat
  BY <1>0, <1>6 DEF RestTypes, TimeOut, Ask, BargeIn, Listen, Acknowledge, RowEnds,
     PipelineEnds, vars
<1> QED
  BY <1>1, <1>2, <1>3, <1>4, <1>5, <1>6 DEF Next

\* Every variable has its type, a procedure's path follows its graph and belongs to the
\* agent the pipeline runs, and the events on their way say where it stands.
THEOREM ToldInOrderHolds == Spec => []AgentInv
<1>1. Init => AgentInv
  <2> SUFFICES ASSUME Init PROVE AgentInv
    OBVIOUS
  <2>1. /\ agent = First /\ record = First /\ path = RunsOf(First)
        /\ finished = FinishedOf(First) /\ pending = StartEvents(First) /\ lost = {}
        /\ told = [p \in Procedure |-> NoStep] /\ made = 0 /\ faults = 0
        /\ skills = [of |-> First, loaded |-> <<>>]
    BY DEF Init
  <2>2. pending \in Seq(Event)
    BY <2>1, StartsWritten
  <2>3. ProcedureTypes
    BY <2>1, <2>2, StartsStand DEF ProcedureTypes, Paths
  <2>4. RestTypes
    BY <2>1 DEF RestTypes
  <2>5. ToldInOrder
    <3> SUFFICES ASSUME NEW p \in Procedure, NEW x \in StandsAt(p) PROVE WillTell(p, x)
      BY DEF ToldInOrder
    <3>1. p \in StartsOf(First) /\ x = StartStep[p]
      BY <2>1, StartsStand DEF StandsAt
    <3>2. PICK i \in DOMAIN pending : pending[i] = Reached(p, x)
      BY <2>1, <3>1, StartsWritten
    <3>3. i \in EventsOf(p)
      BY <3>2 DEF EventsOf, Reached
    <3>4. \A j \in EventsOf(p) : pending[j] = Reached(p, x)
      <4> SUFFICES ASSUME NEW j \in EventsOf(p) PROVE pending[j] = Reached(p, x)
        OBVIOUS
      <4>1. j \in DOMAIN StartEvents(First) /\ pending[j].procedure = p
        BY <2>1 DEF EventsOf
      <4>2. PICK q \in StartsOf(First) : pending[j] = Reached(q, StartStep[q])
        BY <2>1, <4>1, StartsWritten
      <4> QED
        BY <3>1, <4>1, <4>2 DEF Reached
    <3> QED
      BY <3>3, <3>4 DEF WillTell
  <2>6. HandoffTypes /\ ToAgent
    <3>1. at = [h \in Handoff |-> "idle"] /\ inbox = <<>>
      BY DEF Init
    <3>2. ToAgent
      BY <3>1 DEF ToAgent, UnderWay
    <3>3. at \in [Handoff -> Stage] /\ inbox \in Seq(Request)
      BY <3>1 DEF Stage
    <3> QED
      BY <3>2, <3>3 DEF Init, HandoffTypes, Answer
  <2> QED
    BY <2>3, <2>4, <2>5, <2>6 DEF AgentInv, TypeOK, ProcedureTypes, Paths, RestTypes,
       HandoffTypes
<1>2. HandoffInv /\ HandoffInv' /\ AgentInv /\ [Next]_vars => AgentInv'
  <2> SUFFICES ASSUME HandoffInv, HandoffInv', AgentInv, [Next]_vars PROVE AgentInv'
    OBVIOUS
  <2>1. ProcedureTypes' /\ ToldInOrder' /\ ToAgent' /\ RestTypes'
    BY ProceduresStep, ToAgentStep, RestStep
  <2>2. HandoffTypes'
    BY DEF HandoffInv
  <2> QED
    BY <2>1, <2>2 DEF AgentInv, TypeOK, ProcedureTypes, Paths, RestTypes, HandoffTypes
<1> QED
  BY <1>1, <1>2, HandoffsAgree, PTL DEF Spec

\* Every variable has its type, and what a procedure's path may be.
THEOREM TypeCorrect == Spec => []TypeOK
BY ToldInOrderHolds, PTL DEF AgentInv

\* The summary, read from the events stored, says where every procedure stands or ended.
THEOREM SummaryTellsHolds == Spec => []SummaryTells
<1>1. AgentInv => SummaryTells
  BY ToldIsSummary DEF AgentInv, TypeOK, Paths
<1> QED
  BY <1>1, ToldInOrderHolds, PTL
=============================================================================
