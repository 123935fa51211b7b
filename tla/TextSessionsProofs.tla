--------------------------- MODULE TextSessionsProofs ---------------------------
(***************************************************************************)
(* What TextSessions guarantees for every number of messages, replicas,    *)
(* skills, changes of the setting and faults.                              *)
(*                                                                         *)
(* Of redaction, one inductive invariant, SealInv, which ties a session's  *)
(* mark to its status, to the rows the turns on it store and to the sweeps *)
(* that hold it.  Of the skills loaded, by induction over the list a turn  *)
(* reads and over its loads: what its agent lists stays, while there is    *)
(* room.                                                                   *)
(***************************************************************************)
EXTENDS TextSessions, Induction, SequenceTheorems, TLAPS

USE TextSessionsAssumption
USE DEF policy, sessions, turns, sweeps, Role, Message, MaybeSession, Stage

\* The part of the types these arguments need.
SealTypes == /\ redacting \in BOOLEAN /\ toggles \in Nat
             /\ status \in [Turn -> {"none", "active", "expired"}]
             /\ mark \in [Turn -> {"none", "pending", "done"}]
             /\ RowTypes
             /\ at \in [Turn -> Stage] /\ on = [t \in Turn |-> on[t]]
             /\ todo \in [Replica -> SUBSET Turn]
             /\ sealing \in [Replica -> MaybeSession]
             /\ texts \in [Replica -> SUBSET Message]

\* A turn that has stored nothing has no rows and has opened no session.
Early(t) == at[t] \in {"waiting", "found", "resolved"}
TurnsInv ==
  \A t \in Turn : Early(t) =>
    status[t] = "none" /\ \A m \in Message : m[1] = t => row[m] = "absent"

\* A mark is on an ended session, and so is a sweep, which has read its rows only.
SweepsInv ==
  /\ \A s \in Turn : mark[s] # "none" => status[s] = "expired"
  /\ \A r \in Replica : /\ \A s \in todo[r] : status[s] = "expired"
                        /\ sealing[r] # NoSession => status[sealing[r]] = "expired"
                        /\ \A m \in texts[r] : row[m] # "absent" /\ on[m[1]] = sealing[r]
                        /\ sealing[r] = NoSession => texts[r] = {}

\* What is rewritten was on an ended session; a session marked rewritten has nothing raw.
RowsInv ==
  /\ \A m \in Message : row[m] = "done" => on[m[1]] \in Turn /\ status[on[m[1]]] = "expired"
  /\ \A m \in Message : row[m] = "raw" /\ on[m[1]] \in Turn => mark[on[m[1]]] # "done"

\* While the project redacts all along, no session ends unmarked.
MarkedInv == redacting /\ toggles = 0 => \A s \in Turn : status[s] = "expired" => mark[s] # "none"

SealInv == SealTypes /\ TurnsInv /\ SweepsInv /\ RowsInv /\ MarkedInv

LEMMA SealInit == Init => SealInv
<1> SUFFICES ASSUME Init PROVE SealInv
  OBVIOUS
<1>1. SealTypes
  BY DEF Init, SealTypes, RowTypes
<1>2. TurnsInv /\ SweepsInv /\ RowsInv /\ MarkedInv
  BY DEF Init, TurnsInv, Early, SweepsInv, RowsInv, MarkedInv
<1> QED
  BY <1>1, <1>2 DEF SealInv

\* Ending sessions marks them while the project redacts, and reaches nothing else.
LEMMA ExpireKeeps ==
  ASSUME SealInv, NEW ss \in SUBSET Turn, Expire(ss),
         UNCHANGED <<redacting, toggles, row, at, on, todo, sealing, texts>>
  PROVE  SealInv'
<1>1. /\ status' \in [Turn -> {"none", "active", "expired"}]
      /\ mark' \in [Turn -> {"none", "pending", "done"}]
      /\ \A s \in Turn : \/ status'[s] = status[s] /\ mark'[s] = mark[s]
                         \/ /\ status[s] = "active" /\ status'[s] = "expired"
                            /\ mark'[s] = IF redacting THEN "pending" ELSE mark[s]
  BY DEF Expire, EndedMark, SealInv, SealTypes
<1>2. SealTypes'
  BY <1>1 DEF SealInv, SealTypes, RowTypes
<1>3. TurnsInv' /\ MarkedInv'
  BY <1>1 DEF SealInv, SealTypes, TurnsInv, Early, MarkedInv
<1>4. SweepsInv'
  BY <1>1 DEF SealInv, SealTypes, SweepsInv
<1>5. RowsInv'
  BY <1>1 DEF SealInv, SealTypes, SweepsInv, RowsInv
<1> QED
  BY <1>2, <1>3, <1>4, <1>5 DEF SealInv

\* A turn that chooses its session, or that gives up.
LEMMA ChooseKeeps ==
  ASSUME SealInv, NEW t \in Turn, Arrive(t) \/ AskCallInit(t) \/ Resolve(t) \/ Drop(t)
  PROVE  SealInv'
<1>1. /\ UNCHANGED <<redacting, toggles, status, mark, row, todo, sealing, texts>>
      /\ at' \in [Turn -> Stage] /\ \A q \in Turn \ {t} : at'[q] = at[q]
      /\ on' = [q \in Turn |-> on'[q]] /\ \A q \in Turn \ {t} : on'[q] = on[q]
      /\ on'[t] = on[t] \/ Early(t)
      /\ Early(t)' => Early(t)
  <2>1. CASE Arrive(t) \/ AskCallInit(t)
    BY <2>1 DEF Arrive, AskCallInit, Early, SealInv, SealTypes
  <2>2. CASE Resolve(t)
    BY <2>2 DEF Resolve, Early, SealInv, SealTypes
  <2>3. CASE Drop(t)
    BY <2>3 DEF Drop, Early, SealInv, SealTypes
  <2> QED
    BY <2>1, <2>2, <2>3
<1>2. \A m \in Message : m[1] \in Turn /\ (on'[m[1]] = on[m[1]] \/ row[m] = "absent")
  BY <1>1 DEF SealInv, TurnsInv
<1>3. SealTypes' /\ MarkedInv'
  BY <1>1 DEF SealInv, SealTypes, RowTypes, MarkedInv
<1>4. TurnsInv'
  BY <1>1 DEF SealInv, TurnsInv, Early
<1>5. SweepsInv' /\ RowsInv'
  BY <1>1, <1>2 DEF SealInv, SealTypes, SweepsInv, RowsInv
<1> QED
  BY <1>3, <1>4, <1>5 DEF SealInv

\* A turn that stores its message: on a session it opens in place of a stale one, or on
\* one that may have ended and been rewritten meanwhile.
LEMMA StoreKeeps == ASSUME SealInv, NEW t \in Turn, Store(t) PROVE SealInv'
<1> DEFINE m == <<t, "customer">>
           e == replaces[t]
<1>1. /\ at[t] = "resolved" /\ at' = [at EXCEPT ![t] = "stored"]
      /\ row' = [row EXCEPT ![m] = "raw"] /\ m \in Message
      /\ UNCHANGED <<redacting, toggles, on, todo, sealing, texts>>
  BY DEF Store
<1>2. /\ status' \in [Turn -> {"none", "active", "expired"}]
      /\ mark' \in [Turn -> {"none", "pending", "done"}]
      /\ \A s \in Turn :
           \/ /\ status[s] = "active" /\ status'[s] = "expired"
              /\ mark'[s] = IF redacting THEN "pending" ELSE mark[s]
           \/ /\ s = t /\ on[t] = t /\ status'[s] = "active"
              /\ mark'[s] = IF mark[s] = "done" THEN "pending" ELSE mark[s]
           \/ /\ status'[s] = status[s]
              /\ mark'[s] = IF s = on[t] /\ mark[s] = "done" THEN "pending" ELSE mark[s]
  BY DEF Store, EndedMark, MarkReopened, SealInv, SealTypes
<1>3. status[t] = "none" /\ mark[t] = "none"
  BY <1>1 DEF SealInv, TurnsInv, Early, SweepsInv, SealTypes
<1> HIDE DEF e
<1>4. SealTypes'
  BY <1>1, <1>2 DEF SealInv, SealTypes, RowTypes
<1>5. TurnsInv'
  BY <1>1, <1>2, <1>3 DEF SealInv, SealTypes, RowTypes, TurnsInv, Early
<1>6. \A s \in Turn : /\ status[s] = "expired" => status'[s] = "expired"
                      /\ mark'[s] # "none" => status'[s] = "expired"
                      /\ mark'[s] = "done" => mark[s] = "done" /\ s # on[t]
  BY <1>2, <1>3 DEF SealInv, SealTypes, SweepsInv
<1>7. SweepsInv'
  BY <1>1, <1>6 DEF SealInv, SealTypes, RowTypes, SweepsInv
<1>8. RowsInv'
  BY <1>1, <1>6 DEF SealInv, SealTypes, RowTypes, RowsInv
<1>9. MarkedInv'
  BY <1>1, <1>2, <1>3 DEF SealInv, SealTypes, MarkedInv
<1> QED
  BY <1>4, <1>5, <1>7, <1>8, <1>9 DEF SealInv

\* A turn that stores its reply, on a session that may have ended and been rewritten since.
LEMMA ReplyKeeps == ASSUME SealInv, NEW t \in Turn, Reply(t) PROVE SealInv'
<1> DEFINE m == <<t, "assistant">>
<1>1. /\ at[t] = "stored" /\ at' = [at EXCEPT ![t] = "answered"] /\ status' = status
      /\ row' = [row EXCEPT ![m] = "raw"] /\ m \in Message
      /\ mark' = [mark EXCEPT ![on[t]] = MarkReopened(@)]
      /\ UNCHANGED <<redacting, toggles, on, todo, sealing, texts>>
  BY DEF Reply
<1>2. /\ mark' \in [Turn -> {"none", "pending", "done"}]
      /\ \A s \in Turn : mark'[s] = IF s = on[t] /\ mark[s] = "done" THEN "pending" ELSE mark[s]
  BY <1>1 DEF MarkReopened, SealInv, SealTypes
<1>3. SealTypes' /\ TurnsInv'
  BY <1>1, <1>2 DEF SealInv, SealTypes, RowTypes, TurnsInv, Early
<1>4. SweepsInv' /\ MarkedInv'
  BY <1>1, <1>2 DEF SealInv, SealTypes, RowTypes, SweepsInv, MarkedInv
<1>5. RowsInv'
  BY <1>1, <1>2 DEF SealInv, SealTypes, RowTypes, RowsInv
<1> QED
  BY <1>3, <1>4, <1>5 DEF SealInv

\* The sweep's steps that write no message: a claim, the read, letting go, dying.
LEMMA SweepKeeps ==
  ASSUME SealInv, NEW r \in Replica,
         \/ ClaimPending(r) \/ Withhold(r) \/ Crash(r)
         \/ \E s \in Turn : ReadRaw(r, s) \/ ClearPending(r, s)
  PROVE  SealInv'
<1>1. CASE ClaimPending(r)
  <2>1. /\ todo' = [todo EXCEPT ![r] = {s \in Turn : Claimable(s)}]
        /\ UNCHANGED <<redacting, toggles, status, mark, row, at, on, sealing, texts>>
    BY <1>1 DEF ClaimPending
  <2> QED
    BY <2>1 DEF Claimable, SealInv, SealTypes, RowTypes, TurnsInv, Early, SweepsInv, RowsInv,
       MarkedInv
<1>2. CASE Withhold(r) \/ Crash(r)
  <2>1. /\ Leave(r, todo[r])
        /\ UNCHANGED <<redacting, toggles, status, mark, row, at, on>>
    BY <1>2 DEF Withhold, Crash
  <2>2. SealTypes' /\ TurnsInv' /\ RowsInv' /\ MarkedInv'
    BY <2>1 DEF Leave, SealInv, SealTypes, RowTypes, TurnsInv, Early, RowsInv, MarkedInv
  <2>3. SweepsInv'
    BY <2>1 DEF Leave, SealInv, SealTypes, SweepsInv
  <2> QED
    BY <2>2, <2>3 DEF SealInv
<1>3. ASSUME NEW s \in Turn, ReadRaw(r, s) PROVE SealInv'
  <2>1. /\ sealing' = [sealing EXCEPT ![r] = s] /\ texts' = [texts EXCEPT ![r] = RawRows(s)]
        /\ status[s] = "expired" /\ RawRows(s) \subseteq Message
        /\ \A m \in RawRows(s) : row[m] # "absent" /\ on[m[1]] = s
        /\ UNCHANGED <<redacting, toggles, status, mark, row, at, on, todo>>
    BY <1>3 DEF ReadRaw, RawRows, RowsOf, SealInv, SweepsInv
  <2>2. SealTypes' /\ TurnsInv' /\ RowsInv' /\ MarkedInv'
    BY <2>1 DEF SealInv, SealTypes, RowTypes, TurnsInv, Early, RowsInv, MarkedInv
  <2>3. SweepsInv'
    BY <2>1 DEF SealInv, SealTypes, SweepsInv
  <2> QED
    BY <2>2, <2>3 DEF SealInv
<1>4. ASSUME NEW s \in Turn, ClearPending(r, s) PROVE SealInv'
  <2>1. /\ ~redacting /\ mark' = [mark EXCEPT ![s] = "none"] /\ Leave(r, {s})
        /\ UNCHANGED <<redacting, toggles, status, row, at, on>>
    BY <1>4 DEF ClearPending
  <2>2. SealTypes' /\ TurnsInv' /\ MarkedInv'
    BY <2>1 DEF Leave, SealInv, SealTypes, RowTypes, TurnsInv, Early, MarkedInv
  <2>3. SweepsInv' /\ RowsInv'
    BY <2>1 DEF Leave, SealInv, SealTypes, SweepsInv, RowsInv
  <2> QED
    BY <2>2, <2>3 DEF SealInv
<1> QED
  BY <1>1, <1>2, <1>3, <1>4

\* The rewrite: what was read is done, and the mark says whether more was stored since.
LEMMA RewriteKeeps == ASSUME SealInv, NEW r \in Replica, Rewrite(r) PROVE SealInv'
<1> DEFINE s == sealing[r]
<1>1. /\ s # NoSession /\ s \in Turn /\ status[s] = "expired"
      /\ row' = [m \in Message |-> IF m \in texts[r] THEN "done" ELSE row[m]]
      /\ mark' = [mark EXCEPT ![s] = IF RawRows(s) \ texts[r] # {} THEN "pending" ELSE "done"]
      /\ Leave(r, {s})
      /\ UNCHANGED <<redacting, toggles, status, at, on>>
  BY DEF Rewrite, Late, SealInv, SealTypes, SweepsInv
<1>2. \A m \in texts[r] : m \in Message /\ row[m] # "absent" /\ on[m[1]] = s
  BY DEF SealInv, SealTypes, SweepsInv
<1> HIDE DEF s
<1>3. SealTypes'
  BY <1>1 DEF Leave, SealInv, SealTypes, RowTypes
<1>4. TurnsInv'
  BY <1>1, <1>2 DEF SealInv, SealTypes, RowTypes, TurnsInv, Early
<1>5. MarkedInv'
  BY <1>1 DEF SealInv, SealTypes, MarkedInv
<1>6. SweepsInv'
  BY <1>1, <1>2 DEF Leave, SealInv, SealTypes, RowTypes, SweepsInv
<1>7. ASSUME NEW m \in Message, row'[m] = "raw", on[m[1]] \in Turn
      PROVE  mark'[on[m[1]]] # "done"
  <2>1. row[m] = "raw" /\ m \notin texts[r]
    BY <1>1, <1>7
  <2>2. CASE on[m[1]] = s
    BY <1>1, <2>1, <2>2 DEF RawRows, RowsOf, SealInv, SealTypes
  <2>3. CASE on[m[1]] # s
    BY <1>1, <1>7, <2>1, <2>3 DEF SealInv, SealTypes, RowsInv
  <2> QED
    BY <2>2, <2>3
<1>8. RowsInv'
  BY <1>1, <1>2, <1>7 DEF SealInv, RowsInv
<1> QED
  BY <1>3, <1>4, <1>5, <1>6, <1>8 DEF SealInv

LEMMA SealStep == ASSUME SealInv, [Next]_vars PROVE SealInv'
<1>1. CASE UNCHANGED vars \/ ToggleRedaction \/ \E s \in Turn : TtlPasses(s) \/ Lapse(s)
  <2>1. /\ UNCHANGED <<status, mark, row, at, on, todo, sealing, texts>>
        /\ \/ UNCHANGED <<redacting, toggles>>
           \/ redacting' = ~redacting /\ toggles' = toggles + 1
    BY <1>1 DEF vars, ToggleRedaction, TtlPasses, Lapse
  <2>2. TurnsInv' /\ SweepsInv' /\ RowsInv'
    BY <2>1 DEF SealInv, TurnsInv, Early, SweepsInv, RowsInv
  <2>3. redacting' \in BOOLEAN
    BY <2>1 DEF SealInv, SealTypes
  <2>4. toggles' \in Nat /\ (toggles' = 0 => toggles = 0 /\ UNCHANGED redacting)
    BY <2>1 DEF SealInv, SealTypes
  <2>5. SealTypes'
    BY <2>1, <2>3, <2>4 DEF SealInv, SealTypes, RowTypes
  <2>6. MarkedInv'
    BY <2>1, <2>4 DEF SealInv, MarkedInv
  <2> QED
    BY <2>2, <2>5, <2>6 DEF SealInv
<1>2. CASE ExpireStale
  <2>1. Expire(stale \cap Turn)
    BY <1>2 DEF ExpireStale, Expire, SealInv, SealTypes
  <2> QED
    BY <1>2, <2>1, ExpireKeeps DEF ExpireStale
<1>3. ASSUME NEW s \in Turn, DeleteSession(s) PROVE SealInv'
  BY <1>3, ExpireKeeps DEF DeleteSession
<1> QED
  BY <1>1, <1>2, <1>3, ChooseKeeps, StoreKeeps, ReplyKeeps, SweepKeeps, RewriteKeeps
  DEF Next, TurnNext, SweepNext, TimeNext

\* A session's mark agrees with its status, its rows and the sweeps that hold it.
THEOREM SealsAgree == Spec => []SealInv
BY SealInit, SealStep, PTL DEF Spec

\* A session marked rewritten holds no raw row.
THEOREM SealedHasNoRawHolds == Spec => []SealedHasNoRaw
<1>1. SealInv => SealedHasNoRaw
  BY DEF SealInv, RowsInv, SealedHasNoRaw, RawRows, RowsOf
<1> QED
  BY <1>1, SealsAgree, PTL

\* While a project redacts all along, an ended session with a raw row is marked.
THEOREM EndedRawIsMarkedHolds == Spec => []EndedRawIsMarked
<1>1. SealInv => EndedRawIsMarked
  BY DEF SealInv, SealTypes, RowsInv, MarkedInv, EndedRawIsMarked, RawRows, RowsOf
<1> QED
  BY <1>1, SealsAgree, PTL

\* No row of a live session is rewritten.
THEOREM LiveIsRawHolds == Spec => []LiveIsRaw
<1>1. SealInv => LiveIsRaw
  BY DEF SealInv, SealTypes, RowTypes, RowsInv, LiveIsRaw, RawRows, RowsOf
<1> QED
  BY <1>1, SealsAgree, PTL

-----------------------------------------------------------------------------
(* What a session has loaded                                               *)

\* The last of a list: all of it, within the cap.
LEMMA LatestKeeps ==
  ASSUME NEW S, NEW list \in Seq(S), NEW cap \in Nat \ {0}, IsInjective(list)
  PROVE  /\ Latest(list, cap) \in Seq(S) /\ IsInjective(Latest(list, cap))
         /\ Len(Latest(list, cap)) <= cap
         /\ Len(list) >= cap => Len(Latest(list, cap)) = cap
         /\ Len(list) <= cap => ToSet(list) \subseteq ToSet(Latest(list, cap))
<1> DEFINE new == Latest(list, cap)
           first == IF Len(list) > cap THEN Len(list) - cap + 1 ELSE 1
<1>1. /\ Len(list) \in Nat /\ DOMAIN list = 1..Len(list)
      /\ \A i \in 1..Len(list) : list[i] \in S
      /\ \A i, j \in 1..Len(list) : list[i] = list[j] => i = j
  BY LenProperties DEF IsInjective
<1>2. new = SubSeq(list, first, Len(list))
  BY DEF Latest
<1> HIDE DEF new
<1>3. first \in Int /\ first >= 1 /\ \A i \in first..Len(list) : list[i] \in S
  BY <1>1
<1>4. /\ Len(list) > cap => first = Len(list) - cap + 1
      /\ Len(list) <= cap => first = 1
  BY <1>1
<1> HIDE DEF first
<1>5. /\ new \in Seq(S)
      /\ Len(new) = IF first <= Len(list) THEN Len(list) - first + 1 ELSE 0
      /\ \A i \in 1..(Len(list) - first + 1) : new[i] = list[first + i - 1]
  BY <1>1, <1>2, <1>3, SubSeqProperties
<1>6. /\ Len(list) > cap => Len(new) = cap
      /\ Len(list) <= cap => Len(new) = Len(list)
  BY <1>1, <1>4, <1>5
<1>7. IsInjective(new)
  <2>1. DOMAIN new = 1..Len(new)
    BY <1>5, LenProperties
  <2>2. ASSUME NEW i \in 1..Len(new), NEW j \in 1..Len(new), new[i] = new[j] PROVE i = j
    <3>1. /\ i \in 1..(Len(list) - first + 1) /\ j \in 1..(Len(list) - first + 1)
          /\ first + i - 1 \in 1..Len(list) /\ first + j - 1 \in 1..Len(list)
      BY <1>1, <1>3, <1>5
    <3>2. first + i - 1 = first + j - 1
      BY <1>1, <1>5, <2>2, <3>1
    <3> QED
      BY <1>3, <3>2
  <2> QED
    BY <2>1, <2>2 DEF IsInjective
<1>8. ASSUME Len(list) <= cap PROVE ToSet(list) \subseteq ToSet(new)
  <2>1. first = 1 /\ \A i \in 1..Len(list) : first + i - 1 = i
    BY <1>1, <1>4, <1>8
  <2>2. DOMAIN new = DOMAIN list /\ \A i \in DOMAIN list : new[i] = list[i]
    <3>1. Len(new) = Len(list) /\ \A i \in 1..Len(list) : new[i] = list[i]
      <4>1. Len(list) - first + 1 = Len(list)
        BY <1>1, <2>1
      <4> QED
        BY <1>5, <1>6, <1>8, <2>1, <4>1
    <3>2. DOMAIN new = 1..Len(new)
      BY <1>5, LenProperties
    <3> QED
      BY <1>1, <3>1, <3>2
  <2> QED
    BY <2>2 DEF ToSet
<1> QED
  BY <1>1, <1>5, <1>6, <1>7, <1>8 DEF new

\* A list a skill joined: that skill, and what it held.
LEMMA JoinedKeeps ==
  ASSUME NEW S, NEW list \in Seq(S), NEW k \in S, IsInjective(list)
  PROVE  /\ Joined(list, k) \in Seq(S) /\ IsInjective(Joined(list, k))
         /\ Len(Joined(list, k)) \in Nat /\ Len(Joined(list, k)) >= Len(list)
         /\ ToSet(list) \cup {k} \subseteq ToSet(Joined(list, k))
<1>1. /\ Len(list) \in Nat /\ DOMAIN list = 1..Len(list)
      /\ \A i, j \in 1..Len(list) : list[i] = list[j] => i = j
  BY LenProperties DEF IsInjective
<1>2. CASE Contains(list, k)
  <2>1. Joined(list, k) = list /\ k \in ToSet(list)
    BY <1>1, <1>2 DEF Joined, Contains, ToSet
  <2> QED
    BY <1>1, <2>1
<1>3. CASE ~Contains(list, k)
  <2> DEFINE new == Append(list, k)
  <2>1. /\ new \in Seq(S) /\ Len(new) = Len(list) + 1 /\ new[Len(list) + 1] = k
        /\ \A i \in 1..Len(list) : new[i] = list[i]
    BY AppendProperties
  <2>2. \A i \in 1..Len(list) : list[i] # k
    BY <1>3 DEF Contains
  <2>3. Joined(list, k) = new
    BY <1>3 DEF Joined
  <2> HIDE DEF new
  <2>4. /\ DOMAIN new = 1..Len(new)
        /\ \A i \in 1..Len(new) : i \in 1..Len(list) \/ i = Len(list) + 1
    BY <1>1, <2>1, LenProperties
  <2>5. \A i, j \in 1..Len(new) : new[i] = new[j] => i = j
    BY <1>1, <2>1, <2>2, <2>4
  <2>6. /\ Len(list) + 1 \in DOMAIN new
        /\ \A i \in DOMAIN list : i \in DOMAIN new /\ new[i] = list[i]
    BY <1>1, <2>1, <2>4
  <2>7. ToSet(list) \cup {k} \subseteq ToSet(new)
    BY <2>1, <2>6 DEF ToSet
  <2> QED
    BY <1>1, <2>1, <2>3, <2>4, <2>5, <2>7 DEF IsInjective
<1> QED
  BY <1>2, <1>3

\* What becomes of a list, as new: it keeps to the cap, holds nothing twice, and is full or
\* has lost nothing.
Grows(list, new, cap) ==
  /\ IsInjective(new) /\ Len(new) <= cap
  /\ Len(list) = cap => Len(new) = cap
  /\ Len(new) = cap \/ ToSet(list) \subseteq ToSet(new)

\* So it does by one load.
LEMMA OneLoad ==
  ASSUME NEW S, NEW list \in Seq(S), NEW k \in S, NEW cap \in Nat \ {0}, IsInjective(list)
  PROVE  AfterLoad(list, k, cap) \in Seq(S) /\ Grows(list, AfterLoad(list, k, cap), cap)
<1> DEFINE more == Joined(list, k)
<1>1. /\ more \in Seq(S) /\ IsInjective(more) /\ Len(more) \in Nat /\ Len(more) >= Len(list)
      /\ ToSet(list) \subseteq ToSet(more)
  BY JoinedKeeps
<1> HIDE DEF more
<1> DEFINE new == Latest(more, cap)
<1>2. /\ new \in Seq(S) /\ IsInjective(new) /\ Len(new) <= cap
      /\ Len(more) >= cap => Len(new) = cap
      /\ Len(more) <= cap => ToSet(more) \subseteq ToSet(new)
  BY <1>1, LatestKeeps
<1> HIDE DEF new
<1>3. Len(list) = cap => Len(new) = cap
  BY <1>1, <1>2
<1>4. Len(new) = cap \/ ToSet(list) \subseteq ToSet(new)
  BY <1>1, <1>2
<1>5. AfterLoad(list, k, cap) = new
  BY DEF AfterLoad, more, new
<1> QED
  BY <1>2, <1>3, <1>4, <1>5 DEF Grows

\* A stored list read: of the skills available, those it names and no other, none twice.
LEMMA ReadsKeep ==
  ASSUME NEW S, NEW list \in Seq(S), NEW available
  PROVE  LET read == Reads(list, available)[Len(list)]
         IN /\ read \in Seq(S \cap available) /\ IsInjective(read)
            /\ ToSet(list) \cap available \subseteq ToSet(read)
<1> DEFINE A == S \cap available
           D == {read \in Seq(A) : IsInjective(read)}
           op == [x \in D \X S |-> IF x[2] \in available THEN Joined(x[1], x[2]) ELSE x[1]]
           g == Reads(list, available)
           Kept(n) == /\ g[n] \in D
                      /\ \A i \in 1..n : list[i] \in available => list[i] \in ToSet(g[n])
           T == {n \in Nat : n <= Len(list) => Kept(n)}
<1>1. ASSUME NEW read \in D, NEW k \in A
      PROVE  Joined(read, k) \in D /\ ToSet(read) \cup {k} \subseteq ToSet(Joined(read, k))
  <2>1. read \in Seq(A) /\ IsInjective(read)
    OBVIOUS
  <2> HIDE DEF A
  <2> QED
    BY <2>1, JoinedKeeps
<1>2. <<>> \in D
  BY DEF IsInjective
<1>3. /\ Len(list) \in Nat /\ DOMAIN list = 1..Len(list)
      /\ \A n \in 1..Len(list) : list[n] \in S
  BY LenProperties
<1>4. \A read \in D, k \in S :
        op[<<read, k>>] = IF k \in available THEN Joined(read, k) ELSE read
  OBVIOUS
<1>5. \A read \in D, k \in S : op[<<read, k>>] \in D
  <2> HIDE DEF D, op
  <2> QED
    BY <1>1, <1>4 DEF A
<1> HIDE DEF D, op
<1>6. PICK f \in [0..Len(list) -> D] : Goes(f, <<>>, op, list, Len(list))
  BY <1>2, <1>5, GoneThrough
<1>7. f = [n \in 0..Len(list) |->
             IF n = 0 THEN <<>>
             ELSE IF list[n] \in available THEN Joined(f[n - 1], list[n]) ELSE f[n - 1]]
  <2>1. ASSUME NEW n \in 0..Len(list), n # 0
        PROVE  f[n] = IF list[n] \in available THEN Joined(f[n - 1], list[n]) ELSE f[n - 1]
    <3>1. n - 1 \in 0..Len(list) /\ n \in 1..Len(list)
      BY <1>3, <2>1
    <3> QED
      BY <1>3, <1>4, <1>6, <3>1 DEF Goes
  <2> QED
    BY <1>6, <2>1 DEF Goes
<1>8. g = [n \in 0..Len(list) |->
             IF n = 0 THEN <<>>
             ELSE IF list[n] \in available THEN Joined(g[n - 1], list[n]) ELSE g[n - 1]]
  BY <1>7 DEF Reads
<1> HIDE DEF g
<1>9. 0 \in T
  BY <1>2, <1>3, <1>8
<1>10. ASSUME NEW n \in Nat, n \in T PROVE n + 1 \in T
  <2> SUFFICES ASSUME n + 1 <= Len(list) PROVE Kept(n + 1)
    OBVIOUS
  <2>1. /\ Kept(n) /\ n + 1 \in 0..Len(list) /\ n + 1 # 0 /\ n + 1 \in 1..Len(list)
        /\ (n + 1) - 1 = n /\ \A i \in 1..(n + 1) : i \in 1..n \/ i = n + 1
    BY <1>3, <1>10
  <2>2. /\ list[n + 1] \in S
        /\ g[n + 1] = IF list[n + 1] \in available THEN Joined(g[n], list[n + 1]) ELSE g[n]
    BY <1>3, <1>8, <2>1
  <2>3. CASE list[n + 1] \in available
    <3>1. /\ g[n + 1] \in D
          /\ ToSet(g[n]) \cup {list[n + 1]} \subseteq ToSet(g[n + 1])
      BY <1>1, <2>1, <2>2, <2>3
    <3> QED
      BY <2>1, <3>1
  <2>4. CASE list[n + 1] \notin available
    BY <2>1, <2>2, <2>4
  <2> QED
    BY <2>3, <2>4
<1>11. Kept(Len(list))
  <2>1. Len(list) \in T
    <3> HIDE DEF T
    <3> QED
      BY <1>3, <1>9, <1>10, NatSetInduction
  <2> QED
    BY <1>3, <2>1
<1>12. ToSet(list) \cap available \subseteq ToSet(g[Len(list)])
  BY <1>3, <1>11 DEF ToSet
<1> QED
  BY <1>11, <1>12 DEF D, g

\* So does the list a turn holds, within its cap.
LEMMA HeldKeeps ==
  ASSUME NEW S, NEW list \in Seq(S), NEW available, NEW cap \in Nat \ {0}
  PROVE  LET held == Held(list, available, cap)
         IN /\ held \in Seq(S) /\ IsInjective(held) /\ Len(held) <= cap
            /\ Len(held) = cap \/ ToSet(list) \cap available \subseteq ToSet(held)
<1> DEFINE read == Reads(list, available)[Len(list)]
<1>1. /\ read \in Seq(S \cap available) /\ IsInjective(read)
      /\ ToSet(list) \cap available \subseteq ToSet(read)
  BY ReadsKeep
<1> HIDE DEF read
<1>2. read \in Seq(S) /\ Len(read) \in Nat
  BY <1>1, SeqMonotonic, LenProperties
<1> DEFINE held == Latest(read, cap)
<1>3. /\ held \in Seq(S) /\ IsInjective(held) /\ Len(held) <= cap
      /\ Len(read) >= cap => Len(held) = cap
      /\ Len(read) <= cap => ToSet(read) \subseteq ToSet(held)
  BY <1>1, <1>2, LatestKeeps
<1>4. Held(list, available, cap) = held
  BY DEF Held, read
<1> HIDE DEF held
<1>5. Len(held) = cap \/ ToSet(list) \cap available \subseteq ToSet(held)
  BY <1>1, <1>2, <1>3
<1> QED
  BY <1>3, <1>4, <1>5

\* A turn's loads, one after the other: what the cap leaves room for is still there.
LEMMA ReplaysKeep ==
  ASSUME NEW S, NEW held \in Seq(S), NEW loads \in Seq(S), NEW cap \in Nat \ {0},
         IsInjective(held), Len(held) <= cap
  PROVE  LET new == Replays(held, loads, cap)[Len(loads)]
         IN new \in Seq(S) /\ Grows(held, new, cap)
<1> DEFINE D == {list \in Seq(S) : IsInjective(list) /\ Len(list) <= cap}
           op == [x \in D \X S |-> AfterLoad(x[1], x[2], cap)]
           g == Replays(held, loads, cap)
           Kept(list) == list \in Seq(S) /\ Grows(held, list, cap)
           T == {n \in Nat : n <= Len(loads) => Kept(g[n])}
<1>1. ASSUME NEW list \in D, NEW k \in S
      PROVE  AfterLoad(list, k, cap) \in D
  BY <1>1, OneLoad DEF Grows
<1>3. held \in D /\ Len(loads) \in Nat /\ \A n \in 1..Len(loads) : loads[n] \in S
  BY LenProperties
<1>4. \A list \in D, k \in S : op[<<list, k>>] = AfterLoad(list, k, cap)
  OBVIOUS
<1>2. \A list \in D, k \in S : op[<<list, k>>] \in D
  BY <1>1, <1>4
<1> HIDE DEF D, op
<1>5. PICK f \in [0..Len(loads) -> D] :
        Goes(f, held, op, loads, Len(loads))
  BY <1>2, <1>3, GoneThrough
<1>6. f = [n \in 0..Len(loads) |-> IF n = 0 THEN held
                                     ELSE AfterLoad(f[n - 1], loads[n], cap)]
  <2>1. ASSUME NEW n \in 0..Len(loads), n # 0
        PROVE  f[n] = AfterLoad(f[n - 1], loads[n], cap)
    <3>1. n - 1 \in 0..Len(loads) /\ n \in 1..Len(loads)
      BY <1>3, <2>1
    <3> QED
      BY <1>3, <1>4, <1>5, <3>1 DEF Goes
  <2> QED
    BY <1>5, <2>1 DEF Goes
<1>7. g = [n \in 0..Len(loads) |-> IF n = 0 THEN held
                                     ELSE AfterLoad(g[n - 1], loads[n], cap)]
  BY <1>6 DEF Replays
<1> HIDE DEF g
<1>8. 0 \in T
  <2>1. g[0] = held
    BY <1>3, <1>7
  <2> QED
    BY <1>3, <2>1 DEF Grows
<1>9. ASSUME NEW n \in Nat, n \in T PROVE n + 1 \in T
  <2> SUFFICES ASSUME n + 1 <= Len(loads) PROVE Kept(g[n + 1])
    OBVIOUS
  <2>1. /\ Kept(g[n]) /\ n + 1 \in 0..Len(loads) /\ n + 1 # 0 /\ n + 1 \in 1..Len(loads)
        /\ (n + 1) - 1 = n
    BY <1>3, <1>9
  <2>2. g[n + 1] = AfterLoad(g[n], loads[n + 1], cap) /\ loads[n + 1] \in S
    BY <1>3, <1>7, <2>1
  <2>3. g[n] \in Seq(S) /\ Grows(held, g[n], cap) /\ IsInjective(g[n])
    BY <2>1 DEF Grows
  <2>4. /\ AfterLoad(g[n], loads[n + 1], cap) \in Seq(S)
        /\ Grows(g[n], AfterLoad(g[n], loads[n + 1], cap), cap)
    BY <2>2, <2>3, OneLoad
  <2> QED
    BY <2>2, <2>3, <2>4 DEF Grows
<1>10. Len(loads) \in T
  <2> HIDE DEF T
  <2> QED
    BY <1>3, <1>8, <1>9, NatSetInduction
<1>11. Kept(g[Len(loads)])
  BY <1>3, <1>10
<1> QED
  BY <1>11 DEF g

\* And onto a stored list: what its turn has available and the cap leaves room for stays.
LEMMA ReplayKeeps ==
  ASSUME NEW S, NEW list \in Seq(S), NEW loads \in Seq(S), NEW available, NEW cap \in Nat \ {0},
         IsInjective(list)
  PROVE  LET new == Replay(list, loads, available, cap)
         IN /\ new \in Seq(S) /\ IsInjective(new)
            /\ \/ new = list
               \/ /\ Len(new) <= cap
                  /\ Len(new) = cap \/ ToSet(list) \cap available \subseteq ToSet(new)
<1>1. CASE loads = <<>>
  BY <1>1 DEF Replay
<1>2. CASE loads # <<>>
  <2> DEFINE held == Held(list, available, cap)
             new == Replays(held, loads, cap)[Len(loads)]
  <2>1. /\ held \in Seq(S) /\ IsInjective(held) /\ Len(held) <= cap
        /\ Len(held) = cap \/ ToSet(list) \cap available \subseteq ToSet(held)
    BY HeldKeeps
  <2> HIDE DEF held
  <2>2. new \in Seq(S) /\ Grows(held, new, cap)
    BY <2>1, ReplaysKeep
  <2>3. Replay(list, loads, available, cap) = new
    BY <1>2 DEF Replay, held
  <2> HIDE DEF new
  <2> QED
    BY <2>1, <2>2, <2>3 DEF Grows
<1> QED
  BY <1>1, <1>2

\* No other step than a reply touches what is loaded.
LEMMA OnlyReplyLoads ==
  ASSUME [Next]_vars, \A t \in Turn : ~Reply(t) PROVE UNCHANGED skills
<1>1. ASSUME NEW t \in Turn, Arrive(t) \/ AskCallInit(t) \/ Resolve(t) \/ Store(t) \/ Drop(t)
      PROVE  UNCHANGED skills
  BY <1>1 DEF Arrive, AskCallInit, Resolve, Store, Drop
<1>2. ASSUME NEW r \in Replica, ClaimPending(r) \/ Rewrite(r) \/ Withhold(r) \/ Crash(r)
      PROVE  UNCHANGED skills
  BY <1>2 DEF ClaimPending, Rewrite, Withhold, Crash
<1>3. ASSUME NEW r \in Replica, NEW s \in Turn, ReadRaw(r, s) \/ ClearPending(r, s)
      PROVE  UNCHANGED skills
  BY <1>3 DEF ReadRaw, ClearPending
<1>4. ASSUME NEW s \in Turn, DeleteSession(s) \/ TtlPasses(s) \/ Lapse(s)
      PROVE  UNCHANGED skills
  BY <1>4 DEF DeleteSession, TtlPasses, Lapse
<1>5. CASE ExpireStale \/ ToggleRedaction \/ UNCHANGED vars
  BY <1>5 DEF ExpireStale, ToggleRedaction, vars, sessions
<1> QED
  BY <1>1, <1>2, <1>3, <1>4, <1>5 DEF Next, TurnNext, SweepNext, TimeNext

LoadedTypes ==
  /\ resolved \in [Turn -> SUBSET Skill] /\ skips \in Nat
  /\ loaded \in [Turn -> Seq(Skill)]
  /\ \A s \in Turn : /\ loaded[s] \in Seq(resolved[s]) /\ IsInjective(loaded[s])
                     /\ \E t \in Turn : Len(loaded[s]) <= Cap[t]

\* What a step unloads, a reply does, for a reason.
UnloadsForCause ==
  \A s \in Turn : \A k \in ToSet(loaded[s]) \ ToSet(loaded'[s]) :
    \E t \in Turn : /\ on[t] = s /\ at[t] = "stored" /\ at'[t] = "answered"
                    /\ k \notin Listed[t] \/ Len(loaded'[s]) = Cap[t]

\* What a turn loads on its session s, of which its resolution is known.
LEMMA LoadKeeps ==
  ASSUME LoadedTypes, NEW t \in Turn, NEW s \in Turn, LoadSkills(t, s)
  PROVE  /\ LoadedTypes'
         /\ \A q \in Turn \ {s} : loaded'[q] = loaded[q]
         /\ \A k \in ToSet(loaded[s]) \ ToSet(loaded'[s]) :
              k \notin Listed[t] \/ Len(loaded'[s]) = Cap[t]
<1>1. CASE skips' = skips + 1 /\ UNCHANGED <<resolved, loaded>>
  <2>1. LoadedTypes'
    BY <1>1 DEF LoadedTypes
  <2> QED
    BY <1>1, <2>1
<1>2. ASSUME NEW known \in Resolutions(s), NEW asked \in Wants[t],
             resolved' = [resolved EXCEPT ![s] = known], skips' = skips,
             loaded' = [loaded EXCEPT ![s] =
               Replay(@, Reads(asked, Listed[t] \cap known)[Len(asked)], Listed[t] \cap known,
                      Cap[t])]
      PROVE  /\ LoadedTypes'
             /\ \A q \in Turn \ {s} : loaded'[q] = loaded[q]
             /\ \A k \in ToSet(loaded[s]) \ ToSet(loaded'[s]) :
                  k \notin Listed[t] \/ Len(loaded'[s]) = Cap[t]
  <2> DEFINE available == Listed[t] \cap known
             loads == Reads(asked, available)[Len(asked)]
             list == loaded[s]
             new == Replay(list, loads, available, Cap[t])
  <2>1. known \in SUBSET Skill /\ resolved[s] \subseteq known
    <3>1. CASE resolved[s] # {}
      BY <3>1 DEF Resolutions, LoadedTypes
    <3>2. CASE resolved[s] = {}
      BY <3>2, SkillsAssumption DEF Resolutions
    <3> QED
      BY <3>1, <3>2
  <2>2. asked \in Seq(Skill) /\ Cap[t] \in Nat \ {0}
    BY SkillsAssumption
  <2>3. loads \in Seq(known)
    <3>1. loads \in Seq(Skill \cap available)
      BY <2>2, ReadsKeep
    <3> HIDE DEF loads
    <3> QED
      BY <3>1, SeqMonotonic
  <2>4. list \in Seq(known) /\ IsInjective(list) /\ \A k \in ToSet(list) : k \in known
    <3>1. list \in Seq(resolved[s]) /\ IsInjective(list)
      BY DEF LoadedTypes
    <3> HIDE DEF list
    <3>2. list \in Seq(known)
      BY <2>1, <3>1, SeqMonotonic
    <3> QED
      BY <3>1, <3>2 DEF ToSet
  <2>5. loaded' = [loaded EXCEPT ![s] = new]
    BY <1>2
  <2> HIDE DEF loads, list
  <2>6. /\ new \in Seq(known) /\ IsInjective(new)
        /\ \/ new = list
           \/ /\ Len(new) <= Cap[t]
              /\ Len(new) = Cap[t] \/ ToSet(list) \cap available \subseteq ToSet(new)
    BY <2>2, <2>3, <2>4, ReplayKeeps
  <2> HIDE DEF new
  <2>7. new \in Seq(Skill) /\ \E q \in Turn : Len(new) <= Cap[q]
    <3>1. \E q \in Turn : Len(list) <= Cap[q]
      BY DEF list, LoadedTypes
    <3> QED
      BY <2>1, <2>6, <3>1, SeqMonotonic
  <2>8. /\ \A q \in Turn : loaded'[q] = IF q = s THEN new ELSE loaded[q]
        /\ \A q \in Turn : resolved'[q] = IF q = s THEN known ELSE resolved[q]
    BY <1>2, <2>5 DEF LoadedTypes
  <2>9. ASSUME NEW q \in Turn
        PROVE  /\ loaded'[q] \in Seq(resolved'[q]) /\ IsInjective(loaded'[q])
               /\ \E u \in Turn : Len(loaded'[q]) <= Cap[u]
    BY <2>6, <2>7, <2>8 DEF LoadedTypes
  <2>10. resolved' \in [Turn -> SUBSET Skill] /\ loaded' \in [Turn -> Seq(Skill)]
    BY <1>2, <2>1, <2>5, <2>7 DEF LoadedTypes
  <2>11. LoadedTypes'
    BY <1>2, <2>9, <2>10 DEF LoadedTypes
  <2>12. ASSUME NEW k \in ToSet(list) \ ToSet(new)
         PROVE  k \notin Listed[t] \/ Len(new) = Cap[t]
    BY <2>4, <2>6
  <2> QED
    BY <2>8, <2>11, <2>12 DEF list
<1> QED
  BY <1>1, <1>2 DEF LoadSkills

LEMMA LoadedStep ==
  ASSUME SealTypes, on \in [Turn -> MaybeSession], LoadedTypes, [Next]_vars
  PROVE  LoadedTypes' /\ UnloadsForCause
<1>1. ASSUME UNCHANGED skills PROVE LoadedTypes' /\ UnloadsForCause
  BY <1>1 DEF LoadedTypes, UnloadsForCause, skills
<1>2. ASSUME NEW t \in Turn, Reply(t), on[t] \in Turn PROVE LoadedTypes' /\ UnloadsForCause
  <2>1. /\ LoadSkills(t, on[t])
        /\ at[t] = "stored" /\ at'[t] = "answered"
    BY <1>2 DEF Reply, SealTypes
  <2>2. /\ LoadedTypes'
        /\ \A q \in Turn \ {on[t]} : loaded'[q] = loaded[q]
        /\ \A k \in ToSet(loaded[on[t]]) \ ToSet(loaded'[on[t]]) :
             k \notin Listed[t] \/ Len(loaded'[on[t]]) = Cap[t]
    BY <1>2, <2>1, LoadKeeps
  <2> QED
    BY <1>2, <2>1, <2>2 DEF UnloadsForCause
<1>3. ASSUME NEW t \in Turn, Reply(t), on[t] = NoSession PROVE LoadedTypes' /\ UnloadsForCause
  <2>1. LoadSkills(t, NoSession)
    BY <1>3 DEF Reply
  <2>2. UNCHANGED <<resolved, loaded>> /\ skips' \in {skips, skips + 1}
    <3>1. CASE Faults < MaxFault /\ skips' = skips + 1 /\ UNCHANGED <<resolved, loaded>>
      BY <3>1
    <3>2. ASSUME NEW x, NEW y, resolved' = [resolved EXCEPT ![NoSession] = x],
                 loaded' = [loaded EXCEPT ![NoSession] = y]
          PROVE  UNCHANGED <<resolved, loaded>>
      BY <3>2 DEF LoadedTypes
    <3> QED
      BY <2>1, <3>1, <3>2 DEF LoadSkills
  <2> QED
    BY <2>2 DEF LoadedTypes, UnloadsForCause
<1> QED
  BY <1>1, <1>2, <1>3, OnlyReplyLoads

-----------------------------------------------------------------------------
(* Types                                                                   *)

\* What a turn may be given: a session opened, or none.
LEMMA ActiveIsSession == ASSUME opened \in Seq(Turn) PROVE ActiveSession \in MaybeSession
<1> DEFINE active == {i \in DOMAIN opened : status[opened[i]] = "active"}
<1>1. Len(opened) \in Nat /\ active \subseteq 1..Len(opened)
  BY LenProperties
<1>2. ASSUME active # {} PROVE opened[Max(active)] \in Turn
  <2>1. Max(active) \in active
    <3> HIDE DEF active
    <3> QED
      BY <1>1, <1>2, GreatestOfSome
  <2> QED
    BY <2>1
<1> QED
  BY <1>2 DEF ActiveSession

\* The types the argument of the seals leaves out.
OtherTypes ==
  /\ routing \in Routing /\ opened \in Seq(Turn)
  /\ stale \subseteq Turn /\ claimed \subseteq Turn
  /\ found \in [Turn -> MaybeSession] /\ on \in [Turn -> MaybeSession]
  /\ replaces \in [Turn -> MaybeSession]
  /\ crashes \in Nat /\ lapses \in Nat

LEMMA OtherStep == ASSUME SealTypes, OtherTypes, [Next]_vars PROVE OtherTypes'
<1>1. ASSUME NEW t \in Turn, TurnNext(t) PROVE OtherTypes'
  <2>1. ActiveSession \in MaybeSession /\ ToSet(opened) \subseteq Turn
    BY ActiveIsSession DEF OtherTypes, ToSet
  <2>2. CASE Arrive(t)
    BY <2>1, <2>2 DEF Arrive, OtherTypes
  <2>3. CASE AskCallInit(t)
    BY <2>1, <2>3 DEF AskCallInit, OtherTypes
  <2>4. CASE Resolve(t)
    BY <2>1, <2>4 DEF Resolve, OtherTypes
  <2>5. CASE Store(t)
    <3>1. opened' \in Seq(Turn)
      BY <2>5 DEF Store, OtherTypes
    <3> QED
      BY <2>5, <3>1 DEF Store, OtherTypes
  <2>6. CASE Reply(t)
    BY <2>6 DEF Reply, OtherTypes
  <2>7. CASE Drop(t)
    BY <2>7 DEF Drop, OtherTypes
  <2> QED
    BY <1>1, <2>2, <2>3, <2>4, <2>5, <2>6, <2>7 DEF TurnNext
<1>2. ASSUME NEW r \in Replica, SweepNext(r) PROVE OtherTypes'
  <2>1. UNCHANGED <<routing, opened, stale, found, on, replaces>>
    BY <1>2 DEF SweepNext, ClaimPending, Rewrite, Withhold, Crash, ReadRaw, ClearPending
  <2>2. claimed' \subseteq Turn
    BY <1>2 DEF SweepNext, ClaimPending, Rewrite, Withhold, Crash, ReadRaw, ClearPending,
       OtherTypes
  <2>3. lapses' = lapses /\ crashes' \in {crashes, crashes + 1}
    BY <1>2 DEF SweepNext, ClaimPending, Rewrite, Withhold, Crash, ReadRaw, ClearPending
  <2> QED
    BY <2>1, <2>2, <2>3 DEF OtherTypes
<1>3. CASE TimeNext \/ ExpireStale \/ ToggleRedaction \/ UNCHANGED vars
  <2>1. UNCHANGED <<routing, opened, found, on, replaces, crashes>>
    BY <1>3 DEF TimeNext, DeleteSession, TtlPasses, Lapse, ExpireStale, ToggleRedaction, vars
  <2>2. stale' \subseteq Turn /\ claimed' \subseteq Turn
    BY <1>3 DEF TimeNext, DeleteSession, TtlPasses, Lapse, ExpireStale, ToggleRedaction, vars,
       OtherTypes
  <2>3. lapses' \in {lapses, lapses + 1}
    BY <1>3 DEF TimeNext, DeleteSession, TtlPasses, Lapse, ExpireStale, ToggleRedaction, vars
  <2> QED
    BY <2>1, <2>2, <2>3 DEF OtherTypes
<1> QED
  BY <1>1, <1>2, <1>3 DEF Next

\* What these types come to.
TypesInv == OtherTypes /\ LoadedTypes

\* Every variable has its type, a session has loaded no skill twice and none past the cap.
THEOREM TypesAgree == Spec => []TypesInv
<1>1. Init => TypesInv
  <2> SUFFICES ASSUME Init PROVE TypesInv
    OBVIOUS
  <2>1. /\ loaded = [s \in Turn |-> <<>>] /\ opened = <<>>
        /\ resolved = [s \in Turn |-> {}] /\ skips = 0
    BY DEF Init
  <2>2. ASSUME NEW S PROVE <<>> \in Seq(S) /\ Len(<<>>) = 0 /\ IsInjective(<<>>)
    BY DEF IsInjective
  <2>3. /\ loaded \in [Turn -> Seq(Skill)] /\ resolved \in [Turn -> SUBSET Skill]
        /\ \A s \in Turn : loaded[s] \in Seq(resolved[s]) /\ IsInjective(loaded[s])
    BY <2>1, <2>2
  <2>4. ASSUME NEW s \in Turn PROVE Len(loaded[s]) <= Cap[s]
    <3>1. Cap[s] \in Nat \ {0} /\ loaded[s] = <<>>
      BY <2>1, SkillsAssumption
    <3> QED
      BY <2>2, <3>1
  <2>5. LoadedTypes
    BY <2>1, <2>3, <2>4 DEF LoadedTypes
  <2> QED
    BY <2>1, <2>2, <2>5 DEF TypesInv, OtherTypes, Init
<1>2. SealInv /\ TypesInv /\ [Next]_vars => TypesInv'
  BY OtherStep, LoadedStep DEF TypesInv, SealInv, OtherTypes
<1> QED
  BY <1>1, <1>2, SealsAgree, PTL DEF Spec

\* Every variable has its type.
THEOREM TypeCorrect == Spec => []TypeOK
<1>1. SealInv /\ TypesInv => TypeOK
  BY DEF SealInv, SealTypes, TypesInv, OtherTypes, LoadedTypes, TypeOK, PolicyTypes,
     SessionTypes, TurnTypes, SweepTypes
<1> QED
  BY <1>1, SealsAgree, TypesAgree, PTL

\* A skill is unloaded only by a reply whose agent does not list it or had the list full.
THEOREM UnloadedForCauseHolds == Spec => UnloadedForCause
<1>1. SealInv /\ TypesInv /\ [Next]_vars => UnloadsForCause
  BY LoadedStep DEF SealInv, TypesInv, OtherTypes
<1>2. UnloadsForCause => [UnloadsForCause]_vars
  OBVIOUS
<1> QED
  BY <1>1, SealsAgree, TypesAgree, PTL DEF Spec, UnloadedForCause, UnloadsForCause
=============================================================================
