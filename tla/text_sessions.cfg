\* Two messages of one customer, the sweeps of two replicas.
SPECIFICATION FairSpec
CONSTANTS
  m1 = m1
  m2 = m2
  r1 = r1
  r2 = r2
  booking = booking
  billing = billing
  refunds = refunds
  NoSession = NoSession
  Turn = {m1, m2}
  Replica = {r1, r2}
  Routing = {"webhook", "api"}
  Redacting = {TRUE}
  Skill = {booking, billing, refunds}
  Listed <- ListedByAgent
  Cap <- CapOfAgent
  Wants <- WantedByModel
  MaxToggle = 1
  MaxFault = 1
INVARIANTS SealedHasNoRaw EndedRawIsMarked LiveIsRaw
PROPERTIES UnloadedForCause PendingIsSealed
\* Every message has been answered and every session rewritten.
CHECK_DEADLOCK FALSE
