\* Two calls of any kind over a limit of one on one process, one fault.
SPECIFICATION FairSpec
CONSTANTS
  c1 = c1
  c2 = c2
  p1 = p1
  NoProcess = NoProcess
  Call = {c1, c2}
  Process = {p1}
  Kind = {"inbound", "outbound", "browser"}
  Limit = 1
  Rate = 1
  MaxFault = 1
INVARIANTS LiveWithinLimit OrderlyIsFree DrainCutsNobody
PROPERTIES DrainEnds
\* Every call is over and every process gone.
CHECK_DEADLOCK FALSE
