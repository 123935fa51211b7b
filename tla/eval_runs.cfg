\* A batch of two runs of two iterations, one slot, one fault of any kind.
SPECIFICATION FairSpec
CONSTANTS
  e1 = e1
  e2 = e2
  Run = {e1, e2}
  Slots = 1
  Iterations = 2
  MaxFault = 1
INVARIANTS CompletedAgrees VerdictIsWhole WasteBounded
PROPERTIES TerminalStays ImplementsEndsOnce EveryRunEnds
