\* Two requests and a webhook at a time over one call, one fault of any kind.
SPECIFICATION Spec
CONSTANTS
  r1 = r1
  r2 = r2
  h1 = h1
  o1 = o1
  o2 = o2
  Request = {r1, r2}
  Hook = {h1}
  Operator = {o1, o2}
  Caller = Caller
  None = None
  Kind <- FullAndBare
  MaxFault = 1
INVARIANTS NobodyLeft OperatorRungOnce EdgeLeavesTransfer
SYMMETRY Symmetry
\* A call that everyone has left is over.
CHECK_DEADLOCK FALSE
