\* The end API on a browser's call.
SPECIFICATION Spec
CONSTANTS
  h1 = h1
  h2 = h2
  Carrier = {"webrtc"}
  Handler = {h1}
  Redacting = {FALSE}
  MaxFault = 0
INVARIANTS LastLinesFirst
CHECK_DEADLOCK FALSE
