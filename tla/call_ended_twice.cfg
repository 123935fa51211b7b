\* The end API on a redacting project's call, whose holder answers late.
SPECIFICATION Spec
CONSTANTS
  h1 = h1
  h2 = h2
  Carrier = {"webrtc"}
  Handler = {h1}
  Redacting = {TRUE}
  MaxFault = 0
INVARIANTS SentOnce
CHECK_DEADLOCK FALSE
