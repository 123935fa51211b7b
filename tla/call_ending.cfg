\* Two requests, two sweeps and a pipeline over one call, with two faults.
SPECIFICATION FairSpec
CONSTANTS
  h1 = h1
  h2 = h2
  Carrier = {"twilio", "telnyx", "webrtc"}
  Handler = {h1, h2}
  Redacting = {TRUE, FALSE}
  MaxFault = 2
INVARIANTS OneRun LastLinesFirstTwilio UnansweredIsSilent
PROPERTIES EndingStands ImplementsEndsOnce DeferredIsProcessed TalkedIsHeard
\* A call whose end everyone has seen to is over.
CHECK_DEADLOCK FALSE
