\* Two workers racing one target, with a crash and a stall.
SPECIFICATION Spec
CONSTANTS
  w1 = w1
  w2 = w2
  t1 = t1
  noAnswer = noAnswer
  answered = answered
  NoTarget = NoTarget
  Worker = {w1, w2}
  Target = {t1}
  Reason = {noAnswer, answered}
  MaxDials <- TwoDials
  Windowed = {}
  MaxCrash = 1
  MaxStall = 1
  MaxTurn = 0
INVARIANTS OneAsker UnknownNeverRedialled CancelStopsDials EventsOnce
PROPERTIES FinalIsFinal ImplementsDialLicence
