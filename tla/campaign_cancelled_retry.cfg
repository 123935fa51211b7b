\* A retried target in a cancelled campaign.
SPECIFICATION Spec
CONSTANTS
  w1 = w1
  t1 = t1
  noAnswer = noAnswer
  answered = answered
  NoTarget = NoTarget
  w2 = w2
  Reason = {noAnswer, answered}
  MaxDials <- TwoDials
  Worker = {w1}
  Target = {t1}
  Windowed = {}
  MaxCrash = 0
  MaxStall = 0
  MaxTurn = 0
INVARIANTS CancelledIsClosed
