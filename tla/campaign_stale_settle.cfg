\* A settling pass that read one call and writes after the next.
SPECIFICATION Spec
CONSTANTS
  w1 = w1
  w2 = w2
  t1 = t1
  noAnswer = noAnswer
  answered = answered
  NoTarget = NoTarget
  Reason = {noAnswer, answered}
  MaxDials <- TwoDials
  Worker = {w1, w2}
  Target = {t1}
  Windowed = {}
  MaxCrash = 0
  MaxStall = 0
  MaxTurn = 0
INVARIANTS OneCallAtATime
