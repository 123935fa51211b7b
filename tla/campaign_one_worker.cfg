\* One worker that may die and stall, one target with a calling window: safety and liveness.
SPECIFICATION FairSpec
CONSTANTS
  w1 = w1
  w2 = w2
  t1 = t1
  noAnswer = noAnswer
  answered = answered
  NoTarget = NoTarget
  Reason = {noAnswer, answered}
  MaxDials <- TwoDials
  Worker = {w1}
  Target = {t1}
  Windowed = {t1}
  MaxCrash = 1
  MaxStall = 1
  MaxTurn = 1
INVARIANTS OneCallAtATime DialsWithinPolicy SettledAsEnded CompletedIsClosed
PROPERTIES CampaignEnds EndedCallSettles
