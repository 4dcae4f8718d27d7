SPECIFICATION Spec
CONSTANTS
  SMin <- MinusTwo
  SMax = 1
  UMax = 3
  Ranged = FALSE
  Lo = 0
  Hi = 0
  Rejected = {}
  Baselines <- Default
  Budget = 3
  EvalLimit = 2
  MaxEvals = 3
  MaxRadius = 1
  Warmups = 0
  Rounds = 1
  ResetAfter = 2
  MaxAttempts = 3
  Fatal = Fatal
  Refused = Refused
  NoAnswer = NoAnswer
  Nobody = Nobody
INVARIANT NeverAborts
CHECK_DEADLOCK FALSE
