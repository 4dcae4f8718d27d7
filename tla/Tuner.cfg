SPECIFICATION Spec
CONSTANTS
  SMin <- MinusTwo
  SMax = 1
  UMax = 3
  Ranged = TRUE
  Lo <- MinusTwo
  Hi = 1
  Rejected <- Odd
  Baselines <- BothKinds
  Budget = 3
  EvalLimit = 2
  MaxEvals = 3
  MaxRadius = 2
  Warmups = 1
  Rounds = 2
  ResetAfter = 2
  MaxAttempts = 3
  Fatal = Fatal
  Refused = Refused
  NoAnswer = NoAnswer
  Nobody = Nobody
INVARIANTS BestIsLeast CacheMeasured WorkerConfined NeverAborts
PROPERTY TuneEnds
CHECK_DEADLOCK FALSE
