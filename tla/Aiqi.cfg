\* Reversible predictors and clones, pruning with a floor of one step.
CONSTANTS
  Period = 3
  Horizon = 2
  NumActions = 2
  MaxReward = 1
  Bins = 4
  GammaNum = 1
  GammaDen = 2
  KeepSteps = 1
  Pruning = TRUE
  MaxSteps = 7
SPECIFICATION Spec
INVARIANTS TypeOK StreamsExact QueryExact NeverFails RetentionBounded HistoryExact
PROPERTY RefinesIdeal
