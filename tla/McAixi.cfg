\* Both kinds of predictor, two cycles in any episodes, and three samples per
\* search: actions are tried again and the tree is followed to the horizon.
CONSTANTS
  NumActions = 2
  ActionBits = 1
  PerceptBits = 1
  Horizon = 2
  Samples = 3
  MaxCycles = 2
SPECIFICATION Spec
INVARIANTS SimulationExact StreamIsPast ReuseExact TreeMatchesLog
PROPERTY KeepsContract
