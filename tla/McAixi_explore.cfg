\* Three cycles: a search, an exploratory action, a search.
CONSTANTS
  NumActions = 2
  ActionBits = 1
  PerceptBits = 1
  Horizon = 2
  Samples = 2
  MaxCycles = 3
SPECIFICATION Spec
INVARIANT ReuseExactWhenExploring
