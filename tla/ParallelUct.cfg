\* Three workers, two steps deep, two searches, a BU threshold of 3/2
\* incomplete rollouts per edge.
CONSTANTS
  Planners <- BothPlanners
  Rewards = {0, 6}
  Horizon = 2
  Workers = 3
  MNum = 1
  MDen = 2
  MaxSearches = 2
SPECIFICATION Spec
INVARIANTS OccupancyExact TreeMatchesLog IdsUnique BudgetSpent
PROPERTIES RetiredForGood SearchReturns
CHECK_DEADLOCK FALSE
