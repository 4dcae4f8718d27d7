SPECIFICATION Spec
CONSTANTS
  Period = 2
  Horizon = 2
  NumActions = 2
  MaxReward = 1
  Teachers <- SmallTeachers
  MaxSteps = 4
  Rounds = 2
INVARIANTS StreamsExact QueryExact
PROPERTIES ExperienceKept
CHECK_DEADLOCK FALSE
