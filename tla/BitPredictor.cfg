\* Binary tokens.
CONSTANTS
  Width = 1
  MaxOps = 4
  MaxDepth = 4
SPECIFICATION Spec
INVARIANTS TypeOK RollbackExact UndoMatches
PROPERTY RefinesSnapshots
