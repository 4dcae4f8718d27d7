\* Checkpoints restored in any order.
CONSTANTS
  Width = 2
  MaxOps = 4
  MaxDepth = 2
  Nested = FALSE
SPECIFICATION Spec
INVARIANT RestoreExact
