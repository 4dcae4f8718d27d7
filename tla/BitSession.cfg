\* Two-bit symbols, both kinds of predictor, checkpoints restored in nested order.
CONSTANTS
  Width = 2
  MaxOps = 4
  MaxDepth = 3
  Nested = TRUE
SPECIFICATION Spec
INVARIANTS PrefixAgrees StartRecoverable DepthAccounted
PROPERTY RefinesStream
