CONSTANTS
  Bytes = {a, b}
  RAW_FALLBACK_MAX = 2
  ContextBytes = 3
  MaxLength = 8
  MaxFrozen = 1
  MaxJournal = 12
  MaxSaved = 2
  a = a
  b = b
SPECIFICATION Spec
INVARIANTS Lossless DigramsExact RulesUseful RestoreExact
