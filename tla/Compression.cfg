SPECIFICATION Spec
CONSTANTS
  PRECISION = 4
  BYTE_BITS = 2
  ANS_TOTAL = 8
  Word = 16
  BLOCK_SIZE = 3
  Ac = Ac
  AcBits = AcBits
  Rans = Rans
  Coders = {Ac, AcBits, Rans}
  Distributions <- Eighths
  Unit = 8
  PDF_MIN = 2
  MaxLength = 4
INVARIANTS RoundTrips InStep
CHECK_DEADLOCK FALSE
