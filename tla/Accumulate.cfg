SPECIFICATION Spec
CONSTANTS
  NaN = NaN
  None = None
  Bits <- Floats
  Ordered <- FloatsOrdered
  Rank <- FloatRank
  Letters <- TwoLetters
  Byte = 3
  MaxLength = 2
  Columns <- Layouts
  MaxItems = 5
INVARIANTS
  TypeOK
  RoundTrip
  CompactExactly
  StatisticsBound
CHECK_DEADLOCK FALSE
