SPECIFICATION ReadSpec
CONSTANTS
  A = A
  B = B
  C = C
  None = None
  Byte = 8
  Letters = {1}
  MaxLength = 1
  Bits <- TwoBits
  Ordered <- TwoBits
  Rank <- TwoRank
  Columns <- ThreeColumns
  Layout <- ThreeLayouts
  Counts <- TwoSegments
  Tables <- ThreeTables
  Filters <- ThreeFilters
  Joins = {"or", "xor"}
  MaxTests = 3
  MaxDepth = 2
  Fields <- ThreeFields
  Prefixed <- TwoPrefixed
  Requests <- AllRequests
INVARIANTS
  ReaderTypeOK
  NothingPruned
  RowsWhole
  ReadExact
CHECK_DEADLOCK FALSE
