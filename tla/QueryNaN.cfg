SPECIFICATION Spec
CONSTANTS
  A = A
  B = B
  NaN = NaN
  None = None
  Letters = {}
  Byte = 8
  MaxLength = 0
  Bits <- FilterBits
  Ordered <- FilterOrdered
  Rank <- FilterRank
  Columns <- TwoColumns
  Layout <- FilterLayouts
  Counts <- TwoSegments
  Tables <- FilterTables
  Filters <- NaNFilters
  Joins = {"or"}
  MaxTests = 1
  MaxDepth = 0
INVARIANTS
  MaskSound
CHECK_DEADLOCK FALSE
