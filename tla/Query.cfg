SPECIFICATION Spec
CONSTANTS
  A = A
  B = B
  NaN = NaN
  None = None
  Letters = {}
  Byte = 8
  MaxLength = 0
  Bits <- FilterBits
  Ordered <- FilterOrdered
  Rank <- FilterRank
  Columns <- TwoColumns
  Layout <- FilterLayouts
  Counts <- TwoSegments
  Tables <- FilterTables
  Filters <- AllFilters
  Joins = {"or"}
  MaxTests = 2
  MaxDepth = 2
INVARIANTS
  TypeOK
  MaskSound
  Subtractive
  LegsDisjoint
  CompactDecided
CHECK_DEADLOCK FALSE
