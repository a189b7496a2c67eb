SPECIFICATION Spec
CONSTANTS
  Counts <- ThreeBuffers
  MaxSkips = 2
  MaxTakes = 0
  MaxPrunes = 0
  MaxN = 7
INVARIANTS
  WindowExact
CHECK_DEADLOCK FALSE
