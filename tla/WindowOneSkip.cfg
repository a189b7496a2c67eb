SPECIFICATION Spec
CONSTANTS
  Counts <- ThreeBuffers
  MaxSkips = 1
  MaxTakes = 2
  MaxPrunes = 2
  MaxN = 7
INVARIANTS
  WindowExact
  NoWastedBuffer
CHECK_DEADLOCK FALSE
