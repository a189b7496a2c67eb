SPECIFICATION Spec
CONSTANTS
  s = s
  t = t
  Names = {s, t}
  Primitives <- MCPrimitives
  MaxDepth = 3
  Bit = 3
  Word = 3
  CharWidth = 2
  Scalars <- MCScalars
  NaNs <- MCNaNs
  Worlds <- MCWorlds
  Rows <- MCRows
  Payloads <- MCPayloads
  IndexTypes = {1, 7}
  MaxItems = 2
  MaxRows <- MCMaxRows
  MaxSegments = 4
  MaxFaults = 1
INVARIANTS
  TypeOK
  AckedReadable
  StatisticsAddressed
  BuffersAligned
  LockStep
  SegmentsWalk
  IndexResolves
  InternedOnce
CHECK_DEADLOCK FALSE
