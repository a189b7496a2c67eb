SPECIFICATION FairSpec
CONSTANTS
  schema = schema
  twin = twin
  clash = clash
  data1 = data1
  data2 = data2
  bin1 = bin1
  bin2 = bin2
  NoSeg = NoSeg
  Segs = {schema, data1, data2, bin1}
  KindOf <- MCKindOf
  NameOf <- MCNameOf
  LayoutOf <- MCLayoutOf
  SizeOf <- MCSizeOf
  ManifestSize <- MCManifestSize
  HEADER = 1
  Readers = {r1}
  MaxFaults = 2
  MaxCrashes = 1
INVARIANTS TypeOK AckedDurable RegionWalkable QuiescentSynced
PROPERTIES MappedImmutable OpenIsCurrent RestOpens
CHECK_DEADLOCK FALSE
