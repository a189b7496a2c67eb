SPECIFICATION Spec
CONSTANTS
  schema = schema
  twin = twin
  clash = clash
  data1 = data1
  data2 = data2
  bin1 = bin1
  bin2 = bin2
  NoSeg = NoSeg
  Segs = {schema, twin, clash, data1, data2, bin1, bin2}
  KindOf <- MCKindOf
  NameOf <- MCNameOf
  LayoutOf <- MCLayoutOf
  SizeOf <- MCSizeOf
  ManifestSize <- MCManifestSize
  HEADER = 1
  Readers = {r1}
  MaxFaults = 0
  MaxCrashes = 1
INVARIANTS CatalogSound LiveReadable GrantedStored
PROPERTY ImplementsSegmentLog
CHECK_DEADLOCK FALSE
