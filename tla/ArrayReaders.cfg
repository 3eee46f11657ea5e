SPECIFICATION Spec
CONSTANTS
  Readers = {"native", "wkb", "wkt"}
  Dims = {"XY", "XYZ", "XYM", "XYZM"}
  RootTypes = {"POINT", "LINESTRING", "POLYGON", "MULTIPOINT", "MULTILINESTRING", "MULTIPOLYGON", "GEOMETRYCOLLECTION"}
  MemberTypes = {"POINT", "LINESTRING", "GEOMETRYCOLLECTION"}
  NestedEmpty = TRUE
  WellTyped = FALSE
  MaxFeatures = 2
  MaxParts = 4
  MaxDepth = 6
  MaxRows = 2
  Offsets = {0, 1}
  NativeTypes = {"POINT", "LINESTRING", "POLYGON", "MULTIPOINT", "MULTILINESTRING", "MULTIPOLYGON"}
  PlainTypes <- MCPlainTypes
  ListOffsets <- MCListOffsets
  LeafOffsets = {0, 1}
  HeaderFlags <- MCHeaderFlags
  MaxFields = 9
  MaxCount = 2
  MaxTokens = 7
  Filters <- MCFilters
  AnyFrom <- MCFrom
  AnyTo <- MCTo
INVARIANTS HeadersInForce CoordsExact WithinElement RowsExact AcceptedExactly CastReadable
PROPERTIES Protocol ReadingEnds
CHECK_DEADLOCK FALSE
