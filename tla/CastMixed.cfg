SPECIFICATION Spec
CONSTANTS
  Readers = {"native", "wkb", "wkt"}
  Targets = {"POINT", "LINESTRING", "POLYGON", "MULTIPOINT", "MULTILINESTRING", "MULTIPOLYGON"}
  Dims = {"XY", "XYZM"}
  RootTypes = {"POINT", "LINESTRING", "POLYGON", "MULTIPOINT", "MULTILINESTRING", "MULTIPOLYGON", "GEOMETRYCOLLECTION"}
  MemberTypes = {"POINT", "LINESTRING", "POLYGON", "MULTIPOINT", "MULTILINESTRING", "MULTIPOLYGON", "GEOMETRYCOLLECTION"}
  NestedEmpty = TRUE
  WellTyped = FALSE
  MaxFeatures = 3
  MaxParts = 1
  MaxDepth = 3
  IntMax = 2
  NullIsEmpty = FALSE
INVARIANTS
  TypeOK
  ReleasedValid
  OneElementPerFeature
  OnePointPerFeature
  LevelTracksDepth
CHECK_DEADLOCK FALSE
