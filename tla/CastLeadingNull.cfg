SPECIFICATION Spec
CONSTANTS
  Readers = {"wkb"}
  Targets = {"POINT"}
  Dims = {"XYZ"}
  RootTypes = {"POINT", "LINESTRING", "POLYGON", "MULTIPOINT", "MULTILINESTRING", "MULTIPOLYGON", "GEOMETRYCOLLECTION"}
  MemberTypes = {"POINT", "LINESTRING", "POLYGON", "MULTIPOINT", "MULTILINESTRING", "MULTIPOLYGON", "GEOMETRYCOLLECTION"}
  NestedEmpty = FALSE
  WellTyped = FALSE
  MaxFeatures = 2
  MaxParts = 1
  MaxDepth = 3
  IntMax = 100
  NullIsEmpty = FALSE
INVARIANTS
  ReleasedNullsMatch
CHECK_DEADLOCK FALSE
