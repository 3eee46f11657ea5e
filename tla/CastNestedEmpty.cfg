SPECIFICATION Spec
CONSTANTS
  Readers = {"wkt"}
  Targets = {"MULTILINESTRING"}
  Dims = {"XY"}
  RootTypes = {"POINT", "LINESTRING", "POLYGON", "MULTIPOINT", "MULTILINESTRING", "MULTIPOLYGON", "GEOMETRYCOLLECTION"}
  MemberTypes = {"POINT", "LINESTRING", "POLYGON", "MULTIPOINT", "MULTILINESTRING", "MULTIPOLYGON", "GEOMETRYCOLLECTION"}
  NestedEmpty = TRUE
  WellTyped = TRUE
  MaxFeatures = 1
  MaxParts = 2
  MaxDepth = 3
  IntMax = 100
  NullIsEmpty = FALSE
INVARIANTS
  ElementsMatch
CHECK_DEADLOCK FALSE
