SPECIFICATION Spec
CONSTANTS
  Readers = {"native", "wkb", "wkt"}
  Targets = {"POINT", "LINESTRING", "POLYGON", "MULTIPOINT", "MULTILINESTRING", "MULTIPOLYGON"}
  Dims = {"XY"}
  RootTypes = {"POINT", "LINESTRING", "POLYGON", "MULTIPOINT", "MULTILINESTRING", "MULTIPOLYGON", "GEOMETRYCOLLECTION"}
  MemberTypes = {"POINT", "LINESTRING", "POLYGON", "MULTIPOINT", "MULTILINESTRING", "MULTIPOLYGON", "GEOMETRYCOLLECTION"}
  NestedEmpty = FALSE
  WellTyped = TRUE
  MaxFeatures = 2
  MaxParts = 2
  MaxDepth = 3
  IntMax = 100
  NullIsEmpty = FALSE
INVARIANTS
  ElementsMatch
CHECK_DEADLOCK FALSE
