SPECIFICATION Spec
CONSTANTS
  Readers = {"native", "wkb"}
  Dims = {"XY", "XYZ"}
  RootTypes = {"POLYGON", "GEOMETRYCOLLECTION"}
  MemberTypes = {"POINT", "GEOMETRYCOLLECTION"}
  NestedEmpty = TRUE
  WellTyped = FALSE
  MaxFeatures = 2
  MaxParts = 2
  MaxDepth = 3
  MaxArrays = 2
  Reserved = 3
INVARIANTS IdsExact BuilderInStep
PROPERTIES PointersKept StopsAfterAbort EndsOrFails
CHECK_DEADLOCK FALSE
