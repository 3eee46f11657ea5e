SPECIFICATION Spec
CONSTANTS
  Readers = {"native", "wkb", "wkt"}
  Dims = {"XY", "XYZM"}
  RootTypes = {"POINT", "MULTIPOINT", "GEOMETRYCOLLECTION"}
  MemberTypes = {"POINT", "MULTIPOINT", "GEOMETRYCOLLECTION"}
  NestedEmpty = FALSE
  WellTyped = FALSE
  MaxFeatures = 3
  MaxParts = 1
  MaxDepth = 2
  BoundsReaders = {"wkb"}
  BoundsRoots = {"POINT"}
  BoundsDims = {"XY", "XYM", "XYZM"}
  Ordinates = {1, 2}
  Infinity = 10
  NullIsEmptyOptions = {TRUE, FALSE}
  IncludeEmptyOptions = {TRUE, FALSE}
INVARIANTS
  ReleasedIsBox
  RowNullIffNull
  ReleasedTypesExact
CHECK_DEADLOCK FALSE
