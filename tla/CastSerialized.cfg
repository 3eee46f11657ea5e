SPECIFICATION Spec
CONSTANTS
  Readers = {"wkt", "wkb", "native"}
  Dims = {"XY", "XYZ"}
  RootTypes = {"POINT", "POLYGON", "MULTIPOINT", "MULTILINESTRING", "GEOMETRYCOLLECTION"}
  MemberTypes = {"POINT"}
  NestedEmpty = TRUE
  WellTyped = FALSE
  MaxFeatures = 2
  MaxParts = 2
  MaxDepth = 2
  IntMax = 7
INVARIANTS
  TypeOK
  OffsetsExact
  OneElementPerFeature
  StacksAgree
  ElementsReadBack
CHECK_DEADLOCK FALSE
