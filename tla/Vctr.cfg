SPECIFICATION Spec
CONSTANTS
  Types = {"point", "wkb"}
  ChunkLengths = {0, 1}
  MaxChunks = 3
  MaxFeatures = 3
  MaxLength = 3
  MaxNulls = 1
  Combine = TRUE
  CombineSubsets = FALSE
INVARIANTS
  ValuesKept
  NarrowExact
  NAExact
  StreamExact
