SPECIFICATION Spec
CONSTANTS
  Types = {"wkb"}
  ChunkLengths = {0, 1, 2}
  MaxChunks = 2
  MaxFeatures = 3
  MaxLength = 2
  MaxNulls = 0
  Combine = FALSE
  CombineSubsets = FALSE
INVARIANTS
  StreamedAsWanted
