SPECIFICATION Spec
CONSTANTS
  Nodes = {"root", "left", "right", "points"}
  Root = "root"
  Kids <- Tree
  Structs = {"root"}
  Throwers = {"points"}
INVARIANTS
  OneOwner
  OutputWhole
  FreedOnce
CHECK_DEADLOCK FALSE
