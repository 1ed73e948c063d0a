SPECIFICATION Spec
CONSTANTS
  Node <- MCNode
  Kind <- MCKind
  From <- MCFrom
  Path <- MCPath
  Roots <- MCRoots
  Workers = 2
  Setups <- MCAside
INVARIANT NothingLost
CHECK_DEADLOCK FALSE
