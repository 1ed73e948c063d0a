SPECIFICATION FairSpec
CONSTANTS
  Node <- MCNode
  Kind <- MCKind
  From <- MCFrom
  Path <- MCPath
  Roots <- MCRoots
  Workers = 2
  Setups <- MCSetups
CHECK_DEADLOCK FALSE
INVARIANTS SourcesAreSafe SuccessIsTrue
PROPERTIES  Ends
