\* Every way to relate four objects by four relations at most.
SPECIFICATION FairSpec
CONSTANTS
  o1 = o1
  o2 = o2
  o3 = o3
  o4 = o4
  Uris <- FourUris
  Relations <- SparseRelations
  RootLists <- OneOrTwoRoots
INVARIANTS
  NoRepeats
  Complete
  Minimal
PROPERTIES
  Ends
CHECK_DEADLOCK FALSE
