\* Requests are refused, or raise after or before the server has served them,
\* and the answers for the chunks come in several parts.
SPECIFICATION FairSpec
CONSTANTS
  Shapes <- SmallShapes
  DTypes <- SomeDTypes
  MaxMessage = 20
  Refusals = TRUE
  Raising = TRUE
  Empty = FALSE
  Splits <- SplitChunks
INVARIANTS
  PutTruth
  GetWhole
  MessagesFit
PROPERTIES
  TransfersEnd
CHECK_DEADLOCK FALSE
