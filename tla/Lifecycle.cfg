\* start(), stop() and close() in any order, listeners that call them, and
\* connections that fail, raise or are lost.
SPECIFICATION FairSpec
CONSTANTS
  MaxReconnects = 2
  MaxStarts = 3
INVARIANTS
  StopQuiescent
  AttemptsBounded
  IsConnectedTruthful
  DeadMeansDown
PROPERTIES
  NoConnectAfterStop
  StopReturns
CHECK_DEADLOCK FALSE
