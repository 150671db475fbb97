\* A connection is lost.
SPECIFICATION FairSpec
CONSTANTS
  MaxReconnects = 1
  MaxStarts = 1
PROPERTIES
  LossIsRetried
CHECK_DEADLOCK FALSE
