\* The answer comes before the call has registered.
SPECIFICATION Spec
CONSTANTS
  c1 = c1
  c2 = c2
  p1 = p1
  Calls <- TwoCalls
  Posts <- NoPost
  NoCall = NoCall
  MaxId = 2
  MaxParts = 2
  SetExists = TRUE
PROPERTIES
  TimeoutMeansNoResponse
CHECK_DEADLOCK FALSE
