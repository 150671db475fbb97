\* Two waiting calls and a post; answers of up to two parts; the first call
\* creates _connection_closed_events.
SPECIFICATION Spec
CONSTANTS
  c1 = c1
  c2 = c2
  p1 = p1
  Calls <- CallsAndPost
  Posts <- OnePost
  NoCall = NoCall
  MaxId = 3
  MaxParts = 2
  SetExists = FALSE
SYMMETRY CallSymmetry
INVARIANTS
  OwnAnswer
  RegistryExact
  NoStaleEvents
  NoLostWakeup
PROPERTIES
  KeepsPromise
CHECK_DEADLOCK FALSE
