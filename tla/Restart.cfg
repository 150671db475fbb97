\* Two calls and one of a listener; the connection is lost or stopped, and started
\* again, in between.
SPECIFICATION RestartFairSpec
CONSTANTS
  c1 = c1
  c2 = c2
  l1 = l1
  NoCall = NoCall
  Calls <- WithInner
  Inner <- OneInner
  Posts <- NoPost
  MaxId = 2
  MaxParts = 1
  SetExists = TRUE
  MaxRestarts = 1
  Restarts <- AnyRestart
INVARIANTS
  NoForeignAnswer
PROPERTIES
  RegistryKept
  ReleasedByClose
  CloseSeesWaiters
  ListenersEnd
CHECK_DEADLOCK FALSE
