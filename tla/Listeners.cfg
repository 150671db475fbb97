\* One callback fails, one fails and has no name, one removes itself; another
\* thread removes the first and adds any.
SPECIFICATION ListenersSpec
CONSTANTS
  a = a
  b = b
  c = c
  Callbacks <- ThreeCallbacks
  OneShots <- OnlyB
  Failing <- AAndC
  Nameless <- OnlyC
  Removers <- OnlyA
  MaxLen = 4
  MaxChanges = 2
INVARIANTS
  AllCalledInOrder
  SkipsBounded
CHECK_DEADLOCK FALSE
