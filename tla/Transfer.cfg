SPECIFICATION Spec
CONSTANTS
  plain = plain
  linked = linked
  part = part
  alone = alone
  NoProxy = NoProxy
  Items <- SomeItems
  Arrayed <- SomeArrayed
  Proxy <- SomeProxy
INVARIANTS
  NoOverwrite
  AckedIsStored
  LeavesNothingOpen
