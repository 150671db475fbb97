SPECIFICATION Spec
CONSTANTS
  d = d
  home = home
  x = x
  y = y
  v = v
  w = w
  NoId = NoId
  None = None
  Unreadable = Unreadable
  Absent = Absent
  Home = home
  Spaces <- SomeSpaces
  Ids <- SomeIds
  Versions <- SomeVersions
  Positions <- SomePositions
  Calls <- SomeCalls
INVARIANTS
  WholeAndOwn
  ReportsAreTrue
  NothingIsLost
