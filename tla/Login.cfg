SPECIFICATION LoginSpec
CONSTANTS
  p = p
  q = q
  r = r
  Nothing = Nothing
  Methods <- AllMethods
  Lives <- SomeLives
  Buffer = 1
  Delay <- Delays
  Tellings <- AllTellings
  Unsaid = 3
  Zones <- SomeZones
  Start = 2
  Horizon = 6
  Sources <- SomeSources
INVARIANTS
  NeverStale
  NoNeedlessRequest
  RightServer
  LoginWorks
PROPERTIES
  NeverBornStale
