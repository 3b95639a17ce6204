SPECIFICATION FairSpec
CONSTANTS
  Conns = {c1, c2, c3}
  MaxConnections = 2
INVARIANTS
  SlotsMatchConnections
  CleanExitDropsNobody
PROPERTIES
  RequestsDrain
  SignalStops
  ReadinessFollows
CHECK_DEADLOCK FALSE
