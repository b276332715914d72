SPECIFICATION MCSpec
CONSTANTS
  Players = {p1}
  MatchIds = {m1, m2}
  Conns = {c1, c2}
  Team <- MCTeam
  Owner <- MCOwner
  NoMatch = NoMatch
  NoConn = NoConn
CHECK_DEADLOCK FALSE
INVARIANTS
  HubInv
  ClosedOnce
  FramesTruthful
PROPERTIES
  FoundReachesPlayer
  FanOutEnds
