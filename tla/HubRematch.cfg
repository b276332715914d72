SPECIFICATION Spec
CONSTANTS
  Players = {p1}
  MatchIds = {m1, m2}
  Conns = {c1}
  Team <- MCTeam
  Owner <- MCOwner
  NoMatch = NoMatch
  NoConn = NoConn
CHECK_DEADLOCK FALSE
PROPERTY FormingEventWaits
