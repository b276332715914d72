SPECIFICATION MCSpec
CONSTANTS
  Players = {p1, p2}
  MatchIds = {m1}
  MatchSize = 2
  MaxJoins = 2
  MaxFailures = 0
  NoPlayer = NoPlayer
CHECK_DEADLOCK FALSE
PROPERTIES
  DeclinersStayOut
