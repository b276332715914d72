SPECIFICATION MakerSpec
CONSTANTS
  p1 = p1
  p2 = p2
  p3 = p3
  p4 = p4
  Players = {p1, p2, p3, p4}
  MatchIds = {m1}
  MatchSize = 2
  MaxJoins = 4
  MaxFailures = 0
  Workers = {w1}
  PopBatchSize = 2
  Rating <- MCRating
  Windows <- MCWindows
  NoWorker = NoWorker
  NoMatch = NoMatch
VIEW MCView
CHECK_DEADLOCK FALSE
PROPERTIES
  OldestIsAnchor
