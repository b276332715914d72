SPECIFICATION StallSpec
CONSTANTS
  Players = {p1, p2}
  MatchIds = {m1, m2}
  MatchSize = 2
  MaxJoins = 2
  MaxFailures = 4
  Workers = {w1, w2}
  PopBatchSize = 2
  Rating <- MCRating
  Windows <- MCWindows
  NoWorker = NoWorker
  NoMatch = NoMatch
SYMMETRY MCSymmetry
VIEW MCView
CHECK_DEADLOCK FALSE
INVARIANTS
  HarmContained
  StallInv
PROPERTIES
  LockRespected
