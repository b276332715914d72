SPECIFICATION Spec
CONSTANTS
  Players = {p1, p2}
  MatchIds = {m1}
  MatchSize = 2
  MaxJoins = 3
  MaxFailures = 2
  Workers = {w1, w2}
  PopBatchSize = 2
  Rating <- MCRating
  Windows <- MCWindows
  NoWorker = NoWorker
  NoMatch = NoMatch
  NoPlayer = NoPlayer
SYMMETRY MCSymmetry
VIEW MCView
CHECK_DEADLOCK FALSE
INVARIANTS
  IInv
  NoEntryLost
