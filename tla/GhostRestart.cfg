SPECIFICATION WithdrawalSpec
CONSTANTS
  Players = {p1, p2}
  MatchIds = {m1}
  MatchSize = 2
  MaxJoins = 2
  MaxFailures = 1
  Workers = {w1}
  PopBatchSize = 2
  Rating <- MCRating
  Windows <- MCWindows
  NoWorker = NoWorker
  NoMatch = NoMatch
  NoPlayer = NoPlayer
  Rejoin = FALSE
SYMMETRY MCSymmetry
VIEW WithdrawalView
CHECK_DEADLOCK FALSE
PROPERTIES
  NoGhostMatch
