SPECIFICATION MakerSpec
CONSTANTS
  p1 = p1
  p2 = p2
  p3 = p3
  p4 = p4
  Players = {p1, p3}
  MatchIds = {m1}
  MatchSize = 2
  MaxJoins = 3
  MaxFailures = 1
  Workers = {w1, w2}
  PopBatchSize = 2
  Rating <- MCRating
  Windows <- MCWindows
  NoWorker = NoWorker
  NoMatch = NoMatch
CHECK_DEADLOCK FALSE
INVARIANTS
  OneActiveWorker
  MemoryBacked
PROPERTIES
  QueuedIsPopped
  CrashRecovery
  NoOvertaking
