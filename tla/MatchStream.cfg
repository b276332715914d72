SPECIFICATION Spec
CONSTANTS
  Workers = {w1, w2}
  NoWorker = NoWorker
  MatchIds = {m1, m2}
  ReadCount <- MCReadCount
  MaxFailures = 2
  NoMatch = NoMatch
CHECK_DEADLOCK FALSE
INVARIANTS
  StreamInv
  NothingDropped
  RowTruthful
PROPERTIES
  OutcomeKept
  EveryMatchWritten
