SPECIFICATION MCSpec
CONSTANTS
  Players = {p1, p2, p3}
  MatchIds = {m1}
  MatchSize = 3
  MaxJoins = 3
  MaxFailures = 1
  NoPlayer = NoPlayer
CHECK_DEADLOCK FALSE
INVARIANTS
  OutcomeInv
  ConfirmedByEnough
  AnnouncedTruthfully
PROPERTIES
  EveryMatchDecided
