SPECIFICATION Spec
CONSTANTS
  PollCount = 5
  MatchCount = 2
  MaxReads = 4
  Layouts <- MCLayouts
  Contents = {0, 1}
  MaxChanges = 2
INVARIANT SettledIsStill
INVARIANT SamplesSpread
CHECK_DEADLOCK FALSE
