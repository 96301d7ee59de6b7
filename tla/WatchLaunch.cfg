SPECIFICATION FairSpec
CONSTANTS
  Pids = {1, 2}
  CaptureDelay = 2
  PollDelay = 1
  MaxPolls = 2
  MaxStarts = 3
  MaxAhead = 1
INVARIANT FoundIsNew
INVARIANT FoundHasRun
INVARIANT NobodyOverlooked
INVARIANT FirstIsFound
PROPERTY EveryWatchEnds
CHECK_DEADLOCK FALSE
