SPECIFICATION FairSpec
CONSTANTS
  Writers = {w1}
  Names <- SoloNames
  Unusable <- MCUnusable
  Candidate <- SoloCandidate
  AsciiKey <- SoloAsciiKey
  PathOf <- SoloPathOf
  Paths <- SoloPaths
  DumpLists <- SoloDumps
  FreshLists <- SoloFresh
  MaxFiles = 3
  MaxNameAttempts = 2
  MaxTempAttempts = 2
  MaxStale = 1
  MaxOld = 1
  MaxForeign = 1
INVARIANT DestinationsDistinct
INVARIANT DoneMeansSaved
PROPERTY SavedFilesStay
PROPERTY EveryRunEnds
CHECK_DEADLOCK FALSE
