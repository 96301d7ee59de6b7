SPECIFICATION Spec
CONSTANTS
  Writers = {w1, w2}
  Names <- PairNames
  Unusable <- MCUnusable
  Candidate <- PairCandidate
  AsciiKey <- PairAsciiKey
  PathOf <- PairPathOf
  Paths <- PairPaths
  DumpLists <- PairDumps
  FreshLists <- PairFresh
  MaxFiles = 2
  MaxNameAttempts = 2
  MaxTempAttempts = 1
  MaxStale = 1
  MaxOld = 1
  MaxForeign = 1
INVARIANT OnlyWholeFiles
INVARIANT NoStrayTemps
PROPERTY RenameKeepsOld
PROPERTY PublishesAsPromised
CHECK_DEADLOCK FALSE
