SPECIFICATION Spec
CONSTANTS
  HeadSize = 1
  SectionHeader = 1
  MinimumSize <- MCMinimum
  MachineOf <- MCMachine
  FileAlignments = {1, 2}
  SectionAlignments = {1, 2}
  MaxSections = 2
  MaxImageSize = 12
  MaxSalvageScan = 12
  MinEmbedded = 2
  MaxEmbedded = 8
  MaxPerImage = 2
  MaxAttempts = 4
  BufferLists <- MCBufferLists
INVARIANT EveryPlaceAccounted
INVARIANT CarvedStandAlone
CHECK_DEADLOCK FALSE
INVARIANT OwnHeaderOrNone
