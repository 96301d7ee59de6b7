SPECIFICATION Spec
CONSTANTS
  Bases = {1, 2, 3}
  Files <- MCFiles
  Program = "app.exe"
  Namesakes = {"other/app.exe"}
  None = None
  Allocations <- LimitAllocations
  MaxImages = 2
  MaxImageSize = 2
  ImageBudget = 2
  ScanBudget = 3
  CarveBudget = 3
  RawBudget = 2
  MaxChanges = 1
  Requests <- AllOnly
  EntryPoint <- NoEntryPoint
INVARIANT ImagesAccounted
INVARIANT NothingDroppedQuietly
INVARIANT LoadersFirst
INVARIANT MainIsKept
CHECK_DEADLOCK FALSE
