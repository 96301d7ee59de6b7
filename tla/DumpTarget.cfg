SPECIFICATION Spec
CONSTANTS
  Bases = {1, 2}
  Files <- MCFiles
  Program = "app.exe"
  Namesakes = {"other/app.exe"}
  None = None
  Allocations <- MCAllocations
  MaxImages = 2
  MaxImageSize = 2
  ImageBudget = 3
  ScanBudget = 3
  CarveBudget = 3
  RawBudget = 3
  MaxChanges = 1
  Requests <- AnyRequest
  EntryPoint = {TRUE, FALSE}
INVARIANT TypeOK
INVARIANT CompleteMeansAll
INVARIANT SelectionMeansRebuilt
CHECK_DEADLOCK FALSE
