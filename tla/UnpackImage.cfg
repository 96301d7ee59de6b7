SPECIFICATION Spec
CONSTANTS
  PageSize = 8
  ByteSize = 8
  LongDelta = 6
  MaxRelocations = 4
  ImageStart = 8
  Images <- MCImages
INVARIANT StreamsDecode
INVARIANT RestoredIsWhole
INVARIANT LostTablesAreGone
INVARIANT ReportIsOfTheBytes
CHECK_DEADLOCK FALSE
