SPECIFICATION Spec
CONSTANTS
  BitsPerByte = 3
  WordBits = 9
  LowOffsetBits = 2
  ShortBits = 3
  RawRun = 2
  MaxUnpacked = 22
  Far <- MCFar
  LengthBits = 1
  LengthHighBits = 2
  SlotBits = 3
  EndSlotModel = 6
  AlignBits = 1
  MaxTokens = 2
  MaxSpoilt = 1
  SpoiltAhead = 4
  SpoiltBits = 9
INVARIANT PackedIsUnpacked
INVARIANT DamageIsBounded
CHECK_DEADLOCK FALSE
