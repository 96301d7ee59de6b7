SPECIFICATION Spec
CONSTANTS
  SectionHeader = 1
  TableStart = 2
  PageSize = 1
  MaxSections = 3
  MaxRenames = 2
  MaxOutput = 26
  Certificate = 4
  MaxBlocks = 3
  MaxEntries = 1
  MaxImageSize = 16
  Images <- MCImages
  Plans <- MCPlans
  EntryPoints = {0, 6}
  Overlays <- MCOverlays
INVARIANT SectionsApart
INVARIANT LoadsAsCaptured
INVARIANT StaysAnImage
INVARIANT HeaderIsTrue
INVARIANT NoSlotIsEmpty
CHECK_DEADLOCK FALSE
