SPECIFICATION Spec
CONSTANTS
  MaxForwardDepth = 3
  ApiSets = {"api-x"}
  Decorated = {"?D"}
  MaxImports = 10
  MaxGroups = 3
  MaxThunkDepth = 2
  Unrepresentable = {"#99999"}
  NameOrder <- MCNames
  Images <- MCImages
INVARIANT ForwardersSettle
INVARIANT ResolvesBack
INVARIANT TablesAreApart
INVARIANT CallsAreAccounted
CHECK_DEADLOCK FALSE
