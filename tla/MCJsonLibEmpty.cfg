SPECIFICATION Spec
CONSTANTS
  DefaultTokenCount = 1
  BadChars = {"bad"}
  Refs = {"r", "s", "t"}
  Texts <- WithEmptyContainers
  NameSets <- Names
  Requests <- SomeRequests
  HandleTableDelta = 2
  MaxEntries = 4
  MaxFailures = 1
  CarefulHost = TRUE
  Null = Null
INVARIANT CursorAtElement
CHECK_DEADLOCK FALSE
