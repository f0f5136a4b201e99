SPECIFICATION Spec
CONSTANTS
  DefaultTokenCount = 1
  BadChars = {"bad"}
  Refs = {"r", "s", "t", "u"}
  Texts <- Looped
  NameSets <- Names
  Requests <- SomeRequests
  HandleTableDelta = 2
  MaxEntries = 5
  MaxFailures = 0
  CarefulHost = TRUE
  Null = Null
INVARIANTS HandlesAreExclusive LoopCountsEach
CHECK_DEADLOCK FALSE
