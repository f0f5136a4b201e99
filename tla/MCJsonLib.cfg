SPECIFICATION Spec
CONSTANTS
  DefaultTokenCount = 1
  BadChars = {"bad"}
  Refs = {"r", "s", "t"}
  Texts <- AllTexts
  NameSets <- Names
  Requests <- SomeRequests
  HandleTableDelta = 2
  MaxEntries = 4
  MaxFailures = 1
  CarefulHost = TRUE
  Null = Null
INVARIANTS TypeOK EntryCountExact HandlesAreExclusive TokensAreOfText CursorAtElement OnlyMissingFilesUntold NeverCrashes
PROPERTIES WalkImplemented
CHECK_DEADLOCK FALSE
