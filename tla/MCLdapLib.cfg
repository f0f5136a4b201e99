SPECIFICATION Spec
CONSTANTS
  Requests = {"p", "q"}
  Results <- TwoResults
  Members <- InitialMembers
  AttributeLists <- Lists
  RangeSize = 1
  MaxChanges = 1
  MaxMembers = 3
  ServerFailures = TRUE
  SilentEnds = FALSE
  CarefulHost = TRUE
  Null = Null
INVARIANTS TypeOK NeverDies AttributesComplete
PROPERTIES CallsReturn ResultsImplemented
