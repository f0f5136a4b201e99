SPECIFICATION Spec
CONSTANTS
  Threads = {t1, t2}
  Objects = {o1, o2}
  NULL = NULL
  CSV_HANDLE_TABLE_DELTA = 1
  FailingCalls = TRUE
  MissingFiles = TRUE
  CleanupQuiescent = TRUE
INVARIANTS
  TypeOK
  EntryCountExact
  StoreFindsFreeSlot
  HandlesAreExclusive
  TableIsHeap
  OnlyFailedOpenUsesFreed
  TableNeverCrashes
  TableExclusive
PROPERTIES
  OwnedHandlesStable
  RegistryImplemented
  CallsReturn
