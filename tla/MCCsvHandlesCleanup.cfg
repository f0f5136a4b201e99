SPECIFICATION Spec
CONSTANTS
  Threads = {t1, t2}
  Objects = {o1, o2, o3}
  NULL = NULL
  CSV_HANDLE_TABLE_DELTA = 2
  FailingCalls = FALSE
  MissingFiles = FALSE
  CleanupQuiescent = TRUE
SYMMETRY Symmetric
INVARIANTS
  CleanupClosesFiles
