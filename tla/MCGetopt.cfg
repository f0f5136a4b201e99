SPECIFICATION Spec
CONSTANTS
  ShortOptions <- Shorts
  LongOptions <- Longs
  CommandLines <- TestLines
  Orderings = {"PERMUTE", "REQUIRE_ORDER", "RETURN_IN_ORDER"}
  MaxScans = 2
INVARIANTS TypeOK NothingLost OperandsKept RescanAgrees
PROPERTIES ScanFinishes ReadingImplemented
CHECK_DEADLOCK FALSE
