SPECIFICATION IngestionSpec
CONSTANTS
  NoRefresh = NoRefresh
  Idle = Idle
  Finding = {f1, f2}
  Refresh = {r1}
  ScanReports <- WholeReports
  Filtered = {}
  Overlap = FALSE
  Losses = FALSE
  MaxRedeliveries = 0
INVARIANTS NoLostPromotion
CHECK_DEADLOCK FALSE
