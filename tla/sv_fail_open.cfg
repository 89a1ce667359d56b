SPECIFICATION EvidenceSpec
CONSTANTS
  NoRequest = NoRequest
  NoRefresh = NoRefresh
  Idle = Idle
  Finding = {f1, f2}
  Refresh = {r1, r2}
  ScanReports <- EngineReports
  Filtered = {r1}
  Overlap = TRUE
  Losses = TRUE
  MaxRedeliveries = 1
  Engine = {"lynis", "openvas", "nuclei"}
  Items <- EngineItems
  ScanOptions <- EngineScanOptions
INVARIANT NoFailureIsAbsence
CHECK_DEADLOCK FALSE
