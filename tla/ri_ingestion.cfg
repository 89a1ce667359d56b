SPECIFICATION EvidenceSpec
CONSTANTS
  NoRefresh = NoRefresh
  Idle = Idle
  NoRequest = NoRequest
  Finding = {f1, f2}
  Refresh = {r1, r2}
  ScanReports <- EngineReports
  Filtered = {r1}
  Overlap = TRUE
  Losses = TRUE
  MaxRedeliveries = 1
  Engine = {"nmap_nse", "trivy", "lynis", "openvas", "nuclei", "wazuh_sca"}
  Items <- EngineItems
  ScanOptions <- EngineScanOptions
SYMMETRY Symmetry
INVARIANTS IngestionTypeOK WatermarkIsComplete NewestReportWins
INVARIANTS VerificationTypeOK FailClosed KnownItemRecognised PassMatchesIngestion
CHECK_DEADLOCK FALSE
