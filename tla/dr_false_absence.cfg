SPECIFICATION Spec
CONSTANTS
  NoRefresh = NoRefresh
  Idle = Idle
  NoOne = NoOne
  NoVerdict = NoVerdict
  Finding = {f1}
  Refresh = {r1}
  ScanReports <- PartialReports
  Job = {j1}
  Reconciler = {w1}
  Filtered = {}
  Overlap = FALSE
  Losses = FALSE
  MaxRedeliveries = 0
  BatchSize = 1
  MaxTroubles = 0
  MaxEvents = 0
  secondReconciler = w2
INVARIANTS PresenceFailsStage2
CHECK_DEADLOCK FALSE
