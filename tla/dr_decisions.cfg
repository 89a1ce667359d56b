SPECIFICATION MCSpec
CONSTANTS
  NoRefresh = NoRefresh
  Idle = Idle
  NoOne = NoOne
  NoVerdict = NoVerdict
  Finding = {f1}
  Refresh = {r1, r2}
  ScanReports <- PartialReports
  Job = {j1}
  Reconciler = {w1, w2}
  Filtered = {r1}
  Overlap = TRUE
  Losses = TRUE
  MaxRedeliveries = 1
  BatchSize = 1
  MaxTroubles = 1
  MaxEvents = 1
  secondReconciler = w2
INVARIANTS TypeOK PresenceNeedsEvidence AbsenceNeedsEvidence
PROPERTIES OneVerdict DecidableJobCompletes
CHECK_DEADLOCK FALSE
