SPECIFICATION Spec
CONSTANTS
  NoFinding = NoFinding
  Finding = {f1}
  Execution = {e1, e2}
  ApprovalRequired = {}
  Deferred = {}
  Inconclusive = {f1}
  FtpAnonymous = {}
  Faults = {}
  SkipStage2 = FALSE
  MaxRequests = 2
INVARIANTS OneUnfinishedExecution
CHECK_DEADLOCK FALSE
