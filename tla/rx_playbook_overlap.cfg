SPECIFICATION Spec
CONSTANTS
  NoFinding = NoFinding
  Finding = {f1}
  Execution = {e1, e2}
  ApprovalRequired = {}
  Deferred = {}
  Inconclusive = {}
  FtpAnonymous = {}
  Faults = {"timeout"}
  SkipStage2 = FALSE
  MaxRequests = 1
INVARIANTS OnePlaybookPerFinding
CHECK_DEADLOCK FALSE
