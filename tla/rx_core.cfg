SPECIFICATION MCSpec
CONSTANTS
  NoFinding = NoFinding
  Finding = {f1, f2}
  Execution = {1, 2, 3}
  ApprovalRequired = {f1}
  Deferred = {f2}
  Inconclusive = {f1}
  FtpAnonymous = {f1}
  Faults = {"kill", "timeout", "database", "subject", "ftp"}
  SkipStage2 = FALSE
  MaxRequests = 2
INVARIANTS TypeOK OneActiveExecution NoOrphanClaim ClaimHeld AttemptsCountStarts VerdictMatchesEvidence PlaybookOutlivesOnlyItsClient
PROPERTIES VerdictIsFinal ImplementsLifecycle StartedWorkIsSettled ClaimLeavesTheController
CHECK_DEADLOCK FALSE
