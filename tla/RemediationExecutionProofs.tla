---------------------- MODULE RemediationExecutionProofs ----------------------
(***************************************************************************)
(* Proofs about RemediationExecution, for any number of findings and       *)
(* executions, any routing of the findings and any set of faults.          *)
(***************************************************************************)
EXTENDS RemediationExecution, FiniteSetTheorems, TLAPS

USE DEF vars, findingVars, evidenceVars

(* What the SQL functions leave of the types of the rows they touch.       *)
FindingRowsOK ==
  /\ lifecycle \in [Finding -> {"OPEN", "IN_REMEDIATION", "RESOLVED"}]
  /\ cooling \in [Finding -> BOOLEAN]

(* reopen_failed_remediation keeps the types of the finding rows.          *)
LEMMA ReopenKeepsRows ==
  ASSUME TypeOK, NEW f, ReopenFailed(f) PROVE FindingRowsOK'
<1>1. \A g \in Finding : cooling'[g] \in BOOLEAN
  BY DEF TypeOK, ReopenFailed
<1>2. cooling' \in [Finding -> BOOLEAN]
  BY <1>1 DEF TypeOK, ReopenFailed
<1>3. lifecycle' \in [Finding -> {"OPEN", "IN_REMEDIATION", "RESOLVED"}]
  BY DEF TypeOK, ReopenFailed
<1> QED
  BY <1>2, <1>3 DEF FindingRowsOK

(* Failing an execution keeps the types of its row and its finding.        *)
LEMMA FailKeepsRows ==
  ASSUME TypeOK, NEW e \in Execution, FailExecution(e)
  PROVE  FindingRowsOK' /\ status' \in [Execution -> Status]
  BY ReopenKeepsRows DEF TypeOK, FailExecution, Status, Terminal

(* resolve_finding keeps the types of the finding rows.                    *)
LEMMA ResolveKeepsRows ==
  ASSUME TypeOK, NEW f, ResolveFinding(f) PROVE FindingRowsOK'
  BY DEF TypeOK, ResolveFinding, FindingRowsOK

(* The attempt-counting trigger keeps the types of the finding rows.       *)
LEMMA CountKeepsRows ==
  ASSUME TypeOK, NEW e \in Execution, CountAttempt(e)
  PROVE  /\ lifecycle' \in [Finding -> {"OPEN", "IN_REMEDIATION", "RESOLVED"}]
         /\ attempts' \in [Finding -> Nat]
         /\ counted' \in [Execution -> BOOLEAN]
<1>1. \A f \in Finding : attempts'[f] \in Nat
  BY DEF TypeOK, CountAttempt
<1>2. attempts' \in [Finding -> Nat]
  BY <1>1 DEF TypeOK, CountAttempt
<1>3. counted' \in [Execution -> BOOLEAN]
  BY DEF TypeOK, CountAttempt
<1>4. lifecycle' \in [Finding -> {"OPEN", "IN_REMEDIATION", "RESOLVED"}]
  BY DEF TypeOK, CountAttempt
<1> QED
  BY <1>2, <1>3, <1>4

(* The values every variable keeps, whatever the threads, the runner, the  *)
(* reviewers and the faults do.                                            *)
THEOREM TypeCorrect == Spec => []TypeOK
<1> USE DEF TypeOK, Status, Unfinished, Active, Terminal, Verdict, Place,
            Playbook, Decision, LeaveThread
<1>1. Init => TypeOK
  BY DEF Init
<1>2. TypeOK /\ [Next]_vars => TypeOK'
  <2> SUFFICES ASSUME TypeOK, [Next]_vars PROVE TypeOK'
    OBVIOUS
  <2>1. ASSUME NEW f \in Finding, Dispatch(f) PROVE TypeOK'
    BY <2>1 DEF Dispatch
  <2>2. ASSUME NEW f \in Finding, RejectRequest(f) PROVE TypeOK'
    BY <2>2 DEF RejectRequest
  <2>3. ASSUME NEW f \in Finding, CooldownElapses(f) PROVE TypeOK'
    BY <2>3 DEF CooldownElapses
  <2>4. ASSUME NEW f \in Finding, Recur(f) PROVE TypeOK'
    BY <2>4 DEF Recur
  <2>5. ASSUME NEW f \in Finding, NEW e \in Execution, Claim(f, e) PROVE TypeOK'
    BY <2>5 DEF Claim
  <2>6. ASSUME NEW e \in Execution, Approve(e) PROVE TypeOK'
    BY <2>6, CountKeepsRows DEF Approve
  <2>7. ASSUME NEW e \in Execution, Cancel(e) PROVE TypeOK'
    BY <2>7 DEF Cancel
  <2>8. ASSUME NEW e \in Execution, StartRunning(e) PROVE TypeOK'
    BY <2>8, CountKeepsRows DEF StartRunning
  <2>9. ASSUME NEW e \in Execution, BeginStage1(e) PROVE TypeOK'
    BY <2>9 DEF BeginStage1
  <2>10. ASSUME NEW e \in Execution, BeginStage1Fails(e) PROVE TypeOK'
    BY <2>10, FailKeepsRows DEF BeginStage1Fails, FindingRowsOK
  <2>11. ASSUME NEW e \in Execution, RecordStage1(e) PROVE TypeOK'
    BY <2>11, FailKeepsRows DEF RecordStage1, FindingRowsOK
  <2>12. ASSUME NEW e \in Execution, AnsibleRaises(e) PROVE TypeOK'
    BY <2>12, FailKeepsRows DEF AnsibleRaises, FindingRowsOK
  <2>13. ASSUME NEW e \in Execution, BeginStage2(e) PROVE TypeOK'
    BY <2>13 DEF BeginStage2
  <2>14. ASSUME NEW e \in Execution, ScannerAbsent(e) PROVE TypeOK'
    BY <2>14, ResolveKeepsRows DEF ScannerAbsent, FindingRowsOK
  <2>15. ASSUME NEW e \in Execution, ScannerPresent(e) PROVE TypeOK'
    BY <2>15, FailKeepsRows DEF ScannerPresent, FindingRowsOK
  <2>16. ASSUME NEW e \in Execution, ScannerInconclusive(e) PROVE TypeOK'
    BY <2>16 DEF ScannerInconclusive
  <2>17. ASSUME NEW e \in Execution, ScannerRaises(e) PROVE TypeOK'
    BY <2>17 DEF ScannerRaises
  <2>18. ASSUME NEW e \in Execution, HandleStage2Error(e) PROVE TypeOK'
    BY <2>18, FailKeepsRows DEF HandleStage2Error, FindingRowsOK
  <2>19. ASSUME NEW e \in Execution, FtpIdentityMismatch(e) PROVE TypeOK'
    BY <2>19 DEF FtpIdentityMismatch
  <2>20. ASSUME NEW e \in Execution, SubjectMissing(e) PROVE TypeOK'
    BY <2>20 DEF SubjectMissing
  <2>21. ASSUME NEW e \in Execution, KillThread(e) PROVE TypeOK'
    BY <2>21 DEF KillThread
  <2>22. ASSUME NEW e \in Execution, RunnerStarts(e) PROVE TypeOK'
    BY <2>22 DEF RunnerStarts
  <2>23. ASSUME NEW e \in Execution, RunnerEnds(e) PROVE TypeOK'
    BY <2>23 DEF RunnerEnds
  <2>24. ASSUME NEW e \in Execution, Reconcile(e) PROVE TypeOK'
    BY <2>24, FailKeepsRows, ResolveKeepsRows DEF Reconcile, FindingRowsOK
  <2>25. ASSUME NEW e \in Execution, Decide(e) PROVE TypeOK'
    BY <2>25, FailKeepsRows, ResolveKeepsRows DEF Decide, FindingRowsOK
  <2>26. ASSUME NEW e \in Execution, ApproveReads(e) PROVE TypeOK'
    BY <2>26 DEF ApproveReads
  <2>27. CASE UNCHANGED vars
    BY <2>27
  <2> QED
    BY <2>1, <2>2, <2>3, <2>4, <2>5, <2>6, <2>7, <2>8, <2>9, <2>10, <2>11, <2>12, <2>13, <2>14, <2>15, <2>16, <2>17, <2>18, <2>19, <2>20, <2>21, <2>22, <2>23, <2>24, <2>25, <2>26, <2>27 DEF Next, ThreadStep, ThreadDies
<1> QED
  BY <1>1, <1>2, PTL DEF Spec

-----------------------------------------------------------------------------
(* The inductive invariant: rows *)

(* A row whose variables a step leaves alone stays consistent.             *)
LEMMA UntouchedRow ==
  ASSUME NEW d, Row(d),
         findingOf'[d] = findingOf[d], status'[d] = status[d],
         counted'[d] = counted[d], stage1'[d] = stage1[d],
         stage2'[d] = stage2[d], job'[d] = job[d], review'[d] = review[d],
         decisions'[d] = decisions[d], pc'[d] = pc[d], playbook'[d] = playbook[d]
  PROVE  Row(d)'
  BY DEF Row, ThreadOf, EvidenceOf, VerdictOf, RunnerOf, GivenUp

(* Whatever a step of one execution does, its rows and the rows of all the *)
(* others stay consistent with their evidence and their threads.           *)
LEMMA RowsKept ==
  ASSUME TypeOK, TypeOK', \A d \in Execution : Row(d), [Next]_vars
  PROVE  \A d \in Execution : Row(d)'
<1> SUFFICES ASSUME NEW d \in Execution PROVE Row(d)'
  OBVIOUS
<1>a. Row(d)
  OBVIOUS
<1> USE DEF TypeOK, LeaveThread
<1>1. ASSUME NEW f \in Finding, Dispatch(f) PROVE Row(d)'
  BY <1>a, <1>1, UntouchedRow DEF Dispatch
<1>2. ASSUME NEW f \in Finding, RejectRequest(f) PROVE Row(d)'
  BY <1>a, <1>2, UntouchedRow DEF RejectRequest
<1>3. ASSUME NEW f \in Finding, CooldownElapses(f) PROVE Row(d)'
  BY <1>a, <1>3, UntouchedRow DEF CooldownElapses
<1>4. ASSUME NEW f \in Finding, Recur(f) PROVE Row(d)'
  BY <1>a, <1>4, UntouchedRow DEF Recur
<1>5. ASSUME NEW f \in Finding, NEW e \in Execution, Claim(f, e) PROVE Row(d)'
  <2>1. CASE d # e
    BY <1>a, <1>5, <2>1, UntouchedRow DEF Claim
  <2>2. CASE d = e
    BY <1>a, <1>5, <2>2, NoFindingAssumption
    DEF Claim, Row, ThreadOf, EvidenceOf, VerdictOf, RunnerOf, GivenUp, NotStarted, Unfinished, Active, Terminal
  <2> QED
    BY <2>1, <2>2
<1>6. ASSUME NEW e \in Execution, Approve(e) PROVE Row(d)'
  <2>1. CASE d # e
    <3>1. counted'[d] = counted[d]
      BY <1>6, <2>1 DEF Approve, CountAttempt
    <3> QED
      BY <1>a, <1>6, <2>1, <3>1, UntouchedRow DEF Approve
  <2>2. CASE d = e
    BY <1>a, <1>6, <2>2
    DEF Approve, CountAttempt, Row, ThreadOf, EvidenceOf, VerdictOf, RunnerOf, GivenUp, NotStarted, Unfinished, Active, Terminal
  <2> QED
    BY <2>1, <2>2
<1>7. ASSUME NEW e \in Execution, Cancel(e) PROVE Row(d)'
  <2>1. CASE d # e
    BY <1>a, <1>7, <2>1, UntouchedRow DEF Cancel, AwaitsApproval
  <2>2. CASE d = e
    BY <1>a, <1>7, <2>2
    DEF Cancel, AwaitsApproval, Row, ThreadOf, EvidenceOf, VerdictOf, RunnerOf, GivenUp, NotStarted, Unfinished, Active, Terminal
  <2> QED
    BY <2>1, <2>2
<1>8. ASSUME NEW e \in Execution, StartRunning(e) PROVE Row(d)'
  <2>1. CASE d # e
    <3>1. counted'[d] = counted[d]
      BY <1>8, <2>1 DEF StartRunning, CountAttempt
    <3> QED
      BY <1>a, <1>8, <2>1, <3>1, UntouchedRow DEF StartRunning
  <2>2. CASE d = e
    BY <1>a, <1>8, <2>2
    DEF StartRunning, CountAttempt, Row, ThreadOf, EvidenceOf, VerdictOf, RunnerOf, GivenUp, NotStarted, Unfinished, Active, Terminal
  <2> QED
    BY <2>1, <2>2
<1>9. ASSUME NEW e \in Execution, BeginStage1(e) PROVE Row(d)'
  <2>1. CASE d # e
    BY <1>a, <1>9, <2>1, UntouchedRow DEF BeginStage1, MayVerify
  <2>2. CASE d = e
    BY <1>a, <1>9, <2>2
    DEF BeginStage1, MayVerify, Row, ThreadOf, EvidenceOf, VerdictOf, RunnerOf, GivenUp, NotStarted, Unfinished, Active, Terminal
  <2> QED
    BY <2>1, <2>2
<1>10. ASSUME NEW e \in Execution, BeginStage1Fails(e) PROVE Row(d)'
  <2>1. CASE d # e
    BY <1>a, <1>10, <2>1, UntouchedRow DEF BeginStage1Fails, MayVerify, FailExecution
  <2>2. CASE d = e
    BY <1>a, <1>10, <2>2
    DEF BeginStage1Fails, MayVerify, FailExecution, Row, ThreadOf, EvidenceOf, VerdictOf, RunnerOf, GivenUp, NotStarted, Unfinished, Active, Terminal
  <2> QED
    BY <2>1, <2>2
<1>11. ASSUME NEW e \in Execution, RecordStage1(e) PROVE Row(d)'
  <2>1. CASE d # e
    BY <1>a, <1>11, <2>1, UntouchedRow DEF RecordStage1, FailExecution
  <2>2. CASE d = e
    BY <1>a, <1>11, <2>2
    DEF RecordStage1, FailExecution, Row, ThreadOf, EvidenceOf, VerdictOf, RunnerOf, GivenUp, NotStarted, Unfinished, Active, Terminal
  <2> QED
    BY <2>1, <2>2
<1>12. ASSUME NEW e \in Execution, AnsibleRaises(e) PROVE Row(d)'
  <2>1. CASE d # e
    BY <1>a, <1>12, <2>1, UntouchedRow DEF AnsibleRaises, FailExecution
  <2>2. CASE d = e
    BY <1>a, <1>12, <2>2
    DEF AnsibleRaises, FailExecution, Row, ThreadOf, EvidenceOf, VerdictOf, RunnerOf, GivenUp, NotStarted, Unfinished, Active, Terminal
  <2> QED
    BY <2>1, <2>2
<1>13. ASSUME NEW e \in Execution, BeginStage2(e) PROVE Row(d)'
  <2>1. CASE d # e
    BY <1>a, <1>13, <2>1, UntouchedRow DEF BeginStage2, MayVerify
  <2>2. CASE d = e
    BY <1>a, <1>13, <2>2
    DEF BeginStage2, MayVerify, Row, ThreadOf, EvidenceOf, VerdictOf, RunnerOf, GivenUp, NotStarted, Unfinished, Active, Terminal
  <2> QED
    BY <2>1, <2>2
<1>14. ASSUME NEW e \in Execution, ScannerAbsent(e) PROVE Row(d)'
  <2>1. CASE d # e
    BY <1>a, <1>14, <2>1, UntouchedRow DEF ScannerAbsent
  <2>2. CASE d = e
    BY <1>a, <1>14, <2>2
    DEF ScannerAbsent, Row, ThreadOf, EvidenceOf, VerdictOf, RunnerOf, GivenUp, NotStarted, Unfinished, Active, Terminal
  <2> QED
    BY <2>1, <2>2
<1>15. ASSUME NEW e \in Execution, ScannerPresent(e) PROVE Row(d)'
  <2>1. CASE d # e
    BY <1>a, <1>15, <2>1, UntouchedRow DEF ScannerPresent, FailExecution
  <2>2. CASE d = e
    BY <1>a, <1>15, <2>2
    DEF ScannerPresent, FailExecution, Row, ThreadOf, EvidenceOf, VerdictOf, RunnerOf, GivenUp, NotStarted, Unfinished, Active, Terminal
  <2> QED
    BY <2>1, <2>2
<1>16. ASSUME NEW e \in Execution, ScannerInconclusive(e) PROVE Row(d)'
  <2>1. CASE d # e
    BY <1>a, <1>16, <2>1, UntouchedRow DEF ScannerInconclusive
  <2>2. CASE d = e
    BY <1>a, <1>16, <2>2
    DEF ScannerInconclusive, Row, ThreadOf, EvidenceOf, VerdictOf, RunnerOf, GivenUp, NotStarted, Unfinished, Active, Terminal
  <2> QED
    BY <2>1, <2>2
<1>17. ASSUME NEW e \in Execution, ScannerRaises(e) PROVE Row(d)'
  <2>1. CASE d # e
    BY <1>a, <1>17, <2>1, UntouchedRow DEF ScannerRaises
  <2>2. CASE d = e
    BY <1>a, <1>17, <2>2
    DEF ScannerRaises, Row, ThreadOf, EvidenceOf, VerdictOf, RunnerOf, GivenUp, NotStarted, Unfinished, Active, Terminal
  <2> QED
    BY <2>1, <2>2
<1>18. ASSUME NEW e \in Execution, HandleStage2Error(e) PROVE Row(d)'
  <2>1. CASE d # e
    BY <1>a, <1>18, <2>1, UntouchedRow DEF HandleStage2Error, FailExecution
  <2>2. CASE d = e
    BY <1>a, <1>18, <2>2
    DEF HandleStage2Error, FailExecution, Row, ThreadOf, EvidenceOf, VerdictOf, RunnerOf, GivenUp, NotStarted, Unfinished, Active, Terminal
  <2> QED
    BY <2>1, <2>2
<1>19. ASSUME NEW e \in Execution, FtpIdentityMismatch(e) PROVE Row(d)'
  <2>1. CASE d # e
    BY <1>a, <1>19, <2>1, UntouchedRow DEF FtpIdentityMismatch
  <2>2. CASE d = e
    BY <1>a, <1>19, <2>2
    DEF FtpIdentityMismatch, Row, ThreadOf, EvidenceOf, VerdictOf, RunnerOf, GivenUp, NotStarted, Unfinished, Active, Terminal
  <2> QED
    BY <2>1, <2>2
<1>20. ASSUME NEW e \in Execution, SubjectMissing(e) PROVE Row(d)'
  <2>1. CASE d # e
    BY <1>a, <1>20, <2>1, UntouchedRow DEF SubjectMissing
  <2>2. CASE d = e
    BY <1>a, <1>20, <2>2
    DEF SubjectMissing, Row, ThreadOf, EvidenceOf, VerdictOf, RunnerOf, GivenUp, NotStarted, Unfinished, Active, Terminal
  <2> QED
    BY <2>1, <2>2
<1>21. ASSUME NEW e \in Execution, KillThread(e) PROVE Row(d)'
  <2>1. CASE d # e
    BY <1>a, <1>21, <2>1, UntouchedRow DEF KillThread
  <2>2. CASE d = e
    BY <1>a, <1>21, <2>2
    DEF KillThread, Place, Row, ThreadOf, EvidenceOf, VerdictOf, RunnerOf, GivenUp, NotStarted, Unfinished, Active, Terminal
  <2> QED
    BY <2>1, <2>2
<1>22. ASSUME NEW e \in Execution, RunnerStarts(e) PROVE Row(d)'
  <2>1. CASE d # e
    BY <1>a, <1>22, <2>1, UntouchedRow DEF RunnerStarts
  <2>2. CASE d = e
    BY <1>a, <1>22, <2>2
    DEF RunnerStarts, Row, ThreadOf, EvidenceOf, VerdictOf, RunnerOf, GivenUp, NotStarted, Unfinished, Active, Terminal
  <2> QED
    BY <2>1, <2>2
<1>23. ASSUME NEW e \in Execution, RunnerEnds(e) PROVE Row(d)'
  <2>1. CASE d # e
    BY <1>a, <1>23, <2>1, UntouchedRow DEF RunnerEnds
  <2>2. CASE d = e
    BY <1>a, <1>23, <2>2
    DEF RunnerEnds, Row, ThreadOf, EvidenceOf, VerdictOf, RunnerOf, GivenUp, NotStarted, Unfinished, Active, Terminal
  <2> QED
    BY <2>1, <2>2
<1>24. ASSUME NEW e \in Execution, Reconcile(e) PROVE Row(d)'
  <2>1. CASE d # e
    BY <1>a, <1>24, <2>1, UntouchedRow DEF Reconcile, FailExecution
  <2>2. CASE d = e
    BY <1>a, <1>24, <2>2
    DEF Reconcile, FailExecution, Row, ThreadOf, EvidenceOf, VerdictOf, RunnerOf, GivenUp, NotStarted, Unfinished, Active, Terminal
  <2> QED
    BY <2>1, <2>2
<1>25. ASSUME NEW e \in Execution, Decide(e) PROVE Row(d)'
  <2>1. CASE d # e
    BY <1>a, <1>25, <2>1, UntouchedRow DEF Decide, FailExecution, Decision
  <2>2. CASE d = e
    BY <1>a, <1>25, <2>2
    DEF Decide, FailExecution, Decision, Row, ThreadOf, EvidenceOf, VerdictOf, RunnerOf, GivenUp, NotStarted, Unfinished, Active, Terminal
  <2> QED
    BY <2>1, <2>2
<1>26. ASSUME NEW e \in Execution, ApproveReads(e) PROVE Row(d)'
  <2>1. CASE d # e
    BY <1>a, <1>26, <2>1, UntouchedRow DEF ApproveReads
  <2>2. CASE d = e
    BY <1>a, <1>26, <2>2
    DEF ApproveReads, AwaitsApproval, Row, ThreadOf, EvidenceOf, VerdictOf, RunnerOf, GivenUp, NotStarted, Unfinished, Active, Terminal
  <2> QED
    BY <2>1, <2>2
<1>27. CASE UNCHANGED vars
  BY <1>a, <1>27, UntouchedRow
<1> QED
  BY <1>1, <1>2, <1>3, <1>4, <1>5, <1>6, <1>7, <1>8, <1>9, <1>10, <1>11, <1>12, <1>13, <1>14, <1>15, <1>16, <1>17, <1>18, <1>19, <1>20, <1>21, <1>22, <1>23, <1>24, <1>25, <1>26, <1>27 DEF Next, ThreadStep, ThreadDies

-----------------------------------------------------------------------------
(* The inductive invariant: claims *)

(* The rows, before and after a step.                                      *)
Rows == TypeOK /\ \A d \in Execution : Row(d)

(* A row with a finding is one that exists.                                *)
LEMMA RowHasFinding ==
  ASSUME Rows, NEW e \in Execution, status[e] # "none" PROVE findingOf[e] \in Finding
  BY DEF Rows, TypeOK, Row, EvidenceOf

(* A step that leaves claims and statuses alone keeps the claims.          *)
LEMMA ClaimsUntouched ==
  ASSUME Claims, UNCHANGED <<lifecycle, findingOf, status>> PROVE Claims'
  BY DEF Claims, OneActiveExecution, NoOrphanClaim, ClaimHeld, ActiveOn, UnfinishedOn

(* An active execution moves on, and its finding stays or becomes          *)
(* IN_REMEDIATION.                                                         *)
LEMMA ClaimsAfterMove ==
  ASSUME Rows, Claims, NEW e \in Execution,
         status[e] \in Active, status'[e] \in Unfinished,
         \A d \in Execution \ {e} : status'[d] = status[d],
         UNCHANGED findingOf,
         \A f \in Finding : \/ lifecycle'[f] = lifecycle[f]
                            \/ f = findingOf[e] /\ lifecycle'[f] = "IN_REMEDIATION"
  PROVE  Claims'
<1>1. findingOf[e] \in Finding
  BY RowHasFinding DEF Active
<1>2. OneActiveExecution'
  BY DEF Claims, OneActiveExecution, ActiveOn
<1>3. NoOrphanClaim'
  <2> SUFFICES ASSUME NEW f \in Finding, lifecycle'[f] = "IN_REMEDIATION"
               PROVE  \E d \in Execution : UnfinishedOn(f, d)'
    BY DEF NoOrphanClaim
  <2>1. CASE f = findingOf[e]
    BY <2>1 DEF UnfinishedOn
  <2>2. CASE f # findingOf[e]
    <3>1. PICK d \in Execution : UnfinishedOn(f, d)
      BY <2>2 DEF Claims, NoOrphanClaim
    <3> QED
      BY <2>2, <3>1 DEF UnfinishedOn
  <2> QED
    BY <2>1, <2>2
<1>4. ClaimHeld'
  <2> SUFFICES ASSUME NEW d \in Execution, status'[d] \in Unfinished,
                      findingOf[d] \notin Inconclusive
               PROVE  lifecycle'[findingOf[d]] = "IN_REMEDIATION"
    BY DEF ClaimHeld
  <2>1. status[d] \in Unfinished
    BY DEF Unfinished
  <2>2. findingOf[d] \in Finding
    BY <2>1, RowHasFinding DEF Unfinished, Active
  <2> QED
    BY <2>1, <2>2 DEF Claims, ClaimHeld
<1> QED
  BY <1>2, <1>3, <1>4 DEF Claims

(* An execution ends and its finding is not left IN_REMEDIATION.  Another  *)
(* execution of that finding may still be unfinished only if the finding's *)
(* scanner can answer INCONCLUSIVE: this is where the unique index counts. *)
LEMMA ClaimsAfterEnd ==
  ASSUME Rows, Claims, NEW e \in Execution,
         status[e] \in Unfinished, status'[e] \in Terminal,
         \A d \in Execution \ {e} : status'[d] = status[d],
         UNCHANGED findingOf,
         \A f \in Finding \ {findingOf[e]} : lifecycle'[f] = lifecycle[f],
         lifecycle'[findingOf[e]] # "IN_REMEDIATION"
  PROVE  Claims'
<1>1. findingOf[e] \in Finding
  BY RowHasFinding DEF Unfinished, Active
<1>2. status'[e] \notin Unfinished
  BY DEF Terminal, Unfinished, Active
<1>3. OneActiveExecution'
  BY <1>2 DEF Claims, OneActiveExecution, ActiveOn, Unfinished
<1>4. NoOrphanClaim'
  <2> SUFFICES ASSUME NEW f \in Finding, lifecycle'[f] = "IN_REMEDIATION"
               PROVE  \E d \in Execution : UnfinishedOn(f, d)'
    BY DEF NoOrphanClaim
  <2>1. f # findingOf[e] /\ lifecycle[f] = "IN_REMEDIATION"
    OBVIOUS
  <2>2. PICK d \in Execution : UnfinishedOn(f, d)
    BY <2>1 DEF Claims, NoOrphanClaim
  <2> QED
    BY <2>1, <2>2 DEF UnfinishedOn
<1>5. ClaimHeld'
  <2> SUFFICES ASSUME NEW d \in Execution, status'[d] \in Unfinished,
                      findingOf[d] \notin Inconclusive
               PROVE  lifecycle'[findingOf[d]] = "IN_REMEDIATION"
    BY DEF ClaimHeld
  <2>1. d # e /\ status[d] \in Unfinished
    BY <1>2
  <2>2. findingOf[d] \in Finding
    BY <2>1, RowHasFinding DEF Unfinished, Active
  <2>3. lifecycle[findingOf[d]] = "IN_REMEDIATION"
    BY <2>1 DEF Claims, ClaimHeld
  <2>4. CASE findingOf[d] # findingOf[e]
    BY <2>2, <2>3, <2>4
  <2>5. CASE findingOf[d] = findingOf[e]
    <3>1. status[d] \in Active /\ status[e] \in Active
      BY <2>1, <2>5 DEF Rows, Row, EvidenceOf, Unfinished
    <3> QED
      BY <1>1, <2>1, <2>5, <3>1 DEF Claims, OneActiveExecution, ActiveOn
  <2> QED
    BY <2>4, <2>5
<1> QED
  BY <1>3, <1>4, <1>5 DEF Claims

(* An execution that fails gives up its own claim and no other.            *)
LEMMA ClaimsAfterFailure ==
  ASSUME Rows, Claims, NEW e \in Execution, status[e] \in Unfinished,
         FailExecution(e), UNCHANGED findingOf
  PROVE  Claims'
<1>1. findingOf[e] \in Finding
  BY RowHasFinding DEF Unfinished, Active
<1>2. lifecycle'[findingOf[e]] # "IN_REMEDIATION"
  BY <1>1 DEF Rows, TypeOK, FailExecution, ReopenFailed
<1>3. \A f \in Finding \ {findingOf[e]} : lifecycle'[f] = lifecycle[f]
  BY DEF Rows, TypeOK, FailExecution, ReopenFailed
<1>4. status'[e] \in Terminal /\ \A d \in Execution \ {e} : status'[d] = status[d]
  BY DEF Rows, TypeOK, FailExecution, Terminal
<1> QED
  BY <1>2, <1>3, <1>4, ClaimsAfterEnd

(* An execution that succeeds resolves its own finding only.               *)
LEMMA ClaimsAfterSuccess ==
  ASSUME Rows, Claims, NEW e \in Execution, status[e] \in Unfinished,
         status' = [status EXCEPT ![e] = "SUCCESS"], ResolveFinding(findingOf[e]),
         UNCHANGED findingOf
  PROVE  Claims'
<1>1. findingOf[e] \in Finding
  BY RowHasFinding DEF Unfinished, Active
<1>2. lifecycle'[findingOf[e]] # "IN_REMEDIATION"
  BY <1>1 DEF Rows, TypeOK, ResolveFinding
<1>3. \A f \in Finding \ {findingOf[e]} : lifecycle'[f] = lifecycle[f]
  BY DEF Rows, TypeOK, ResolveFinding
<1>4. status'[e] \in Terminal /\ \A d \in Execution \ {e} : status'[d] = status[d]
  BY DEF Rows, TypeOK, Terminal
<1> QED
  BY <1>2, <1>3, <1>4, ClaimsAfterEnd

(* A start claims the finding again if need be, and keeps the claims.      *)
LEMMA ClaimsAfterStart ==
  ASSUME Rows, Claims, NEW e \in Execution, status[e] \in Active,
         status' = [status EXCEPT ![e] = "RUNNING"], CountAttempt(e),
         UNCHANGED findingOf
  PROVE  Claims'
<1>1. \A f \in Finding : \/ lifecycle'[f] = lifecycle[f]
                         \/ f = findingOf[e] /\ lifecycle'[f] = "IN_REMEDIATION"
  BY DEF Rows, TypeOK, CountAttempt
<1>2. status'[e] \in Unfinished /\ \A d \in Execution \ {e} : status'[d] = status[d]
  BY DEF Rows, TypeOK, Unfinished, Active
<1> QED
  BY <1>1, <1>2, ClaimsAfterMove

(* The claiming transaction adds one execution the index has admitted.     *)
LEMMA ClaimsAfterClaim ==
  ASSUME Rows, Claims, NEW f \in Finding, NEW e \in Execution, Claim(f, e)
  PROVE  Claims'
<1>1. /\ findingOf'[e] = f
      /\ status'[e] \in {"QUEUED", "AWAITING_APPROVAL"}
      /\ \A d \in Execution \ {e} : findingOf'[d] = findingOf[d] /\ status'[d] = status[d]
  BY DEF Rows, TypeOK, Claim
<1>2. /\ lifecycle'[f] = "IN_REMEDIATION"
      /\ \A g \in Finding \ {f} : lifecycle'[g] = lifecycle[g]
  BY DEF Rows, TypeOK, Claim
<1>3. OneActiveExecution'
  BY <1>1 DEF Claim, IndexAdmits, Claims, OneActiveExecution, ActiveOn
<1>4. NoOrphanClaim'
  <2> SUFFICES ASSUME NEW g \in Finding, lifecycle'[g] = "IN_REMEDIATION"
               PROVE  \E d \in Execution : UnfinishedOn(g, d)'
    BY DEF NoOrphanClaim
  <2>1. CASE g = f
    BY <1>1, <2>1 DEF UnfinishedOn, Unfinished, Active
  <2>2. CASE g # f
    <3>1. PICK d \in Execution : UnfinishedOn(g, d)
      BY <1>2, <2>2 DEF Claims, NoOrphanClaim
    <3>2. d # e
      BY <3>1 DEF Claim, UnfinishedOn, Unfinished, Active
    <3> QED
      BY <1>1, <3>1, <3>2 DEF UnfinishedOn
  <2> QED
    BY <2>1, <2>2
<1>5. ClaimHeld'
  <2> SUFFICES ASSUME NEW d \in Execution, status'[d] \in Unfinished,
                      findingOf'[d] \notin Inconclusive
               PROVE  lifecycle'[findingOf'[d]] = "IN_REMEDIATION"
    BY DEF ClaimHeld
  <2>1. CASE d = e
    BY <1>1, <1>2, <2>1
  <2>2. CASE d # e
    <3>1. findingOf[d] \in Finding
      BY <1>1, <2>2, RowHasFinding DEF Unfinished, Active
    <3> QED
      BY <1>1, <1>2, <2>2, <3>1 DEF Claims, ClaimHeld
  <2> QED
    BY <2>1, <2>2
<1> QED
  BY <1>3, <1>4, <1>5 DEF Claims

(* A finding that comes back was nobody's: it was RESOLVED.                *)
LEMMA ClaimsAfterRecurrence ==
  ASSUME Rows, Claims, NEW f \in Finding, Recur(f) PROVE Claims'
<1>1. \A g \in Finding : \/ lifecycle'[g] = lifecycle[g]
                         \/ g = f /\ lifecycle[g] = "RESOLVED" /\ lifecycle'[g] = "OPEN"
  BY DEF Rows, TypeOK, Recur
<1>2. OneActiveExecution'
  BY DEF Recur, Claims, OneActiveExecution, ActiveOn
<1>3. NoOrphanClaim'
  BY <1>1 DEF Recur, Claims, NoOrphanClaim, UnfinishedOn
<1>4. ClaimHeld'
  <2> SUFFICES ASSUME NEW d \in Execution, status[d] \in Unfinished,
                      findingOf[d] \notin Inconclusive
               PROVE  lifecycle'[findingOf[d]] = "IN_REMEDIATION"
    BY DEF ClaimHeld, Recur
  <2>1. findingOf[d] \in Finding
    BY RowHasFinding DEF Unfinished, Active
  <2> QED
    BY <1>1, <2>1 DEF Claims, ClaimHeld
<1> QED
  BY <1>2, <1>3, <1>4 DEF Claims

(* A cancelled approval gives up its own claim and no other.               *)
LEMMA ClaimsAfterCancellation ==
  ASSUME Rows, Claims, NEW e \in Execution, Cancel(e) PROVE Claims'
<1>1. status[e] \in Unfinished
  BY DEF Cancel, AwaitsApproval, Unfinished, Active
<1>2. findingOf[e] \in Finding
  BY <1>1, RowHasFinding DEF Unfinished, Active
<1>3. /\ lifecycle'[findingOf[e]] # "IN_REMEDIATION"
      /\ \A g \in Finding \ {findingOf[e]} : lifecycle'[g] = lifecycle[g]
  BY <1>2 DEF Rows, TypeOK, Cancel
<1>4. status'[e] \in Terminal /\ \A d \in Execution \ {e} : status'[d] = status[d]
  BY DEF Rows, TypeOK, Cancel, Terminal
<1> QED
  BY <1>1, <1>3, <1>4, ClaimsAfterEnd DEF Cancel

(* No step leaves a finding claimed by nobody, claims one twice among the  *)
(* executions the index covers, or takes a claim from under an execution.  *)
LEMMA ClaimsKept ==
  ASSUME Rows, Claims, [Next]_vars PROVE Claims'
<1> USE DEF Unfinished, Active
<1>1. ASSUME NEW f \in Finding, Dispatch(f) PROVE Claims'
  BY <1>1, ClaimsUntouched DEF Dispatch
<1>2. ASSUME NEW f \in Finding, RejectRequest(f) PROVE Claims'
  BY <1>2, ClaimsUntouched DEF RejectRequest
<1>3. ASSUME NEW f \in Finding, CooldownElapses(f) PROVE Claims'
  BY <1>3, ClaimsUntouched DEF CooldownElapses
<1>4. ASSUME NEW f \in Finding, Recur(f) PROVE Claims'
  BY <1>4, ClaimsAfterRecurrence
<1>5. ASSUME NEW f \in Finding, NEW e \in Execution, Claim(f, e) PROVE Claims'
  BY <1>5, ClaimsAfterClaim
<1>6. ASSUME NEW e \in Execution, Approve(e) PROVE Claims'
  <2>1. status[e] \in Active
    BY <1>6 DEF Approve, Rows, Row, ThreadOf
  <2> QED
    BY <1>6, <2>1, ClaimsAfterStart DEF Approve
<1>7. ASSUME NEW e \in Execution, Cancel(e) PROVE Claims'
  BY <1>7, ClaimsAfterCancellation
<1>8. ASSUME NEW e \in Execution, StartRunning(e) PROVE Claims'
  <2>1. status[e] \in Active
    BY <1>8 DEF StartRunning, Rows, Row, ThreadOf
  <2> QED
    BY <1>8, <2>1, ClaimsAfterStart DEF StartRunning
<1>9. ASSUME NEW e \in Execution, BeginStage1(e) PROVE Claims'
  BY <1>9, ClaimsUntouched DEF BeginStage1
<1>10. ASSUME NEW e \in Execution, FtpIdentityMismatch(e) PROVE Claims'
  BY <1>10, ClaimsUntouched DEF FtpIdentityMismatch
<1>11. ASSUME NEW e \in Execution, SubjectMissing(e) PROVE Claims'
  BY <1>11, ClaimsUntouched DEF SubjectMissing
<1>12. ASSUME NEW e \in Execution, KillThread(e) PROVE Claims'
  BY <1>12, ClaimsUntouched DEF KillThread
<1>13. ASSUME NEW e \in Execution, RunnerStarts(e) PROVE Claims'
  BY <1>13, ClaimsUntouched DEF RunnerStarts
<1>14. ASSUME NEW e \in Execution, RunnerEnds(e) PROVE Claims'
  BY <1>14, ClaimsUntouched DEF RunnerEnds
<1>15. ASSUME NEW e \in Execution, ScannerRaises(e) PROVE Claims'
  BY <1>15, ClaimsUntouched DEF ScannerRaises
<1>16. ASSUME NEW e \in Execution, BeginStage1Fails(e) PROVE Claims'
  <2>1. status[e] \in Unfinished
    BY <1>16 DEF BeginStage1Fails, Rows, Row, ThreadOf
  <2> QED
    BY <1>16, <2>1, ClaimsAfterFailure DEF BeginStage1Fails
<1>17. ASSUME NEW e \in Execution, AnsibleRaises(e) PROVE Claims'
  <2>1. status[e] \in Unfinished
    BY <1>17 DEF AnsibleRaises, Rows, Row, ThreadOf
  <2> QED
    BY <1>17, <2>1, ClaimsAfterFailure DEF AnsibleRaises
<1>18. ASSUME NEW e \in Execution, ScannerPresent(e) PROVE Claims'
  <2>1. status[e] \in Unfinished
    BY <1>18 DEF ScannerPresent, Rows, Row, ThreadOf
  <2> QED
    BY <1>18, <2>1, ClaimsAfterFailure DEF ScannerPresent
<1>19. ASSUME NEW e \in Execution, HandleStage2Error(e) PROVE Claims'
  <2>1. status[e] \in Unfinished
    BY <1>19 DEF HandleStage2Error, Rows, Row, ThreadOf
  <2> QED
    BY <1>19, <2>1, ClaimsAfterFailure DEF HandleStage2Error
<1>20. ASSUME NEW e \in Execution, RecordStage1(e) PROVE Claims'
  <2>1. status[e] \in Active
    BY <1>20 DEF RecordStage1, Rows, Row, ThreadOf
  <2>2. CASE FailExecution(e)
    BY <1>20, <2>1, <2>2, ClaimsAfterFailure DEF RecordStage1
  <2>3. CASE status' = [status EXCEPT ![e] = "STAGE1_PASSED"] /\ UNCHANGED lifecycle
    <3>1. status'[e] \in Unfinished /\ \A d \in Execution \ {e} : status'[d] = status[d]
      BY <2>3 DEF Rows, TypeOK
    <3> QED
      BY <1>20, <2>1, <2>3, <3>1, ClaimsAfterMove DEF RecordStage1
  <2> QED
    BY <1>20, <2>2, <2>3 DEF RecordStage1
<1>21. ASSUME NEW e \in Execution, BeginStage2(e) PROVE Claims'
  <2>1. status[e] \in Active
    BY <1>21 DEF BeginStage2, Rows, Row, ThreadOf
  <2>2. status'[e] \in Unfinished /\ \A d \in Execution \ {e} : status'[d] = status[d]
    BY <1>21 DEF BeginStage2, Rows, TypeOK
  <2> QED
    BY <1>21, <2>1, <2>2, ClaimsAfterMove DEF BeginStage2
<1>22. ASSUME NEW e \in Execution, ScannerAbsent(e) PROVE Claims'
  <2>1. status[e] \in Unfinished
    BY <1>22 DEF ScannerAbsent, Rows, Row, ThreadOf
  <2>2. CASE CanResolve(findingOf[e]) /\ stage2[e] = "PENDING"
    BY <1>22, <2>1, <2>2, ClaimsAfterSuccess DEF ScannerAbsent
  <2>3. CASE ~(CanResolve(findingOf[e]) /\ stage2[e] = "PENDING")
    BY <1>22, <2>3, ClaimsUntouched DEF ScannerAbsent
  <2> QED
    BY <2>2, <2>3
<1>23. ASSUME NEW e \in Execution, ScannerInconclusive(e) PROVE Claims'
  <2>1. status[e] \in Active
    BY <1>23 DEF ScannerInconclusive, Rows, Row, ThreadOf
  <2>2. CASE UNCHANGED status
    BY <1>23, <2>2, ClaimsUntouched DEF ScannerInconclusive
  <2>3. CASE status' = [status EXCEPT ![e] = "AWAITING_MANUAL_VERIFICATION"]
    <3>1. status'[e] \in Unfinished /\ \A d \in Execution \ {e} : status'[d] = status[d]
      BY <2>3 DEF Rows, TypeOK
    <3> QED
      BY <1>23, <2>1, <3>1, ClaimsAfterMove DEF ScannerInconclusive
  <2> QED
    BY <1>23, <2>2, <2>3 DEF ScannerInconclusive
<1>24. ASSUME NEW e \in Execution, Reconcile(e) PROVE Claims'
  <2>1. status[e] \in Unfinished
    BY <1>24 DEF Reconcile
  <2>2. CASE FailExecution(e)
    BY <1>24, <2>1, <2>2, ClaimsAfterFailure DEF Reconcile
  <2>3. CASE status' = [status EXCEPT ![e] = "SUCCESS"] /\ ResolveFinding(findingOf[e])
    BY <1>24, <2>1, <2>3, ClaimsAfterSuccess DEF Reconcile
  <2> QED
    BY <1>24, <2>2, <2>3 DEF Reconcile
<1>25. ASSUME NEW e \in Execution, Decide(e) PROVE Claims'
  <2>1. status[e] \in Unfinished
    BY <1>25 DEF Decide
  <2>2. CASE FailExecution(e)
    BY <1>25, <2>1, <2>2, ClaimsAfterFailure DEF Decide
  <2>3. CASE status' = [status EXCEPT ![e] = "SUCCESS"] /\ ResolveFinding(findingOf[e])
    BY <1>25, <2>1, <2>3, ClaimsAfterSuccess DEF Decide
  <2>4. CASE UNCHANGED <<lifecycle, status>>
    BY <1>25, <2>4, ClaimsUntouched DEF Decide
  <2> QED
    BY <1>25, <2>2, <2>3, <2>4 DEF Decide
<1>26. ASSUME NEW e \in Execution, ApproveReads(e) PROVE Claims'
  BY <1>26, ClaimsUntouched DEF ApproveReads
<1>27. CASE UNCHANGED vars
  BY <1>27, ClaimsUntouched
<1> QED
  BY <1>1, <1>2, <1>3, <1>4, <1>5, <1>6, <1>7, <1>8, <1>9, <1>10, <1>11, <1>12, <1>13, <1>14, <1>15, <1>16, <1>17, <1>18, <1>19, <1>20, <1>21, <1>22, <1>23, <1>24, <1>25, <1>26, <1>27 DEF Next, ThreadStep, ThreadDies

-----------------------------------------------------------------------------
(* The safety theorems *)

(* Every row agrees with its evidence, its thread and its playbook, and    *)
(* the claims on the findings are sound: the invariant the theorems below  *)
(* are read off from.                                                      *)
THEOREM Consistency == Spec => []ExecutionInvariant
<1>1. Init => ExecutionInvariant
  BY NoFindingAssumption
  DEF Init, ExecutionInvariant, Row, ThreadOf, EvidenceOf, VerdictOf, RunnerOf, GivenUp,
      NotStarted, Unfinished, Active, Terminal, Claims, OneActiveExecution,
      NoOrphanClaim, ClaimHeld, ActiveOn, UnfinishedOn
<1>2. TypeOK /\ TypeOK' /\ ExecutionInvariant /\ [Next]_vars => ExecutionInvariant'
  BY RowsKept, ClaimsKept DEF ExecutionInvariant, Rows
<1> QED
  BY <1>1, <1>2, TypeCorrect, PTL DEF Spec

(* The unique index is enough for every status it covers: no sequence of   *)
(* unguarded status updates ends with two active executions of a finding.  *)
THEOREM OneActive == Spec => []OneActiveExecution
<1>1. ExecutionInvariant => OneActiveExecution
  BY DEF ExecutionInvariant, Claims
<1> QED
  BY <1>1, Consistency, PTL

(* Every way an execution ends releases its finding.                       *)
THEOREM NoOrphans == Spec => []NoOrphanClaim
<1>1. ExecutionInvariant => NoOrphanClaim
  BY DEF ExecutionInvariant, Claims
<1> QED
  BY <1>1, Consistency, PTL

(* An unfinished execution keeps its finding IN_REMEDIATION, unless its    *)
(* scanner can answer INCONCLUSIVE.                                        *)
THEOREM ClaimsHold == Spec => []ClaimHeld
<1>1. ExecutionInvariant => ClaimHeld
  BY DEF ExecutionInvariant, Claims
<1> QED
  BY <1>1, Consistency, PTL

(* The verdict of an execution agrees with its verification rows, review,  *)
(* job and decisions.                                                      *)
THEOREM VerdictsMatch == Spec => []VerdictMatchesEvidence
<1>1. ExecutionInvariant => VerdictMatchesEvidence
  BY DEF ExecutionInvariant, Row, VerdictMatchesEvidence
<1> QED
  BY <1>1, Consistency, PTL

(* Whatever clients, threads and persons do: of two playbooks at work on a *)
(* finding one has been given up by its client and has failed for it, and  *)
(* none is at work for an execution that has gone on to Stage 2.           *)
THEOREM PlaybooksOverlapGivenUp == Spec => []PlaybookOutlivesOnlyItsClient
<1>1. TypeOK /\ ExecutionInvariant => PlaybookOutlivesOnlyItsClient
  <2> SUFFICES ASSUME ExecutionInvariant, TypeOK PROVE PlaybookOutlivesOnlyItsClient
    OBVIOUS
  <2>1. \A e \in Execution : playbook[e] = "running" => status[e] = "RUNNING" \/ GivenUp(e)
    BY DEF ExecutionInvariant, Row, RunnerOf
  <2>2. ASSUME NEW d \in Execution, NEW e \in Execution,
               playbook[d] = "running", playbook[e] = "running",
               findingOf[d] = findingOf[e], ~GivenUp(d), ~GivenUp(e)
        PROVE  d = e
    <3>1. status[d] = "RUNNING" /\ status[e] = "RUNNING"
      BY <2>1, <2>2
    <3>2. findingOf[d] \in Finding
      BY <3>1 DEF ExecutionInvariant, Row, EvidenceOf, TypeOK
    <3> QED
      BY <2>2, <3>1, <3>2 DEF ExecutionInvariant, Claims, OneActiveExecution, ActiveOn, Active
  <2> QED
    BY <2>1, <2>2 DEF PlaybookOutlivesOnlyItsClient
<1> QED
  BY <1>1, Consistency, TypeCorrect, PTL

-----------------------------------------------------------------------------
(* Attempts count starts *)

(* The executions of f whose attempt the trigger has counted.              *)
CountedOn(f) == {e \in Execution : findingOf[e] = f /\ counted[e]}

AttemptsCounted ==
  \A f \in Finding : IsFiniteSet(CountedOn(f)) /\ attempts[f] = Cardinality(CountedOn(f))

(* The trigger counts an execution that has not been counted.              *)
LEMMA CountingAdds ==
  ASSUME Rows, AttemptsCounted, NEW e \in Execution, status[e] # "none", ~counted[e],
         CountAttempt(e), UNCHANGED findingOf
  PROVE  AttemptsCounted'
<1>1. PICK g \in Finding : g = findingOf[e]
  BY RowHasFinding
<1>2. \A f \in Finding : CountedOn(f)' = IF f = g THEN CountedOn(f) \cup {e} ELSE CountedOn(f)
  BY <1>1 DEF CountedOn, CountAttempt, Rows, TypeOK
<1>3. \A f \in Finding : attempts'[f] = IF f = g THEN attempts[f] + 1 ELSE attempts[f]
  BY <1>1 DEF CountAttempt, Rows, TypeOK
<1>4. \A f \in Finding : e \notin CountedOn(f)
  BY DEF CountedOn
<1> SUFFICES ASSUME NEW f \in Finding
             PROVE  IsFiniteSet(CountedOn(f)') /\ attempts'[f] = Cardinality(CountedOn(f)')
  BY DEF AttemptsCounted
<1>5. IsFiniteSet(CountedOn(f)) /\ attempts[f] = Cardinality(CountedOn(f))
  BY DEF AttemptsCounted
<1>6. IsFiniteSet(CountedOn(f) \cup {e}) /\ Cardinality(CountedOn(f) \cup {e}) = Cardinality(CountedOn(f)) + 1
  BY <1>4, <1>5, FS_AddElement
<1> QED
  BY <1>2, <1>3, <1>5, <1>6

(* No other step counts or uncounts one.                                   *)
LEMMA AttemptsKept ==
  ASSUME Rows, AttemptsCounted, [Next]_vars PROVE AttemptsCounted'
<1>1. CASE \E e \in Execution : Approve(e) \/ StartRunning(e)
  <2>1. PICK e \in Execution : Approve(e) \/ StartRunning(e)
    BY <1>1
  <2>2. status[e] \in {"QUEUED", "AWAITING_APPROVAL"}
    BY <2>1 DEF Approve, StartRunning, Rows, Row, ThreadOf
  <2>3. status[e] # "none" /\ ~counted[e]
    BY <2>2 DEF Rows, Row, EvidenceOf, NotStarted
  <2> QED
    BY <2>1, <2>3, CountingAdds DEF Approve, StartRunning
<1>2. CASE \E f \in Finding, e \in Execution : Claim(f, e)
  <2>1. PICK f \in Finding, e \in Execution : Claim(f, e)
    BY <1>2
  <2>2. ~counted[e] /\ findingOf' = [findingOf EXCEPT ![e] = f] /\ UNCHANGED <<attempts, counted>>
    BY <2>1 DEF Claim, Rows, Row, EvidenceOf, NotStarted
  <2>3. \A g \in Finding : CountedOn(g)' = CountedOn(g)
    BY <2>2 DEF CountedOn, Rows, TypeOK
  <2> QED
    BY <2>2, <2>3 DEF AttemptsCounted
<1>3. CASE UNCHANGED <<attempts, findingOf, counted>>
  BY <1>3 DEF AttemptsCounted, CountedOn
<1>4. CASE \E f \in Finding : Dispatch(f) \/ RejectRequest(f) \/ CooldownElapses(f) \/ Recur(f)
  BY <1>3, <1>4 DEF Dispatch, RejectRequest, CooldownElapses, Recur
<1>5. CASE \E e \in Execution : ApproveReads(e) \/ Cancel(e) \/ (ThreadStep(e) /\ ~StartRunning(e))
  BY <1>3, <1>5 DEF ApproveReads, Cancel, ThreadStep, BeginStage1, BeginStage1Fails, RecordStage1, AnsibleRaises,
     BeginStage2, ScannerAbsent, ScannerPresent, ScannerInconclusive, ScannerRaises, HandleStage2Error
<1>6. CASE \E e \in Execution : ThreadDies(e) \/ RunnerStarts(e) \/ RunnerEnds(e) \/ Reconcile(e) \/ Decide(e)
  BY <1>3, <1>6 DEF ThreadDies, FtpIdentityMismatch, SubjectMissing, KillThread, RunnerStarts, RunnerEnds,
     Reconcile, Decide
<1> QED
  BY <1>1, <1>2, <1>3, <1>4, <1>5, <1>6 DEF Next

(* remediation_attempts counts the executions of a finding that started,   *)
(* each of them once, however many there are.                              *)
THEOREM AttemptsCount == Spec => []AttemptsCountStarts
<1>1. Init => AttemptsCounted
  <2> SUFFICES ASSUME Init, NEW f \in Finding
               PROVE  IsFiniteSet(CountedOn(f)) /\ attempts[f] = Cardinality(CountedOn(f))
    BY DEF AttemptsCounted
  <2>1. CountedOn(f) = {} /\ attempts[f] = 0
    BY DEF Init, CountedOn
  <2> QED
    BY <2>1, FS_EmptySet
<1>2. TypeOK /\ ExecutionInvariant /\ AttemptsCounted /\ [Next]_vars => AttemptsCounted'
  BY AttemptsKept DEF Rows, ExecutionInvariant
<1>3. ExecutionInvariant /\ AttemptsCounted => AttemptsCountStarts
  <2> SUFFICES ASSUME ExecutionInvariant, AttemptsCounted, NEW f \in Finding
               PROVE  attempts[f] = Cardinality({e \in Execution : findingOf[e] = f /\ status[e] \notin NotStarted})
    BY DEF AttemptsCountStarts, NotStarted
  <2>1. {e \in Execution : findingOf[e] = f /\ status[e] \notin NotStarted} = CountedOn(f)
    BY DEF ExecutionInvariant, Row, EvidenceOf, CountedOn
  <2> QED
    BY <2>1 DEF AttemptsCounted
<1> QED
  BY <1>1, <1>2, <1>3, Consistency, TypeCorrect, PTL DEF Spec

-----------------------------------------------------------------------------
(* Verdicts are final *)

(* No step changes a verdict: the place of the thread excludes it.         *)
LEMMA VerdictKept ==
  ASSUME Rows, NEW d \in Execution, [Next]_vars PROVE KeepsVerdict(d)
<1> USE DEF KeepsVerdict
<1>1. ASSUME NEW f \in Finding, Dispatch(f) PROVE KeepsVerdict(d)
  BY <1>1 DEF Dispatch
<1>2. ASSUME NEW f \in Finding, RejectRequest(f) PROVE KeepsVerdict(d)
  BY <1>2 DEF RejectRequest
<1>3. ASSUME NEW f \in Finding, CooldownElapses(f) PROVE KeepsVerdict(d)
  BY <1>3 DEF CooldownElapses
<1>4. ASSUME NEW f \in Finding, Recur(f) PROVE KeepsVerdict(d)
  BY <1>4 DEF Recur
<1>5. ASSUME NEW f \in Finding, NEW e \in Execution, Claim(f, e) PROVE KeepsVerdict(d)
  BY <1>5 DEF Claim, Rows, TypeOK, Terminal
<1>6. ASSUME NEW e \in Execution, FtpIdentityMismatch(e) PROVE KeepsVerdict(d)
  BY <1>6 DEF FtpIdentityMismatch
<1>7. ASSUME NEW e \in Execution, SubjectMissing(e) PROVE KeepsVerdict(d)
  BY <1>7 DEF SubjectMissing
<1>8. ASSUME NEW e \in Execution, KillThread(e) PROVE KeepsVerdict(d)
  BY <1>8 DEF KillThread
<1>9. ASSUME NEW e \in Execution, RunnerStarts(e) PROVE KeepsVerdict(d)
  BY <1>9 DEF RunnerStarts
<1>10. ASSUME NEW e \in Execution, RunnerEnds(e) PROVE KeepsVerdict(d)
  BY <1>10 DEF RunnerEnds
<1>11. ASSUME NEW e \in Execution, ScannerRaises(e) PROVE KeepsVerdict(d)
  BY <1>11 DEF ScannerRaises
<1>12. ASSUME NEW e \in Execution, Approve(e) PROVE KeepsVerdict(d)
  BY <1>12 DEF Approve, Rows, TypeOK, Row, ThreadOf, Terminal
<1>13. ASSUME NEW e \in Execution, Cancel(e) PROVE KeepsVerdict(d)
  BY <1>13 DEF Cancel, AwaitsApproval, Rows, TypeOK, Row, ThreadOf, Terminal
<1>14. ASSUME NEW e \in Execution, StartRunning(e) PROVE KeepsVerdict(d)
  BY <1>14 DEF StartRunning, Rows, TypeOK, Row, ThreadOf, Terminal
<1>15. ASSUME NEW e \in Execution, BeginStage1(e) PROVE KeepsVerdict(d)
  BY <1>15 DEF BeginStage1, Rows, TypeOK, Row, ThreadOf, Terminal
<1>16. ASSUME NEW e \in Execution, BeginStage1Fails(e) PROVE KeepsVerdict(d)
  BY <1>16 DEF BeginStage1Fails, FailExecution, Rows, TypeOK, Row, ThreadOf, Terminal
<1>17. ASSUME NEW e \in Execution, RecordStage1(e) PROVE KeepsVerdict(d)
  BY <1>17 DEF RecordStage1, FailExecution, Rows, TypeOK, Row, ThreadOf, Terminal
<1>18. ASSUME NEW e \in Execution, AnsibleRaises(e) PROVE KeepsVerdict(d)
  BY <1>18 DEF AnsibleRaises, FailExecution, Rows, TypeOK, Row, ThreadOf, Terminal
<1>19. ASSUME NEW e \in Execution, BeginStage2(e) PROVE KeepsVerdict(d)
  BY <1>19 DEF BeginStage2, Rows, TypeOK, Row, ThreadOf, Terminal
<1>20. ASSUME NEW e \in Execution, ScannerAbsent(e) PROVE KeepsVerdict(d)
  BY <1>20 DEF ScannerAbsent, Rows, TypeOK, Row, ThreadOf, Terminal
<1>21. ASSUME NEW e \in Execution, ScannerPresent(e) PROVE KeepsVerdict(d)
  BY <1>21 DEF ScannerPresent, FailExecution, Rows, TypeOK, Row, ThreadOf, Terminal
<1>22. ASSUME NEW e \in Execution, ScannerInconclusive(e) PROVE KeepsVerdict(d)
  BY <1>22 DEF ScannerInconclusive, Rows, TypeOK, Row, ThreadOf, Terminal
<1>23. ASSUME NEW e \in Execution, HandleStage2Error(e) PROVE KeepsVerdict(d)
  BY <1>23 DEF HandleStage2Error, FailExecution, Rows, TypeOK, Row, ThreadOf, Terminal
<1>24. ASSUME NEW e \in Execution, Reconcile(e) PROVE KeepsVerdict(d)
  BY <1>24 DEF Reconcile, FailExecution, Rows, TypeOK, Row, ThreadOf, Terminal
<1>25. ASSUME NEW e \in Execution, Decide(e) PROVE KeepsVerdict(d)
  BY <1>25 DEF Decide, FailExecution, Rows, TypeOK, Row, ThreadOf, Terminal
<1>26. ASSUME NEW e \in Execution, ApproveReads(e) PROVE KeepsVerdict(d)
  BY <1>26 DEF ApproveReads
<1>27. CASE UNCHANGED vars
  BY <1>27
<1> QED
  BY <1>1, <1>2, <1>3, <1>4, <1>5, <1>6, <1>7, <1>8, <1>9, <1>10, <1>11, <1>12, <1>13, <1>14, <1>15, <1>16, <1>17, <1>18, <1>19, <1>20, <1>21, <1>22, <1>23, <1>24, <1>25, <1>26, <1>27 DEF Next, ThreadStep, ThreadDies

(* Nothing moves an execution out of a terminal status or rewrites one of  *)
(* its verification results.                                               *)
THEOREM VerdictsFinal == Spec => VerdictIsFinal
<1>1. TypeOK /\ ExecutionInvariant /\ [Next]_vars
        => [\A e \in Execution : KeepsVerdict(e)]_vars
  BY VerdictKept DEF ExecutionInvariant, Rows
<1> QED
  BY <1>1, Consistency, TypeCorrect, PTL DEF Spec, VerdictIsFinal

-----------------------------------------------------------------------------
(* The executions implement the abstract lifecycle *)

(* A step that leaves findings and statuses alone is a stutter.            *)
LEMMA StillIsStutter ==
  ASSUME UNCHANGED <<lifecycle, findingOf, status>>
  PROVE  UNCHANGED FL!abstractVars
  BY DEF FL!abstractVars, Phase

(* What a change of one row's status does to the phases.                   *)
LEMMA PhaseStep ==
  ASSUME NEW e \in Execution, NEW s, NEW phase,
         status \in [Execution -> Status], status' = [status EXCEPT ![e] = s],
         phase = IF s = "none" THEN "unborn"
                 ELSE IF s \in Unfinished THEN "live"
                 ELSE IF s = "SUCCESS" THEN "confirmed" ELSE "abandoned"
  PROVE  Phase' = [Phase EXCEPT ![e] = phase]
  BY DEF Phase

(* A move between two unfinished statuses is an abstract stutter.          *)
LEMMA MoveIsStutter ==
  ASSUME Rows, NEW e \in Execution, NEW s \in Unfinished, status[e] \in Unfinished,
         status' = [status EXCEPT ![e] = s], UNCHANGED <<lifecycle, findingOf>>
  PROVE  UNCHANGED FL!abstractVars
<1>1. s # "none" /\ status[e] # "none"
  BY DEF Unfinished, Active
<1>2. \A d \in Execution : status'[d] = status[d] \/ d = e
  BY DEF Rows, TypeOK
<1>3. status'[e] = s
  BY DEF Rows, TypeOK
<1>4. Phase' = Phase
  BY <1>1, <1>2, <1>3 DEF Phase
<1> QED
  BY <1>4 DEF FL!abstractVars

(* A start is an abstract Reassert, or a stutter.                          *)
LEMMA StartIsReassertion ==
  ASSUME Rows, NEW e \in Execution, status[e] \in Active,
         status' = [status EXCEPT ![e] = "RUNNING"], CountAttempt(e),
         UNCHANGED findingOf
  PROVE  [FL!Next]_FL!abstractVars
<1>1. findingOf[e] \in Finding
  BY RowHasFinding DEF Active
<1>2. Phase' = Phase
  <2>1. \A d \in Execution \ {e} : status'[d] = status[d]
    BY DEF Rows, TypeOK
  <2>2. status'[e] = "RUNNING"
    BY DEF Rows, TypeOK
  <2> QED
    BY <2>1, <2>2 DEF Phase, Unfinished, Active
<1>3. CASE UNCHANGED lifecycle
  BY <1>2, <1>3 DEF FL!abstractVars
<1>4. CASE lifecycle[findingOf[e]] = "OPEN" /\
           lifecycle' = [lifecycle EXCEPT ![findingOf[e]] = "IN_REMEDIATION"]
  <2>1. FL!Worked(findingOf[e])
    BY DEF FL!Worked, FL!Live, Phase, Unfinished, Active
  <2>2. FL!Reassert(findingOf[e])
    BY <1>2, <1>4, <2>1 DEF FL!Reassert
  <2> QED
    BY <1>1, <2>2 DEF FL!Next
<1>5. \/ UNCHANGED lifecycle
      \/ /\ lifecycle[findingOf[e]] = "OPEN"
         /\ lifecycle' = [lifecycle EXCEPT ![findingOf[e]] = "IN_REMEDIATION"]
  <2>1. CASE ~counted[e] /\ lifecycle[findingOf[e]] = "OPEN"
    BY <2>1, <1>1 DEF CountAttempt
  <2>2. CASE ~(~counted[e] /\ lifecycle[findingOf[e]] = "OPEN")
    BY <2>2, <1>1 DEF CountAttempt, Rows, TypeOK
  <2> QED
    BY <2>1, <2>2
<1> QED
  BY <1>3, <1>4, <1>5

(* A failure is an abstract Abandon.                                       *)
LEMMA FailureIsAbandonment ==
  ASSUME Rows, NEW e \in Execution, status[e] \in Unfinished,
         FailExecution(e), UNCHANGED findingOf
  PROVE  [FL!Next]_FL!abstractVars
<1>1. Phase' = [Phase EXCEPT ![e] = "abandoned"]
  BY PhaseStep DEF Rows, TypeOK, FailExecution, Unfinished, Active
<1>2. FL!Live(e)
  BY DEF FL!Live, Phase, Unfinished, Active
<1>3. FL!Abandon(e)
  BY <1>1, <1>2 DEF FL!Abandon, FailExecution, ReopenFailed
<1> QED
  BY <1>3 DEF FL!Next

(* A success is an abstract Confirm.                                       *)
LEMMA SuccessIsConfirmation ==
  ASSUME Rows, NEW e \in Execution, status[e] \in Unfinished,
         status' = [status EXCEPT ![e] = "SUCCESS"], ResolveFinding(findingOf[e]),
         UNCHANGED findingOf
  PROVE  [FL!Next]_FL!abstractVars
<1>1. Phase' = [Phase EXCEPT ![e] = "confirmed"]
  BY PhaseStep DEF Rows, TypeOK, Unfinished, Active
<1>2. FL!Live(e)
  BY DEF FL!Live, Phase, Unfinished, Active
<1>3. FL!Confirm(e)
  BY <1>1, <1>2 DEF FL!Confirm, ResolveFinding, CanResolve
<1> QED
  BY <1>3 DEF FL!Next

(* A cancelled approval is an abstract Abandon.                            *)
LEMMA CancellationIsAbandonment ==
  ASSUME Rows, NEW e \in Execution, Cancel(e) PROVE [FL!Next]_FL!abstractVars
<1>1. Phase' = [Phase EXCEPT ![e] = "abandoned"]
  BY PhaseStep DEF Rows, TypeOK, Cancel, Unfinished, Active
<1>2. FL!Live(e)
  BY DEF FL!Live, Phase, Cancel, AwaitsApproval, Unfinished, Active
<1>3. lifecycle' = [lifecycle EXCEPT ![findingOf[e]] =
                      IF @ = "IN_REMEDIATION" THEN "OPEN" ELSE @]
  BY DEF Cancel, AwaitsApproval
<1>4. FL!Abandon(e)
  BY <1>1, <1>2, <1>3 DEF FL!Abandon, Cancel
<1> QED
  BY <1>4 DEF FL!Next

(* The claiming transaction is an abstract Admit.                          *)
LEMMA ClaimIsAdmission ==
  ASSUME Rows, NEW f \in Finding, NEW e \in Execution, Claim(f, e)
  PROVE  [FL!Next]_FL!abstractVars
<1>1. Phase' = [Phase EXCEPT ![e] = "live"]
  <2>1. PICK s \in {"QUEUED", "AWAITING_APPROVAL"} : status' = [status EXCEPT ![e] = s]
    BY DEF Claim
  <2> QED
    BY <2>1, PhaseStep DEF Rows, TypeOK, Unfinished, Active
<1>2. Phase[e] = "unborn"
  BY DEF Claim, Phase
<1>3. FL!Admit(f, e)
  BY <1>1, <1>2 DEF FL!Admit, Claim
<1> QED
  BY <1>3 DEF FL!Next

(* Every step is a step of the abstract lifecycle or leaves it alone.      *)
LEMMA StepImplements ==
  ASSUME Rows, [Next]_vars PROVE [FL!Next]_FL!abstractVars
<1> USE DEF Unfinished, Active
<1>1. ASSUME NEW f \in Finding, Dispatch(f) PROVE [FL!Next]_FL!abstractVars
  BY <1>1, StillIsStutter DEF Dispatch
<1>2. ASSUME NEW f \in Finding, RejectRequest(f) PROVE [FL!Next]_FL!abstractVars
  BY <1>2, StillIsStutter DEF RejectRequest
<1>3. ASSUME NEW f \in Finding, CooldownElapses(f) PROVE [FL!Next]_FL!abstractVars
  BY <1>3, StillIsStutter DEF CooldownElapses
<1>4. ASSUME NEW f \in Finding, Recur(f) PROVE [FL!Next]_FL!abstractVars
  <2>1. Phase' = Phase
    BY <1>4 DEF Recur, Phase
  <2>2. FL!Recur(f)
    BY <1>4, <2>1 DEF Recur, FL!Recur
  <2> QED
    BY <2>2 DEF FL!Next
<1>5. ASSUME NEW f \in Finding, NEW e \in Execution, Claim(f, e) PROVE [FL!Next]_FL!abstractVars
  BY <1>5, ClaimIsAdmission
<1>6. ASSUME NEW e \in Execution, Approve(e) PROVE [FL!Next]_FL!abstractVars
  <2>1. status[e] \in Active
    BY <1>6 DEF Approve, Rows, Row, ThreadOf
  <2> QED
    BY <1>6, <2>1, StartIsReassertion DEF Approve
<1>7. ASSUME NEW e \in Execution, Cancel(e) PROVE [FL!Next]_FL!abstractVars
  BY <1>7, CancellationIsAbandonment
<1>8. ASSUME NEW e \in Execution, StartRunning(e) PROVE [FL!Next]_FL!abstractVars
  <2>1. status[e] \in Active
    BY <1>8 DEF StartRunning, Rows, Row, ThreadOf
  <2> QED
    BY <1>8, <2>1, StartIsReassertion DEF StartRunning
<1>9. ASSUME NEW e \in Execution, BeginStage1(e) PROVE [FL!Next]_FL!abstractVars
  BY <1>9, StillIsStutter DEF BeginStage1
<1>10. ASSUME NEW e \in Execution, FtpIdentityMismatch(e) PROVE [FL!Next]_FL!abstractVars
  BY <1>10, StillIsStutter DEF FtpIdentityMismatch
<1>11. ASSUME NEW e \in Execution, SubjectMissing(e) PROVE [FL!Next]_FL!abstractVars
  BY <1>11, StillIsStutter DEF SubjectMissing
<1>12. ASSUME NEW e \in Execution, KillThread(e) PROVE [FL!Next]_FL!abstractVars
  BY <1>12, StillIsStutter DEF KillThread
<1>13. ASSUME NEW e \in Execution, RunnerStarts(e) PROVE [FL!Next]_FL!abstractVars
  BY <1>13, StillIsStutter DEF RunnerStarts
<1>14. ASSUME NEW e \in Execution, RunnerEnds(e) PROVE [FL!Next]_FL!abstractVars
  BY <1>14, StillIsStutter DEF RunnerEnds
<1>15. ASSUME NEW e \in Execution, ScannerRaises(e) PROVE [FL!Next]_FL!abstractVars
  BY <1>15, StillIsStutter DEF ScannerRaises
<1>16. ASSUME NEW e \in Execution, BeginStage1Fails(e) PROVE [FL!Next]_FL!abstractVars
  <2>1. status[e] \in Unfinished
    BY <1>16 DEF BeginStage1Fails, Rows, Row, ThreadOf
  <2> QED
    BY <1>16, <2>1, FailureIsAbandonment DEF BeginStage1Fails
<1>17. ASSUME NEW e \in Execution, AnsibleRaises(e) PROVE [FL!Next]_FL!abstractVars
  <2>1. status[e] \in Unfinished
    BY <1>17 DEF AnsibleRaises, Rows, Row, ThreadOf
  <2> QED
    BY <1>17, <2>1, FailureIsAbandonment DEF AnsibleRaises
<1>18. ASSUME NEW e \in Execution, ScannerPresent(e) PROVE [FL!Next]_FL!abstractVars
  <2>1. status[e] \in Unfinished
    BY <1>18 DEF ScannerPresent, Rows, Row, ThreadOf
  <2> QED
    BY <1>18, <2>1, FailureIsAbandonment DEF ScannerPresent
<1>19. ASSUME NEW e \in Execution, HandleStage2Error(e) PROVE [FL!Next]_FL!abstractVars
  <2>1. status[e] \in Unfinished
    BY <1>19 DEF HandleStage2Error, Rows, Row, ThreadOf
  <2> QED
    BY <1>19, <2>1, FailureIsAbandonment DEF HandleStage2Error
<1>20. ASSUME NEW e \in Execution, RecordStage1(e) PROVE [FL!Next]_FL!abstractVars
  <2>1. status[e] \in Unfinished
    BY <1>20 DEF RecordStage1, Rows, Row, ThreadOf
  <2>2. CASE FailExecution(e)
    BY <1>20, <2>1, <2>2, FailureIsAbandonment DEF RecordStage1
  <2>3. CASE status' = [status EXCEPT ![e] = "STAGE1_PASSED"] /\ UNCHANGED lifecycle
    BY <1>20, <2>1, <2>3, MoveIsStutter DEF RecordStage1
  <2> QED
    BY <1>20, <2>2, <2>3 DEF RecordStage1
<1>21. ASSUME NEW e \in Execution, BeginStage2(e) PROVE [FL!Next]_FL!abstractVars
  <2>1. status[e] \in Unfinished
    BY <1>21 DEF BeginStage2, Rows, Row, ThreadOf
  <2> QED
    BY <1>21, <2>1, MoveIsStutter DEF BeginStage2
<1>22. ASSUME NEW e \in Execution, ScannerAbsent(e) PROVE [FL!Next]_FL!abstractVars
  <2>1. status[e] \in Unfinished
    BY <1>22 DEF ScannerAbsent, Rows, Row, ThreadOf
  <2>2. CASE CanResolve(findingOf[e]) /\ stage2[e] = "PENDING"
    BY <1>22, <2>1, <2>2, SuccessIsConfirmation DEF ScannerAbsent
  <2>3. CASE ~(CanResolve(findingOf[e]) /\ stage2[e] = "PENDING")
    BY <1>22, <2>3, StillIsStutter DEF ScannerAbsent
  <2> QED
    BY <2>2, <2>3
<1>23. ASSUME NEW e \in Execution, ScannerInconclusive(e) PROVE [FL!Next]_FL!abstractVars
  <2>1. status[e] \in Unfinished
    BY <1>23 DEF ScannerInconclusive, Rows, Row, ThreadOf
  <2>2. CASE UNCHANGED status
    BY <1>23, <2>2, StillIsStutter DEF ScannerInconclusive
  <2>3. CASE status' = [status EXCEPT ![e] = "AWAITING_MANUAL_VERIFICATION"]
    BY <1>23, <2>1, <2>3, MoveIsStutter DEF ScannerInconclusive
  <2> QED
    BY <1>23, <2>2, <2>3 DEF ScannerInconclusive
<1>24. ASSUME NEW e \in Execution, Reconcile(e) PROVE [FL!Next]_FL!abstractVars
  <2>1. status[e] \in Unfinished
    BY <1>24 DEF Reconcile
  <2>2. CASE FailExecution(e)
    BY <1>24, <2>1, <2>2, FailureIsAbandonment DEF Reconcile
  <2>3. CASE status' = [status EXCEPT ![e] = "SUCCESS"] /\ ResolveFinding(findingOf[e])
    BY <1>24, <2>1, <2>3, SuccessIsConfirmation DEF Reconcile
  <2> QED
    BY <1>24, <2>2, <2>3 DEF Reconcile
<1>25. ASSUME NEW e \in Execution, Decide(e) PROVE [FL!Next]_FL!abstractVars
  <2>1. status[e] \in Unfinished
    BY <1>25 DEF Decide
  <2>2. CASE FailExecution(e)
    BY <1>25, <2>1, <2>2, FailureIsAbandonment DEF Decide
  <2>3. CASE status' = [status EXCEPT ![e] = "SUCCESS"] /\ ResolveFinding(findingOf[e])
    BY <1>25, <2>1, <2>3, SuccessIsConfirmation DEF Decide
  <2>4. CASE UNCHANGED <<lifecycle, status>>
    BY <1>25, <2>4, StillIsStutter DEF Decide
  <2> QED
    BY <1>25, <2>2, <2>3, <2>4 DEF Decide
<1>26. ASSUME NEW e \in Execution, ApproveReads(e) PROVE [FL!Next]_FL!abstractVars
  BY <1>26, StillIsStutter DEF ApproveReads
<1>27. CASE UNCHANGED vars
  BY <1>27, StillIsStutter
<1> QED
  BY <1>1, <1>2, <1>3, <1>4, <1>5, <1>6, <1>7, <1>8, <1>9, <1>10, <1>11, <1>12, <1>13, <1>14, <1>15, <1>16, <1>17, <1>18, <1>19, <1>20, <1>21, <1>22, <1>23, <1>24, <1>25, <1>26, <1>27 DEF Next, ThreadStep, ThreadDies

(* The controller, the reviewers, the reconciler and the enricher together *)
(* implement FindingLifecycle, with the faults and the duplicated requests.*)
THEOREM Implementation == Spec => ImplementsLifecycle
<1>1. Init => FL!Init
  BY DEF Init, FL!Init, Phase
<1>2. TypeOK /\ ExecutionInvariant /\ [Next]_vars => [FL!Next]_FL!abstractVars
  BY StepImplements DEF ExecutionInvariant, Rows
<1> QED
  BY <1>1, <1>2, Consistency, TypeCorrect, PTL DEF Spec, ImplementsLifecycle, FL!Spec

=============================================================================
