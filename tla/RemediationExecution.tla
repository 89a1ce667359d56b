------------------------- MODULE RemediationExecution -------------------------
(***************************************************************************)
(* The life of a remediation execution, from the dispatcher's request to   *)
(* the verdict of Stage 2: remediation/dispatcher.py,                      *)
(* remediation/controllers/base.py, remediation/shared/db.py,              *)
(* manual_verification/service.py and the SQL functions, trigger and       *)
(* unique index they rely on.                                              *)
(*                                                                         *)
(* Every "with conn:" block of the controller is one database transaction, *)
(* whose row locks serialise it with the others, and is one action here.   *)
(* Between two transactions anything may happen: that is where requests    *)
(* are delivered twice, the Ansible runner outlives its client, another    *)
(* execution of the same finding moves it, or the gunicorn worker is       *)
(* killed.  One controller thread works on an execution, so the program    *)
(* counter pc belongs to the execution.                                    *)
(***************************************************************************)
EXTENDS Naturals, FiniteSets

CONSTANTS
  Finding,          \* rows of unified_security_findings
  Execution,        \* identities remediation_executions may hand out
  NoFinding,        \* finding_id of an execution not created yet
  ApprovalRequired, \* findings routed to a rule with approval_required
  Deferred,         \* findings whose scanner refreshes asynchronously (Wazuh)
  Inconclusive,     \* findings whose scanner may answer INCONCLUSIVE (Nmap)
  FtpAnonymous,     \* findings routed to disable_vsftpd_anonymous
  Faults,           \* what the environment may do to the controller
  SkipStage2,       \* TEST_SKIP_STAGE2 of remediation/shared/config.py
  MaxRequests       \* bound on requests in flight for a finding

ASSUME NoFindingAssumption == NoFinding \notin Finding

(* Deferred Stage 2 never calls the verification gateway, so only a scanner *)
(* with immediate Stage 2 can answer INCONCLUSIVE (base.py:953-1020); an    *)
(* Nmap ftp-anon rule must require approval (base.py:291-303).              *)
ASSUME RoutingAssumption ==
  /\ Deferred \cap Inconclusive = {}
  /\ FtpAnonymous \subseteq ApprovalRequired

ASSUME BoundAssumption == MaxRequests \in Nat /\ SkipStage2 \in BOOLEAN

VARIABLES
  \* unified_security_findings
  lifecycle,   \* lifecycle_status
  cooling,     \* next_remediation_attempt_at lies in the future
  attempts,    \* remediation_attempts
  \* remediation_executions
  findingOf, status,
  counted,     \* attempt_counted
  \* remediation_verifications, deferred_verification_jobs and
  \* manual_verification_reviews of the execution
  stage1, stage2, job, review,
  decisions,   \* decisions in manual_verification_decisions
  \* outside the database
  pc,          \* where the controller thread of the execution is
  playbook,    \* the execution's job at the Ansible runner
  requests     \* POST /remediate requests sent and not yet processed

findingVars  == <<lifecycle, cooling, attempts>>
evidenceVars == <<stage1, stage2, job, review, decisions>>
vars == <<lifecycle, cooling, attempts, findingOf, status, counted,
          stage1, stage2, job, review, decisions, pc, playbook, requests>>

-----------------------------------------------------------------------------
(* Vocabulary *)

(* The statuses uq_one_active_execution_per_finding covers.                *)
Active == {"QUEUED", "AWAITING_APPROVAL", "RUNNING", "STAGE1_PASSED", "VERIFYING"}

Terminal == {"SUCCESS", "FAILED", "CANCELLED"}

(* Created, and still to reach a terminal status.                          *)
Unfinished == Active \cup {"AWAITING_MANUAL_VERIFICATION"}

Status == {"none"} \cup Unfinished \cup Terminal

Verdict == {"none", "PENDING", "PASSED", "FAILED", "INCONCLUSIVE"}

Decision == {"REMEDIATED", "STILL_PRESENT", "INCONCLUSIVE"}

(* Places of a controller thread: "approving" is inside the transaction of *)
(* approve, "queued" and "approved" are the two ways into execute_existing *)
(* and the others are between its transactions; "none" is no thread,       *)
(* "dead" a thread killed or unwound by an exception.                      *)
Place == {"none", "approving", "queued", "approved", "running", "ansible",
          "evidence", "scanner", "handler", "dead"}

Playbook == {"none", "posted", "refused", "running", "passed", "failed"}

UnfinishedOn(f, e) == findingOf[e] = f /\ status[e] \in Unfinished

ActiveOn(f, e) == findingOf[e] = f /\ status[e] \in Active

TypeOK ==
  /\ lifecycle \in [Finding -> {"OPEN", "IN_REMEDIATION", "RESOLVED"}]
  /\ cooling \in [Finding -> BOOLEAN]
  /\ attempts \in [Finding -> Nat]
  /\ findingOf \in [Execution -> Finding \cup {NoFinding}]
  /\ status \in [Execution -> Status]
  /\ counted \in [Execution -> BOOLEAN]
  /\ stage1 \in [Execution -> Verdict]
  /\ stage2 \in [Execution -> Verdict]
  /\ job \in [Execution -> {"none", "PENDING", "COMPLETED"}]
  /\ review \in [Execution -> {"none", "PENDING", "COMPLETED"}]
  /\ decisions \in [Execution -> SUBSET Decision]
  /\ pc \in [Execution -> Place]
  /\ playbook \in [Execution -> Playbook]
  /\ requests \in [Finding -> Nat]

Init ==
  /\ lifecycle = [f \in Finding |-> "OPEN"]
  /\ cooling = [f \in Finding |-> FALSE]
  /\ attempts = [f \in Finding |-> 0]
  /\ findingOf = [e \in Execution |-> NoFinding]
  /\ status = [e \in Execution |-> "none"]
  /\ counted = [e \in Execution |-> FALSE]
  /\ stage1 = [e \in Execution |-> "none"]
  /\ stage2 = [e \in Execution |-> "none"]
  /\ job = [e \in Execution |-> "none"]
  /\ review = [e \in Execution |-> "none"]
  /\ decisions = [e \in Execution |-> {}]
  /\ pc = [e \in Execution |-> "none"]
  /\ playbook = [e \in Execution |-> "none"]
  /\ requests = [f \in Finding |-> 0]

-----------------------------------------------------------------------------
(* The SQL functions and the trigger, as parts of the actions below *)

(* Mutant: a finding reopened by another execution is resolved as well.    *)
MutantCanResolve(f) == lifecycle[f] # "RESOLVED"

(* resolve_finding returns true; if not, its caller rolls back.            *)
CanResolve(f) == lifecycle[f] = "IN_REMEDIATION"

ResolveFinding(f) ==
  /\ CanResolve(f)
  /\ lifecycle' = [lifecycle EXCEPT ![f] = "RESOLVED"]
  /\ cooling' = [cooling EXCEPT ![f] = FALSE]

(* Mutant: the failed finding starts its cooldown but stays claimed.       *)
MutantReopenFailed(f) ==
  /\ cooling' = [cooling EXCEPT ![f] = TRUE]
  /\ UNCHANGED lifecycle

(* reopen_failed_remediation: no effect, and its result is ignored, unless *)
(* the finding is IN_REMEDIATION; then five minutes of cooldown.           *)
ReopenFailed(f) ==
  /\ lifecycle' = [lifecycle EXCEPT ![f] =
                     IF @ = "IN_REMEDIATION" THEN "OPEN" ELSE @]
  /\ cooling' = [cooling EXCEPT ![f] = @ \/ lifecycle[f] = "IN_REMEDIATION"]

(* Mutant: an attempt is counted by the claim, so a start counts only when *)
(* it has to claim (what migration 025 repaired, the other way round).     *)
MutantCountAttempt(e) ==
  /\ counted' = [counted EXCEPT ![e] = TRUE]
  /\ attempts' = [attempts EXCEPT ![findingOf[e]] =
                    IF lifecycle[findingOf[e]] = "OPEN" THEN @ + 1 ELSE @]
  /\ UNCHANGED lifecycle

(* The trigger count_remediation_attempt on an update to RUNNING.          *)
CountAttempt(e) ==
  /\ counted' = [counted EXCEPT ![e] = TRUE]
  /\ attempts' = [attempts EXCEPT ![findingOf[e]] = IF counted[e] THEN @ ELSE @ + 1]
  /\ lifecycle' = [lifecycle EXCEPT ![findingOf[e]] =
                     IF ~counted[e] /\ @ = "OPEN" THEN "IN_REMEDIATION" ELSE @]

(* begin_remediation_verification accepts the execution.                   *)
MayVerify(e) == status[e] \in {"RUNNING", "STAGE1_PASSED", "VERIFYING"}

FailExecution(e) ==
  /\ status' = [status EXCEPT ![e] = "FAILED"]
  /\ ReopenFailed(findingOf[e])

LeaveThread(e, place) == pc' = [pc EXCEPT ![e] = place]

-----------------------------------------------------------------------------
(* Requests: the dispatcher and the first half of BaseController.execute *)

(* A row of eligible_remediation_queue.                                    *)
Eligible(f) == lifecycle[f] = "OPEN" /\ ~cooling[f]

(* dispatch_once: delivery is at least once.  A dispatcher that timed out  *)
(* or was restarted sends again while its earlier request still waits for  *)
(* a controller worker, so several requests may be in flight.              *)
Dispatch(f) ==
  /\ Eligible(f)
  /\ requests[f] < MaxRequests
  /\ requests' = [requests EXCEPT ![f] = @ + 1]
  /\ UNCHANGED <<findingVars, findingOf, status, counted, evidenceVars, pc, playbook>>

(* A request is lost, or the controller answers 400 or 409: validate, the  *)
(* execution-target check, ensure_claimed or the unique index rejects it   *)
(* and its transaction leaves no trace.                                    *)
RejectRequest(f) ==
  /\ requests[f] > 0
  /\ requests' = [requests EXCEPT ![f] = @ - 1]
  /\ UNCHANGED <<findingVars, findingOf, status, counted, evidenceVars, pc, playbook>>

(* Mutant: the unique index does not cover executions that have started.   *)
MutantIndexAdmits(f) ==
  \A d \in Execution : ActiveOn(f, d) => status[d] \in {"RUNNING", "STAGE1_PASSED", "VERIFYING"}

(* uq_one_active_execution_per_finding accepts a new execution.            *)
IndexAdmits(f) == \A d \in Execution : ~ActiveOn(f, d)

(* The claiming transaction: ensure_claimed takes OPEN to IN_REMEDIATION,  *)
(* cooldown or not, and also accepts IN_REMEDIATION; create_execution is   *)
(* stopped by the unique index if an active execution exists.              *)
Claim(f, e) ==
  /\ requests[f] > 0
  /\ lifecycle[f] \in {"OPEN", "IN_REMEDIATION"}
  /\ IndexAdmits(f)
  /\ status[e] = "none"
  /\ requests' = [requests EXCEPT ![f] = @ - 1]
  /\ lifecycle' = [lifecycle EXCEPT ![f] = "IN_REMEDIATION"]
  /\ findingOf' = [findingOf EXCEPT ![e] = f]
  /\ status' = [status EXCEPT ![e] =
                  IF f \in ApprovalRequired THEN "AWAITING_APPROVAL" ELSE "QUEUED"]
  /\ LeaveThread(e, IF f \in ApprovalRequired THEN "none" ELSE "queued")
  /\ UNCHANGED <<cooling, attempts, counted, evidenceVars, playbook>>

-----------------------------------------------------------------------------
(* Approval *)

(* Mutant: the status of the locked execution row is not looked at.        *)
MutantAwaitsApproval(e) ==
  status[e] # "none" /\ lifecycle[findingOf[e]] = "IN_REMEDIATION"

(* The checks approve and cancel_awaiting_approval share.                  *)
AwaitsApproval(e) ==
  status[e] = "AWAITING_APPROVAL" /\ lifecycle[findingOf[e]] = "IN_REMEDIATION"

(* approve locks the execution, so that no other approval or cancellation  *)
(* gets at it, but reads the finding with a plain SELECT: another          *)
(* execution may move the finding before approve has committed.            *)
ApproveReads(e) ==
  /\ pc[e] = "none"
  /\ AwaitsApproval(e)
  /\ LeaveThread(e, "approving")
  /\ UNCHANGED <<findingVars, findingOf, status, counted, evidenceVars, playbook, requests>>

(* The rest of approve: no second look at the finding, and none at all at  *)
(* the rule, the asset or its target.                                      *)
Approve(e) ==
  /\ pc[e] = "approving"
  /\ status' = [status EXCEPT ![e] = "RUNNING"]
  /\ CountAttempt(e)
  /\ LeaveThread(e, "approved")
  /\ UNCHANGED <<cooling, findingOf, evidenceVars, playbook, requests>>

(* Mutant: a cancellation gives back an attempt, the one that a claim      *)
(* counted until migration 025.                                            *)
MutantCancel(e) ==
  /\ pc[e] = "none"
  /\ AwaitsApproval(e)
  /\ status' = [status EXCEPT ![e] = "CANCELLED"]
  /\ lifecycle' = [lifecycle EXCEPT ![findingOf[e]] = "OPEN"]
  /\ attempts' = [attempts EXCEPT ![findingOf[e]] = @ - 1]
  /\ UNCHANGED <<cooling, findingOf, counted, evidenceVars, pc, playbook, requests>>

(* cancel_awaiting_approval locks execution and finding: back to the       *)
(* queue, without a cooldown.                                              *)
Cancel(e) ==
  /\ pc[e] = "none"
  /\ AwaitsApproval(e)
  /\ ~counted[e]
  /\ status' = [status EXCEPT ![e] = "CANCELLED"]
  /\ lifecycle' = [lifecycle EXCEPT ![findingOf[e]] = "OPEN"]
  /\ cooling' = [cooling EXCEPT ![findingOf[e]] = FALSE]
  /\ UNCHANGED <<attempts, findingOf, counted, evidenceVars, pc, playbook, requests>>

-----------------------------------------------------------------------------
(* execute_existing: start, Ansible and Stage 1 *)

(* The FTP identity check raises before any transaction of this thread: a  *)
(* QUEUED or, after an approval, RUNNING row stays behind.                 *)
FtpIdentityMismatch(e) ==
  /\ "ftp" \in Faults
  /\ pc[e] \in {"queued", "approved"}
  /\ findingOf[e] \in FtpAnonymous
  /\ LeaveThread(e, "dead")
  /\ UNCHANGED <<findingVars, findingOf, status, counted, evidenceVars, playbook, requests>>

(* update_execution_status does not look at the status it replaces.        *)
StartRunning(e) ==
  /\ pc[e] = "queued"
  /\ status' = [status EXCEPT ![e] = "RUNNING"]
  /\ CountAttempt(e)
  /\ LeaveThread(e, "running")
  /\ UNCHANGED <<cooling, findingOf, evidenceVars, playbook, requests>>

(* begin_verification of Stage 1, then the request to the Ansible runner.  *)
BeginStage1(e) ==
  /\ pc[e] \in {"running", "approved"}
  /\ MayVerify(e)
  /\ stage1[e] = "none"
  /\ stage1' = [stage1 EXCEPT ![e] = "PENDING"]
  /\ playbook' = [playbook EXCEPT ![e] = "posted"]
  /\ LeaveThread(e, "ansible")
  /\ UNCHANGED <<findingVars, findingOf, status, counted, stage2, job, review,
                 decisions, requests>>

(* begin_verification raises: one recovery transaction.                    *)
BeginStage1Fails(e) ==
  /\ pc[e] \in {"running", "approved"}
  /\ \/ "database" \in Faults
     \/ ~MayVerify(e)
     \/ stage1[e] # "none"
  /\ FailExecution(e)
  /\ LeaveThread(e, "none")
  /\ UNCHANGED <<attempts, findingOf, counted, evidenceVars, playbook, requests>>

(* The runner (ansible-runner/server.py): it starts a posted request, also *)
(* one whose client has given up waiting, and a playbook ends by itself or *)
(* at ANSIBLE_TIMEOUT, 1800 s.                                             *)
RunnerStarts(e) ==
  /\ playbook[e] = "posted"
  /\ playbook' = [playbook EXCEPT ![e] = "running"]
  /\ UNCHANGED <<findingVars, findingOf, status, counted, evidenceVars, pc, requests>>

RunnerEnds(e) ==
  /\ playbook[e] = "running"
  /\ \E outcome \in {"passed", "failed"} :
       playbook' = [playbook EXCEPT ![e] = outcome]
  /\ UNCHANGED <<findingVars, findingOf, status, counted, evidenceVars, pc, requests>>

(* Mutant: an answer counts as success as soon as the playbook has begun.  *)
MutantRecordStage1(e) ==
  /\ pc[e] = "ansible"
  /\ playbook[e] \in {"running", "passed"}
  /\ status' = [status EXCEPT ![e] = "STAGE1_PASSED"]
  /\ LeaveThread(e, "evidence")
  /\ UNCHANGED <<findingVars, findingOf, counted, evidenceVars, playbook, requests>>

(* The runner's answer, recorded with its consequence in one transaction.  *)
RecordStage1(e) ==
  /\ pc[e] = "ansible"
  /\ stage1[e] = "PENDING"
  /\ \/ /\ playbook[e] = "passed"
        /\ stage1' = [stage1 EXCEPT ![e] = "PASSED"]
        /\ status' = [status EXCEPT ![e] = "STAGE1_PASSED"]
        /\ LeaveThread(e, IF SkipStage2 THEN "none" ELSE "evidence")
        /\ UNCHANGED <<lifecycle, cooling>>
     \/ /\ playbook[e] = "failed"
        /\ stage1' = [stage1 EXCEPT ![e] = "FAILED"]
        /\ FailExecution(e)
        /\ LeaveThread(e, "none")
  /\ UNCHANGED <<attempts, findingOf, counted, stage2, job, review, decisions,
                 playbook, requests>>

(* run_ansible raises.  Either the runner never got the request, or the    *)
(* client gave up on it (ANSIBLE_RUNNER_TIMEOUT, 600 s, or a lost          *)
(* connection): then the playbook goes its own way.                        *)
AnsibleRaises(e) ==
  /\ pc[e] = "ansible"
  /\ stage1[e] = "PENDING"
  /\ \/ /\ playbook[e] = "posted"
        /\ playbook' = [playbook EXCEPT ![e] = "refused"]
     \/ /\ "timeout" \in Faults
        /\ UNCHANGED playbook
  /\ stage1' = [stage1 EXCEPT ![e] = "FAILED"]
  /\ FailExecution(e)
  /\ LeaveThread(e, "none")
  /\ UNCHANGED <<attempts, findingOf, counted, stage2, job, review, decisions, requests>>

-----------------------------------------------------------------------------
(* Stage 2 *)

(* A deferred finding without agent_id raises outside every handler.       *)
SubjectMissing(e) ==
  /\ "subject" \in Faults
  /\ pc[e] = "evidence"
  /\ findingOf[e] \in Deferred
  /\ LeaveThread(e, "dead")
  /\ UNCHANGED <<findingVars, findingOf, status, counted, evidenceVars, playbook, requests>>

(* Stage 2 begins; a deferred one leaves a job and ends the thread.        *)
BeginStage2(e) ==
  /\ pc[e] = "evidence"
  /\ MayVerify(e)
  /\ stage2[e] = "none"
  /\ stage2' = [stage2 EXCEPT ![e] = "PENDING"]
  /\ status' = [status EXCEPT ![e] = "VERIFYING"]
  /\ IF findingOf[e] \in Deferred
       THEN /\ job' = [job EXCEPT ![e] = "PENDING"]
            /\ LeaveThread(e, "none")
       ELSE /\ LeaveThread(e, "scanner")
            /\ UNCHANGED job
  /\ UNCHANGED <<findingVars, findingOf, counted, stage1, review, decisions,
                 playbook, requests>>

(* The scanner no longer sees the finding; if the finding has left         *)
(* IN_REMEDIATION meanwhile, resolve_finding makes the transaction fail.   *)
ScannerAbsent(e) ==
  /\ pc[e] = "scanner"
  /\ IF CanResolve(findingOf[e]) /\ stage2[e] = "PENDING"
       THEN /\ stage2' = [stage2 EXCEPT ![e] = "PASSED"]
            /\ status' = [status EXCEPT ![e] = "SUCCESS"]
            /\ ResolveFinding(findingOf[e])
            /\ LeaveThread(e, "none")
       ELSE /\ LeaveThread(e, "handler")
            /\ UNCHANGED <<stage2, status, lifecycle, cooling>>
  /\ UNCHANGED <<attempts, findingOf, counted, stage1, job, review, decisions,
                 playbook, requests>>

(* The scanner still sees the finding.                                     *)
ScannerPresent(e) ==
  /\ pc[e] = "scanner"
  /\ stage2[e] = "PENDING"
  /\ stage2' = [stage2 EXCEPT ![e] = "FAILED"]
  /\ FailExecution(e)
  /\ LeaveThread(e, "none")
  /\ UNCHANGED <<attempts, findingOf, counted, stage1, job, review, decisions,
                 playbook, requests>>

(* create_review: the execution waits for a person, or the context is no   *)
(* longer eligible and the transaction fails.                              *)
ScannerInconclusive(e) ==
  /\ pc[e] = "scanner"
  /\ findingOf[e] \in Inconclusive
  /\ IF /\ lifecycle[findingOf[e]] = "IN_REMEDIATION"
        /\ status[e] = "VERIFYING"
        /\ stage2[e] = "PENDING"
       THEN /\ stage2' = [stage2 EXCEPT ![e] = "INCONCLUSIVE"]
            /\ status' = [status EXCEPT ![e] = "AWAITING_MANUAL_VERIFICATION"]
            /\ review' = [review EXCEPT ![e] = "PENDING"]
            /\ LeaveThread(e, "none")
       ELSE /\ LeaveThread(e, "handler")
            /\ UNCHANGED <<stage2, status, review>>
  /\ UNCHANGED <<findingVars, findingOf, counted, stage1, job, decisions,
                 playbook, requests>>

(* run_stage2 raises: timeout, gateway error, malformed answer.            *)
ScannerRaises(e) ==
  /\ pc[e] = "scanner"
  /\ LeaveThread(e, "handler")
  /\ UNCHANGED <<findingVars, findingOf, status, counted, evidenceVars, playbook, requests>>

(* Mutant: the handler reopens the finding and forgets its execution.      *)
MutantHandleStage2Error(e) ==
  /\ pc[e] = "handler"
  /\ ReopenFailed(findingOf[e])
  /\ LeaveThread(e, "none")
  /\ UNCHANGED <<attempts, findingOf, status, counted, evidenceVars, playbook, requests>>

(* The handler's transaction, after whatever happened since the failure.   *)
HandleStage2Error(e) ==
  /\ pc[e] = "handler"
  /\ stage2[e] = "PENDING"
  /\ stage2' = [stage2 EXCEPT ![e] = "FAILED"]
  /\ FailExecution(e)
  /\ LeaveThread(e, "none")
  /\ UNCHANGED <<attempts, findingOf, counted, stage1, job, review, decisions,
                 playbook, requests>>

(* finish_job of the deferred reconciler, whose lease and choice of        *)
(* evidence are the subject of another module.                             *)
Reconcile(e) ==
  /\ job[e] = "PENDING"
  /\ status[e] = "VERIFYING"
  /\ stage2[e] = "PENDING"
  /\ lifecycle[findingOf[e]] = "IN_REMEDIATION"
  /\ job' = [job EXCEPT ![e] = "COMPLETED"]
  /\ \/ /\ stage2' = [stage2 EXCEPT ![e] = "PASSED"]
        /\ status' = [status EXCEPT ![e] = "SUCCESS"]
        /\ ResolveFinding(findingOf[e])
     \/ /\ stage2' = [stage2 EXCEPT ![e] = "FAILED"]
        /\ FailExecution(e)
  /\ UNCHANGED <<attempts, findingOf, counted, stage1, review, decisions, pc,
                 playbook, requests>>

(* record_decision: an INCONCLUSIVE decision is only written down.         *)
Decide(e) ==
  /\ review[e] = "PENDING"
  /\ status[e] = "AWAITING_MANUAL_VERIFICATION"
  /\ lifecycle[findingOf[e]] = "IN_REMEDIATION"
  /\ \E d \in Decision :
       /\ decisions' = [decisions EXCEPT ![e] = @ \cup {d}]
       /\ \/ /\ d = "REMEDIATED"
             /\ status' = [status EXCEPT ![e] = "SUCCESS"]
             /\ ResolveFinding(findingOf[e])
             /\ review' = [review EXCEPT ![e] = "COMPLETED"]
          \/ /\ d = "STILL_PRESENT"
             /\ FailExecution(e)
             /\ review' = [review EXCEPT ![e] = "COMPLETED"]
          \/ /\ d = "INCONCLUSIVE"
             /\ UNCHANGED <<lifecycle, cooling, status, review>>
  /\ UNCHANGED <<attempts, findingOf, counted, stage1, stage2, job, pc,
                 playbook, requests>>

-----------------------------------------------------------------------------
(* The environment *)

(* gunicorn kills a worker over its --timeout, the host restarts, or the   *)
(* database connection of the thread breaks.  An approval is rolled back.  *)
KillThread(e) ==
  /\ "kill" \in Faults
  /\ pc[e] \notin {"none", "dead"}
  /\ LeaveThread(e, IF pc[e] = "approving" THEN "none" ELSE "dead")
  /\ UNCHANGED <<findingVars, findingOf, status, counted, evidenceVars, playbook, requests>>

CooldownElapses(f) ==
  /\ cooling[f]
  /\ cooling' = [cooling EXCEPT ![f] = FALSE]
  /\ UNCHANGED <<lifecycle, attempts, findingOf, status, counted, evidenceVars, pc,
                 playbook, requests>>

(* The enricher's upsert sees a resolved finding detected again after the  *)
(* grace period.                                                           *)
Recur(f) ==
  /\ lifecycle[f] = "RESOLVED"
  /\ lifecycle' = [lifecycle EXCEPT ![f] = "OPEN"]
  /\ cooling' = [cooling EXCEPT ![f] = FALSE]
  /\ UNCHANGED <<attempts, findingOf, status, counted, evidenceVars, pc, playbook, requests>>

-----------------------------------------------------------------------------

(* What one controller thread does next.                                   *)
ThreadStep(e) ==
  \/ StartRunning(e) \/ BeginStage1(e) \/ BeginStage1Fails(e)
  \/ RecordStage1(e) \/ AnsibleRaises(e) \/ BeginStage2(e)
  \/ ScannerAbsent(e) \/ ScannerPresent(e) \/ ScannerInconclusive(e)
  \/ ScannerRaises(e) \/ HandleStage2Error(e)

ThreadDies(e) == FtpIdentityMismatch(e) \/ SubjectMissing(e) \/ KillThread(e)

Next ==
  \/ \E f \in Finding :
       \/ Dispatch(f) \/ RejectRequest(f) \/ CooldownElapses(f) \/ Recur(f)
       \/ \E e \in Execution : Claim(f, e)
  \/ \E e \in Execution :
       \/ ApproveReads(e) \/ Approve(e) \/ Cancel(e) \/ ThreadStep(e) \/ ThreadDies(e)
       \/ RunnerStarts(e) \/ RunnerEnds(e) \/ Reconcile(e) \/ Decide(e)

Spec == Init /\ [][Next]_vars

(* A thread that is not killed runs on, since each of its waits is bounded *)
(* by a time-out of its client (600 s for a playbook).  Nothing is assumed *)
(* of the runner, of the reconciler and the refreshes it needs, or of the  *)
(* persons who approve, cancel and decide.                                 *)
Fairness == \A e \in Execution : WF_vars(ThreadStep(e))

FairSpec == Spec /\ Fairness

-----------------------------------------------------------------------------
(* Safety *)

(* At most one execution of a finding is in a status the unique index      *)
(* covers, whatever moves between statuses without looking at the index    *)
(* (update_execution_status has no guard).                                 *)
OneActiveExecution ==
  \A f \in Finding, d, e \in Execution :
    ActiveOn(f, d) /\ ActiveOn(f, e) => d = e

(* A finding IN_REMEDIATION has an unfinished execution: every path that   *)
(* ends an execution, exception handlers included, also releases the       *)
(* finding, so no finding is withheld from the queue by nobody.            *)
NoOrphanClaim ==
  \A f \in Finding :
    lifecycle[f] = "IN_REMEDIATION" => \E e \in Execution : UnfinishedOn(f, e)

(* Conversely, where Stage 2 cannot end INCONCLUSIVE, an unfinished        *)
(* execution has its finding IN_REMEDIATION all along.  This is what lets  *)
(* approve, finish_job and validate_context rely on that state, and the    *)
(* comment of base.py:947-951 say that a deferred finding remains          *)
(* IN_REMEDIATION until the reconciler has fresh evidence.                 *)
ClaimHeld ==
  \A e \in Execution :
    /\ status[e] \in Unfinished
    /\ findingOf[e] \notin Inconclusive
    => lifecycle[findingOf[e]] = "IN_REMEDIATION"

(* remediation_attempts is the number of executions that ever started: a   *)
(* claim, a cancelled approval, a rejected duplicate and a row left QUEUED *)
(* count for nothing, and a start counts once (migrations 013 and 025).    *)
AttemptsCountStarts ==
  \A f \in Finding :
    attempts[f] = Cardinality({e \in Execution :
                    /\ findingOf[e] = f
                    /\ status[e] \notin {"none", "QUEUED", "AWAITING_APPROVAL", "CANCELLED"}})

VerdictOf(e) ==
  /\ status[e] = "SUCCESS" =>
       /\ stage1[e] = "PASSED"
       /\ \/ stage2[e] = "PASSED"
          \/ stage2[e] = "INCONCLUSIVE" /\ "REMEDIATED" \in decisions[e]
  /\ status[e] = "FAILED" =>
       \/ stage2[e] \in {"none", "FAILED"}
       \/ stage2[e] = "INCONCLUSIVE" /\ "STILL_PRESENT" \in decisions[e]
  /\ status[e] = "CANCELLED" => playbook[e] = "none" /\ stage1[e] = "none"
  /\ review[e] = "PENDING" <=> status[e] = "AWAITING_MANUAL_VERIFICATION"
  /\ job[e] = "PENDING" => status[e] = "VERIFYING" /\ stage2[e] = "PENDING"
  /\ ~({"REMEDIATED", "STILL_PRESENT"} \subseteq decisions[e])

(* The verdict of an execution agrees with its evidence rows: success needs *)
(* Stage 1 passed and Stage 2 either passed or inconclusive with a person's *)
(* decision; a failed execution has no passed Stage 2; an open review goes  *)
(* with an execution that waits for it; a pending job with one that         *)
(* verifies; a cancelled one never reached the runner.                      *)
VerdictMatchesEvidence == \A e \in Execution : VerdictOf(e)

(* Two playbooks never work on one finding at the same time: what the      *)
(* index on active executions is for (001_schema.sql:479).                 *)
OnePlaybookPerFinding ==
  \A d, e \in Execution :
    /\ playbook[d] = "running"
    /\ playbook[e] = "running"
    /\ findingOf[d] = findingOf[e]
    => d = e

GivenUp(e) == status[e] = "FAILED" /\ stage1[e] = "FAILED"

(* What is left of that with a client that gives up before the runner      *)
(* does: of two playbooks at work on a finding at least one belongs to an  *)
(* execution whose client has given up and which has failed for it, and    *)
(* whatever a dead thread, a cancellation or a second request may do, no   *)
(* playbook is at work for an execution that has gone on to Stage 2.       *)
PlaybookOutlivesOnlyItsClient ==
  /\ \A e \in Execution :
       playbook[e] = "running" => status[e] = "RUNNING" \/ GivenUp(e)
  /\ \A d, e \in Execution :
       /\ playbook[d] = "running" /\ playbook[e] = "running"
       /\ findingOf[d] = findingOf[e] /\ d # e
       => GivenUp(d) \/ GivenUp(e)

(* What database/001_schema.sql:479 announces for its unique index,        *)
(* "PREVENT TWO ACTIVE REMEDIATIONS OF THE SAME FINDING": at most one      *)
(* execution of a finding is unfinished, the ones that wait for a manual   *)
(* verification (a status of migration 023, which left the index as it     *)
(* was) included.                                                          *)
OneUnfinishedExecution ==
  \A f \in Finding, d, e \in Execution :
    UnfinishedOn(f, d) /\ UnfinishedOn(f, e) => d = e

KeepsVerdict(e) ==
  /\ status[e] \in Terminal => status'[e] = status[e]
  /\ stage1[e] \in {"PASSED", "FAILED"} => stage1'[e] = stage1[e]
  /\ stage2[e] \in {"PASSED", "FAILED", "INCONCLUSIVE"} => stage2'[e] = stage2[e]

(* A verdict is final: nothing moves an execution out of a terminal status *)
(* or rewrites a Stage 1 or Stage 2 result, although the status update of  *)
(* the controller has no guard; only one thread ever acts on the row.      *)
VerdictIsFinal == [][\A e \in Execution : KeepsVerdict(e)]_vars

-----------------------------------------------------------------------------
(* The inductive invariant: what a row, its evidence and its thread say    *)
(* about each other, and the relations between rows                        *)

(* The place of the thread determines the status of the row it works on:   *)
(* this stands in for the guard update_execution_status does not have.     *)
ThreadOf(e) ==
  /\ pc[e] = "approving" => status[e] = "AWAITING_APPROVAL"
  /\ pc[e] = "queued" => status[e] = "QUEUED"
  /\ pc[e] \in {"approved", "running", "ansible"} => status[e] = "RUNNING"
  /\ pc[e] = "evidence" => status[e] = "STAGE1_PASSED"
  /\ pc[e] \in {"scanner", "handler"} => status[e] = "VERIFYING"
  /\ pc[e] = "dead" => status[e] \in Active \ {"AWAITING_APPROVAL"}

NotStarted == {"none", "QUEUED", "AWAITING_APPROVAL", "CANCELLED"}

EvidenceOf(e) ==
  /\ status[e] = "none" <=> findingOf[e] = NoFinding
  /\ counted[e] <=> status[e] \notin NotStarted
  /\ status[e] \in NotStarted => stage1[e] = "none" /\ playbook[e] = "none"
  /\ stage1[e] # "PASSED" => stage2[e] = "none"
  /\ stage2[e] = "none" => job[e] = "none" /\ review[e] = "none"
  /\ stage2[e] # "INCONCLUSIVE" => decisions[e] = {}
  /\ pc[e] \in {"approved", "running"} => stage1[e] = "none" /\ playbook[e] = "none"
  /\ pc[e] = "ansible" => stage1[e] = "PENDING"
  /\ pc[e] = "evidence" => stage1[e] = "PASSED" /\ stage2[e] = "none"
  /\ pc[e] \in {"scanner", "handler"} => stage2[e] = "PENDING" /\ job[e] = "none"
  /\ job[e] = "PENDING" => pc[e] = "none"
  /\ status[e] = "AWAITING_MANUAL_VERIFICATION" =>
       /\ stage2[e] = "INCONCLUSIVE"
       /\ findingOf[e] \in Inconclusive
       /\ decisions[e] \subseteq {"INCONCLUSIVE"}

(* A request at the runner is of a RUNNING execution or outlives it.       *)
RunnerOf(e) ==
  playbook[e] \in {"posted", "running"} => status[e] = "RUNNING" \/ GivenUp(e)

Row(e) == ThreadOf(e) /\ EvidenceOf(e) /\ VerdictOf(e) /\ RunnerOf(e)

Claims == OneActiveExecution /\ NoOrphanClaim /\ ClaimHeld

(* Every row is consistent with its evidence and its thread, and the       *)
(* claims on the findings are as the properties above say.                 *)
ExecutionInvariant == (\A e \in Execution : Row(e)) /\ Claims

-----------------------------------------------------------------------------
(* Liveness *)

(* Work that has started gets a verdict, reaches a person or is handed     *)
(* over to the reconciler, unless its thread dies: nothing but a dead      *)
(* thread strands an execution in the controller, neither a runner that    *)
(* never answers nor a scanner or a database that fails.                   *)
StartedWorkIsSettled ==
  \A e \in Execution :
    status[e] = "RUNNING" ~>
      \/ status[e] \in {"SUCCESS", "FAILED", "AWAITING_MANUAL_VERIFICATION"}
      \/ job[e] = "PENDING"
      \/ pc[e] = "dead"

(* The execution waits for a person or for the reconciler, or its thread   *)
(* has died.                                                               *)
OutOfTheController(e) ==
  \/ status[e] \in {"AWAITING_APPROVAL", "AWAITING_MANUAL_VERIFICATION"}
  \/ job[e] = "PENDING"
  \/ pc[e] = "dead"

(* A claim does not stay with the controller: the finding is released, or  *)
(* an unfinished execution waits for someone else or has lost its thread.  *)
ClaimLeavesTheController ==
  \A f \in Finding :
    lifecycle[f] = "IN_REMEDIATION" ~>
      \/ lifecycle[f] # "IN_REMEDIATION"
      \/ \E e \in Execution : UnfinishedOn(f, e) /\ OutOfTheController(e)

-----------------------------------------------------------------------------
(* The abstract finding lifecycle, which the executions implement *)

Phase == [e \in Execution |->
            IF status[e] = "none" THEN "unborn"
            ELSE IF status[e] \in Unfinished THEN "live"
            ELSE IF status[e] = "SUCCESS" THEN "confirmed" ELSE "abandoned"]

FL == INSTANCE FindingLifecycle WITH phase <- Phase

(* Every step of the controller, the reviewers, the reconciler and the     *)
(* enricher is a step of the abstract lifecycle or leaves it alone.        *)
ImplementsLifecycle == FL!Spec

=============================================================================
