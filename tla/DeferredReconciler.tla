-------------------------- MODULE DeferredReconciler --------------------------
(***************************************************************************)
(* remediation/deferred_reconciler.py: reconcilers lease the deferred      *)
(* Stage 2 jobs and decide each from the finding's row and the newest      *)
(* watermark of the scanner refreshes, which RefreshIngestion goes on      *)
(* writing at the same time.                                               *)
(*                                                                         *)
(* A job's execution is VERIFYING, its Stage 2 row PENDING and its finding *)
(* IN_REMEDIATION for as long as the job is not COMPLETED: that is proved  *)
(* of RemediationExecution (VerdictMatchesEvidence and ClaimHeld).  Hence  *)
(* validate_context has nothing to object to, the updates of finish_job    *)
(* that check these states succeed, and neither branch appears here.       *)
(***************************************************************************)
EXTENDS RefreshIngestion

CONSTANTS
  Job,          \* deferred_verification_jobs
  Reconciler,   \* reconciler processes, each with its own worker_id
  NoOne,        \* lease_owner NULL
  NoVerdict,    \* a job without a decision
  BatchSize,    \* DEFERRED_BATCH_SIZE
  MaxTroubles   \* bound on kills, database errors and leases outlived

ASSUME ReconcilerAssumption ==
  /\ NoOne \notin Reconciler
  /\ {BatchSize, MaxTroubles} \subseteq Nat

VARIABLES
  job,      \* the row of each job
  batch,    \* the leased jobs a reconciler has still to process
  context,  \* what load_job_context has read for the job in hand
  verdict,  \* the decision on a job, with its evidence
  troubles

jobVars == <<job, batch, context, verdict, troubles>>
vars == <<ingestionVars, jobVars>>

JobRow == [status : {"none", "PENDING", "LEASED", "COMPLETED"},
           finding : Finding, evidenceAfter : Nat,
           owner : Reconciler \cup {NoOne},
           expired : BOOLEAN,       \* lease_until < now()
           lastWatermark : Nat]

(* known: the refreshes that were watermarks when the context was read,    *)
(* kept for the properties only.                                           *)
Context == [job : Job, refresh : Refresh \cup {NoRefresh}, seen : Nat,
            last : Nat, leaseValid : BOOLEAN, known : SUBSET Refresh]

Decision == [passed : BOOLEAN, refresh : Refresh, known : SUBSET Refresh]

TypeOK ==
  /\ IngestionTypeOK
  /\ job \in [Job -> JobRow]
  /\ batch \in [Reconciler -> SUBSET Job]
  /\ context \in [Reconciler -> Context \cup {Idle}]
  /\ verdict \in [Job -> Decision \cup {NoVerdict}]
  /\ troubles \in 0..MaxTroubles
  /\ \A j \in Job : job[j].status = "LEASED" <=> job[j].owner # NoOne

Init ==
  /\ IngestionInit
  /\ job \in [Job -> {[status |-> "none", finding |-> f, evidenceAfter |-> 0,
                       owner |-> NoOne, expired |-> FALSE, lastWatermark |-> 0] :
                         f \in Finding}]
  /\ batch = [w \in Reconciler |-> {}]
  /\ context = [w \in Reconciler |-> Idle]
  /\ verdict = [j \in Job |-> NoVerdict]
  /\ troubles = 0

-----------------------------------------------------------------------------

(* create_deferred_verification_job, once Stage 1 has passed.  A finding   *)
(* has one active execution, hence one unfinished job.                     *)
CreateJob(j) ==
  /\ job[j].status = "none"
  /\ \A i \in Job : job[i].finding = job[j].finding => job[i].status \in {"none", "COMPLETED"}
  /\ clock' = clock + 1
  /\ job' = [job EXCEPT ![j].status = "PENDING", ![j].evidenceAfter = clock']
  /\ UNCHANGED <<refreshVars, queueVars, evidenceRows, lastId, txn, batch, context,
                 verdict, troubles>>

(* Mutant: an expired lease is nobody's to take.                           *)
MutantDue(j) == job[j].status = "PENDING"

(* next_check_at has passed, or the lease has expired.                     *)
Due(j) == job[j].status = "PENDING" \/ (job[j].status = "LEASED" /\ job[j].expired)

(* lease_jobs takes due jobs, those another reconciler locks skipped.      *)
Lease(w) ==
  /\ batch[w] = {}
  /\ context[w] = Idle
  /\ \E jobs \in SUBSET {j \in Job : Due(j)} \ {{}} :
       /\ Cardinality(jobs) <= BatchSize
       /\ batch' = [batch EXCEPT ![w] = jobs]
       /\ job' = [j \in Job |->
                    IF j \in jobs
                    THEN [job[j] EXCEPT !.status = "LEASED", !.owner = w, !.expired = FALSE]
                    ELSE job[j]]
  /\ UNCHANGED <<ingestionVars, context, verdict, troubles>>

(* load_job_context reads the finding's row of the next job.  It opens a   *)
(* transaction, whose now() stands still.  In a batch, a job found lost    *)
(* leaves that transaction open for the next job, whose lease may have run *)
(* out since it began.                                                     *)
LoadContext(w) ==
  /\ context[w] = Idle
  /\ \E j \in batch[w] :
       /\ batch' = [batch EXCEPT ![w] = @ \ {j}]
       /\ IF job[j].owner = w
            THEN \E valid \in {~job[j].expired} \cup {TRUE : k \in 2..BatchSize} :
                   context' = [context EXCEPT ![w] =
                     [job |-> j, refresh |-> metadata[job[j].finding],
                      seen |-> lastSeen[job[j].finding], last |-> job[j].lastWatermark,
                      leaseValid |-> valid, known |-> {r \in Refresh : Promoted(r)}]]
            ELSE UNCHANGED context
  /\ UNCHANGED <<ingestionVars, job, verdict, troubles>>

(* A successful refresh that completed after the remediation; when it      *)
(* looked at the subject is not asked.                                     *)
Fresh(j, r) == outcome[r] = "SUCCESS" /\ completed[r] > job[j].evidenceAfter

(* Watermarks with a greater id than the last one considered, which are    *)
(* not all the later ones: ids are not drawn in the order of commits.      *)
Candidates(c) == {r \in Refresh : watermark[r] > c.last /\ Fresh(c.job, r)}

(* latest_success_watermark. *)
IsLatest(r, c) ==
  /\ r \in Candidates(c)
  /\ \A q \in Candidates(c) : completed[q] <= completed[r]

(* Mutant: a later sighting than the remediation, not than the refresh.    *)
MutantPresent(c, r) == c.refresh = r \/ c.seen > job[c.job].evidenceAfter

(* evaluate_presence, with what the context said when it was read.         *)
Present(c, r) == c.refresh = r \/ c.seen > completed[r]

AbsenceAuthoritative(r) == r \notin Filtered

(* Mutant: lease_owner is not cleared.                                     *)
MutantReschedule(j, last) ==
  job' = [job EXCEPT ![j].status = "PENDING", ![j].lastWatermark = last]

Reschedule(j, last) ==
  job' = [job EXCEPT ![j].status = "PENDING", ![j].owner = NoOne,
                     ![j].expired = FALSE, ![j].lastWatermark = last]

(* Mutant: the lease is not looked at again before the terminal writes.    *)
MutantHoldsLease(w, j) == job[j].status # "none"

(* finish_job, with the job's row locked.                                  *)
HoldsLease(w, j) == job[j].status = "LEASED" /\ job[j].owner = w /\ ~job[j].expired

(* reschedule_job: its now() is that of the transaction's beginning.       *)
RescheduleOrLose(w, c, last) ==
  /\ IF job[c.job].owner = w /\ c.leaseValid THEN Reschedule(c.job, last) ELSE UNCHANGED job
  /\ UNCHANGED verdict

Finish(w, c, r) ==
  IF HoldsLease(w, c.job)
  THEN /\ verdict' = [verdict EXCEPT ![c.job] =
                        [passed |-> ~Present(c, r), refresh |-> r, known |-> c.known]]
       /\ job' = [job EXCEPT ![c.job].status = "COMPLETED", ![c.job].owner = NoOne,
                             ![c.job].lastWatermark = watermark[r]]
  ELSE UNCHANGED <<verdict, job>>

(* The rest of process_job.  It reads the watermarks after the context, in *)
(* the same READ COMMITTED transaction; what is promoted between that read *)
(* and the end of the transaction no longer matters to it.                 *)
Judge(w) ==
  /\ context[w] # Idle
  /\ LET c == context[w]
     IN  \/ /\ Candidates(c) = {}
            /\ RescheduleOrLose(w, c, job[c.job].lastWatermark)
         \/ \E r \in Candidates(c) :
              /\ IsLatest(r, c)
              /\ IF Present(c, r) \/ AbsenceAuthoritative(r)
                   THEN Finish(w, c, r)
                   ELSE RescheduleOrLose(w, c, watermark[r])
  /\ context' = [context EXCEPT ![w] = Idle]
  /\ UNCHANGED <<ingestionVars, batch, troubles>>

(* process_job raises: rollback, and one attempt to give the job back.     *)
JudgeFails(w) ==
  /\ context[w] # Idle
  /\ troubles < MaxTroubles
  /\ troubles' = troubles + 1
  /\ LET j == context[w].job
     IN  IF HoldsLease(w, j) THEN Reschedule(j, job[j].lastWatermark) ELSE UNCHANGED job
  /\ context' = [context EXCEPT ![w] = Idle]
  /\ UNCHANGED <<ingestionVars, batch, verdict>>

(* The process is killed, or its connection breaks: its leases stay.       *)
Kill(w) ==
  /\ batch[w] # {} \/ context[w] # Idle
  /\ troubles < MaxTroubles
  /\ troubles' = troubles + 1
  /\ batch' = [batch EXCEPT ![w] = {}]
  /\ context' = [context EXCEPT ![w] = Idle]
  /\ UNCHANGED <<ingestionVars, job, verdict>>

InHand(w, j) == j \in batch[w] \/ (context[w] # Idle /\ context[w].job = j)

(* lease_until passes, while the holder still has the job in hand (a slow  *)
(* batch, a trouble) or after it has left it.                              *)
LeaseExpires(j) ==
  /\ job[j].status = "LEASED"
  /\ ~job[j].expired
  /\ job' = [job EXCEPT ![j].expired = TRUE]
  /\ IF InHand(job[j].owner, j)
       THEN troubles < MaxTroubles /\ troubles' = troubles + 1
       ELSE UNCHANGED troubles
  /\ UNCHANGED <<ingestionVars, batch, context, verdict>>

ReconcilerStep(w) == Lease(w) \/ LoadContext(w) \/ Judge(w)

Next ==
  \/ IngestionNext /\ UNCHANGED jobVars
  \/ \E w \in Reconciler : ReconcilerStep(w) \/ JudgeFails(w) \/ Kill(w)
  \/ \E j \in Job : CreateJob(j) \/ LeaseExpires(j)

Spec == Init /\ [][Next]_vars

(* A reconciler loops for ever, survives what a cycle raises, and systemd  *)
(* restarts it; time passes, so leases run out.  Nothing makes the scanner *)
(* refresh, or a worker of a queue work.  Which of several due jobs is     *)
(* leased next is left open (the code takes the one due first), so         *)
(* liveness is checked for one job.                                        *)
FairSpec ==
  /\ Spec
  /\ \A w \in Reconciler : WF_vars(ReconcilerStep(w))
  /\ \A j \in Job : WF_vars(LeaseExpires(j))

-----------------------------------------------------------------------------

Passed(j) == verdict[j] # NoVerdict /\ verdict[j].passed

Failed(j) == verdict[j] # NoVerdict /\ ~verdict[j].passed

Reports(r, j) == job[j].finding \in content[r]

Lists(r, j) == job[j].finding \in inventory[r]

(* A remediation fails for its finding's presence only if a refresh that   *)
(* completed after Stage 1 reports the finding: the one the decision       *)
(* cites, or one that looked at the subject after that was over ("Presence *)
(* in a fresh refresh", deferred_reconciler.py:16).  Freshness is a matter *)
(* of completion: what the cited refresh reports may have been seen before *)
(* the remediation.                                                        *)
PresenceNeedsEvidence ==
  \A j \in Job : Failed(j) =>
    LET w == verdict[j].refresh
    IN  /\ completed[w] > job[j].evidenceAfter
        /\ Reports(w, j) \/ \E r \in Refresh : Reports(r, j) /\ observed[r] > completed[w]

(* Another refresh has reported the finding in between, and overwritten    *)
(* the refresh_id of w: it looked at the subject before w was over, and    *)
(* was over later or came in once more.                                    *)
Overwritten(w, j) ==
  \E r \in Refresh \ {w} :
    /\ Reports(r, j)
    /\ observed[r] <= completed[w]
    /\ completed[r] > completed[w] \/ redeliveries > 0

(* A finding is resolved for its absence only by an unfiltered successful  *)
(* refresh that ended after Stage 1; and if that refresh was a watermark   *)
(* before the finding's row was read, the scanner did not list the finding *)
(* for it, whatever was left out of a report, lost on its way, promoted    *)
(* out of order, or outlived a lease.  The one way out is an overlapping   *)
(* or a requeued report, which takes the refresh_id away.                  *)
AbsenceNeedsEvidence ==
  \A j \in Job : Passed(j) =>
    LET w == verdict[j].refresh
    IN  /\ outcome[w] = "SUCCESS"
        /\ w \notin Filtered
        /\ completed[w] > job[j].evidenceAfter
        /\ w \in verdict[j].known /\ Lists(w, j) => Overwritten(w, j)

(* What deferred_reconciler.py:13 says without that condition.  The row is *)
(* read before the watermarks: a refresh that reports the finding and is   *)
(* promoted in between resolves it.                                        *)
PresenceFailsStage2 == \A j \in Job : Passed(j) => ~Reports(verdict[j].refresh, j)

(* A decision is taken once: a reconciler that has outlived its lease does *)
(* not decide again what another has decided, whichever comes first.       *)
OneVerdict == [][\A j \in Job : verdict[j] # NoVerdict => verdict'[j] = verdict[j]]_vars

(* The newest evidence for j decides it, present or absent, and its id is  *)
(* greater than the last one considered.                                   *)
Decidable(j) ==
  /\ job[j].status \in {"PENDING", "LEASED"}
  /\ \E r \in Refresh \ Filtered :
       /\ watermark[r] > job[j].lastWatermark
       /\ Fresh(j, r)
       /\ \A q \in Refresh : Promoted(q) /\ Fresh(j, q) => completed[q] <= completed[r]

(* A job does not stay decidable for ever: the lease of a reconciler that  *)
(* was killed runs out, and another one takes the job.                     *)
DecidableJobCompletes == \A j \in Job : Decidable(j) ~> ~Decidable(j)

=============================================================================
