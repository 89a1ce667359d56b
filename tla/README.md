# Formal models of the automated security remediation platform

TLA+ modules, TLC runs and TLAPS proofs about the code under `src/`. They cover
the life of a remediation from the dispatcher to its verdict, the verification
by a scanner on the spot, the ingestion of Wazuh refreshes, the reconciliation
of deferred verifications, the registry of assets and the readiness of their
execution targets, and the coordination of scans. `PROJECT.json` lists
components, runs, mutants, the source lines of each definition, hazards,
findings and theorems.

    tlc -workers 2 -config sc_core.cfg MCScanCoordination
    tlapm ScanCoordinationProofs.tla

## 1. The system

| Component | State it keeps | Operations | Interacts with |
|---|---|---|---|
| Finding lifecycle: SQL functions, trigger, unique index (`database/`) | `unified_security_findings`: lifecycle status, attempts, cooldown | `claim_finding`, `resolve_finding`, `reopen_failed_remediation`, attempt trigger | called inside the transactions of all others |
| Remediation dispatcher | none | poll the queue view, POST `/remediate` | controller, over HTTP with a timeout |
| Remediation controller | `remediation_executions`, `remediation_verifications` | execute, approve, cancel, `execute_existing` | runner and gateway over HTTP, jobs, reviews |
| Ansible runner | running playbooks | `/run` | controller; keeps running when the client has gone |
| Manual verification | reviews, append-only decisions | `create_review`, `record_decision` | executions, findings |
| Deferred reconciler | `deferred_verification_jobs` with leases | lease, judge, reschedule, finish | watermarks, findings, executions |
| Wazuh orchestrators, integration, two rq queues, two workers | findings, receipts, completions, watermarks | observe, complete, upsert, store, promote, requeue | each other, through Redis and PostgreSQL |
| Scan scheduler | `scan_policies.next_run_at`, one cycle's exclusions | initialise, materialise | `scan_executions`, administrators |
| Scan coordination service | `scan_executions` with leases | lease, start, renew, complete, sweep | agents over HTTP |
| Scan execution agent | the job it holds, a scanner process | lease, start, renew, report, terminate | service, orchestrators |
| Scan policy administration | policies, audit rows | create, update, enable, disable | scheduler, by the row lock |
| Verification gateway and dispatcher | none | start an orchestrator, read its answer and exit code | controller, orchestrators |
| Orchestrators of Nmap, Trivy, Lynis, OpenVAS, Nuclei, Wazuh SCA | none across runs | scan and file findings; verify one finding again | gateway, enricher |
| Orchestrator of Wazuh vulnerabilities | none across runs | read the inventory, file findings, complete the refresh | Wazuh indexer, enricher |
| Asset resolution | `assets`, `asset_identifiers` | look up, create, touch | enricher workers, inside their transaction |
| Readiness management | authority of assets and execution targets, audit rows | authorise, revoke, replace | queue view and controller read its rows |
| Node credentials, routing rules, risk contextualisation | rows | provision; pure choices and arithmetic | coordination, queue view, ingestion |
| Installer, playbooks, Appsmith front end | journal; none | provisioning, configuration, user interface | hosts |

What is hard, and the properties that make each part correct:

- *Remediation.* `update_execution_status` writes without looking at the status
  it replaces, duplicated and delayed requests arrive at any time, the client of
  the runner times out while the playbook runs, Stage 2 fails in a handler with
  a transaction of its own, a worker is killed between two transactions. Correct
  means: one active execution per finding, no claim without work and no work
  without claim, verdicts that agree with their evidence and never change,
  attempts that count starts, started work that ends.
- *Ingestion.* Two workers under READ COMMITTED, no order between their queues,
  losses and requeued messages. Correct means: a watermark is written only once
  everything its refresh reports is in, and the newest report prevails.
- *Reconciliation.* Rows read one after another, leases outlived in a batch,
  reconcilers killed. Correct means: presence and absence rest on fresh evidence
  that says so, a verdict is given once, and a job that can be decided is.
- *Verification on the spot.* The scanned subject changes between scan, request,
  run and probe; results of several tests share a key; a scan had filters its
  verification does not repeat; a run fails in ways that look like a clean one.
  Correct means: a verification passes only on a run that would have seen the
  finding.
- *Assets and readiness.* Two workers discover one host; assets are retired or
  revoked between look-up, claim and start; rows are older than the triggers.
  Correct means: an identity is one asset for ever, work starts only on an
  authorised target, the audit explains what is authorised.
- *Scan coordination.* A snapshot older than the row lock, requests processed
  after their client has gone, a scanner that outlives its agent, a sweep racing
  a completion, administrators changing policies meanwhile. Correct means: one
  active execution per policy, no occurrence skipped, recycled or run twice when
  the clocks change, statuses that say what the scanner did, and due occurrences
  that are materialised.

## 2. Modules

| Module | What it is | Source |
|---|---|---|
| `FindingLifecycle` | abstract: what claims, verdicts and recurrences promise about a finding | the SQL functions |
| `FindingLifecycleProofs` | its type invariant, and no claim without work | |
| `RemediationExecution` | one action per database transaction of an execution | `remediation/controllers/base.py`, `remediation/shared/db.py`, `manual_verification/service.py`, migrations |
| `RemediationExecutionProofs` | type, safety, finality, refinement of `FindingLifecycle` | |
| `ScannerCommon` | first rule that holds, answers of a verification | `scanner_orchestrators/` |
| `NmapOrchestrator`, `TrivyOrchestrator`, `LynisOrchestrator`, `OpenVASOrchestrator`, `NucleiOrchestrator`, `WazuhScaOrchestrator` | constant-level: what a scan files, what a verification concludes | the orchestrator of that name |
| `ScannerVerification` | the six of them behind gateway and dispatcher, next to a changing subject | `verification/`, `remediation/controllers/base.py` |
| `ScannerVerificationProofs` | type, which failures never pass, items recognised, passes that match ingestion | |
| `WazuhVulnOrchestrator` | constant-level: what a refresh of the inventory reports | `scanner_orchestrators/wazuh_vuln_orchestrator.py` |
| `WazuhVulnOrchestratorProofs` | its reports are as the ingestion assumes | |
| `RefreshIngestion` | queues, workers, promotion to watermarks | `worker/enricher_worker.py`, integration, orchestrators |
| `RefreshIngestionProofs` | type, complete watermarks, newest report, one promotion | |
| `DeferredReconciler` | EXTENDS `RefreshIngestion`: reconcilers on top of the real ingestion | `remediation/deferred_reconciler.py` |
| `DeferredReconcilerProofs` | EXTENDS both: type, evidence of verdicts, one verdict, evidence kept and considered once | |
| `AssetReadiness` | authority of assets and targets, triggers, the two gates | `readiness_management/service.py`, migrations 015 and 016, `remediation/shared/db.py` |
| `AssetResolution` | EXTENDS `AssetReadiness`: workers that find or create assets | `asset_management/resolver.py` |
| `AssetResolutionProofs` | type, one target, authority, the audit, stable identity, work starts ready | |
| `CronSchedule` | cron expressions and clocks that change | `scan_coordination/scheduling.py` |
| `ScanAttempts` | abstract: what a row of `scan_executions` promises | migrations 017 and 018 |
| `ScanCoordination` | EXTENDS `CronSchedule`: scheduler, service, agents, administrators | `scan_coordination/`, `scan_policy_administration/service.py` |
| `ScanCoordinationProofs` | schedules, type, safety, finality, refinement of `ScanAttempts` | |
| `MC...` | instances and symmetry for TLC; `MCScannerEvidence` puts ingestion and verification side by side | |

**RemediationExecution.** A `with conn:` block is an action, since its row locks
serialise it; everything between two blocks interleaves. `pc[e]` is the place of
the one controller thread of execution `e`: `Claim` (`execute`), `StartRunning`,
`BeginStage1`, then `RunnerStarts`/`RunnerEnds` of the runner, `RecordStage1` or
`AnsibleRaises`, `BeginStage2`, one of the `Scanner...` answers and
`HandleStage2Error`. `requests[f]` are POSTs sent and not processed, so a
duplicate may arrive at any later time. `Faults` names what may go wrong: a
killed thread, a client timeout, a database error, a missing subject, an FTP
identity mismatch. An approval is two steps, since `base.py:524` reads the
finding by a plain SELECT before it takes any lock: `ApproveReads`, and
`Approve` with whatever has become of the finding in between. Verification of a
playbook's effect is a choice of the scanner's answers; how the scanners come to
them is the next module's subject.

**ScannerVerification.** A behaviour is about one engine and one subject.
`world` is what is wrong with the subject, and changes at any time (`Breaks`,
`IsFixed`); `Scan` files what the engine's filters let through and overwrites
rows with the same key, the last one winning; `Request`, `RunScanner`, `Probe`
(the separate FTP login of Nmap) and `Conclude` are one verification, on the row
as it was when it was requested; what the probe finds is `AnonymousLogin` of
the subject. A result is a record of markers: each
orchestrator's ordered class rules, keys, filters, matching and exit codes are
operators of its module, in the order of the code. `Fault` lists what may go
wrong with a run. `report` is the file Lynis writes: it survives from one audit
to the next, since nothing removes it, so what an audit leaves there
(`ReportsLeft`) is a new report, a part of one, or the old one. A verification
is judged by what its program looks at, and `NoFailureIsAbsence`, which three of
the programs claim, is false (finding 6).

**RefreshIngestion.** A worker's transaction is two steps, one that reads and
decides (what READ COMMITTED lets its statements see) and one that commits;
`RowFree` is the row lock of the completion. `clock` orders observation,
completion and processing. The id of a watermark is drawn from its sequence by
the INSERT (`DrawId`, `lastId`) and becomes visible at `Commit`, or is lost at
`Abort`: two workers may commit their ids out of order. The two rq queues are
sequences; a message may be lost with its worker (`Losses`) or requeued
(`Redeliver`). What a refresh may report is the constant `ScanReports` with the
assumption `ReportsAssumption`; `WazuhVulnOrchestrator` derives such reports
from the documents of an inventory, the malformed, filtered and truncated ones
included.

**AssetReadiness, AssetResolution.** An administrative operation is one
transaction under the row lock of its asset. The three columns of an
authorisation and the three of its revocation are one value, its authority.
`AssetAllowed` and `TargetAllowed` are the triggers, which look only at rows
that change; rows from before migration 016, with the identifiers and targets
they may have, are among the initial states, so that findings are resolved and
bound to them like to any other asset. `ClaimFinding` is the queue view,
`StartWork` the controller's check, of the asset the finding is bound to by
then. A worker's resolution is two steps (look-up, store) before its commit;
`Contended` and the case split of the store are the unique index under READ
COMMITTED, `StoreTaken` the savepoint.

**DeferredReconciler.** `Lease`, then per job `LoadContext` (the finding's row)
and `Judge` (the watermarks, and the decision with its guard on the lease),
because promotions may come between. `Candidates` are the visible watermarks
with an id above `last_watermark_id`: one whose id was drawn earlier and
committed later is passed over, as in the code. `context[w].leaseValid` is the
lease as PostgreSQL's `now()` of the open transaction sees it.

**ScanCoordination.** An execution is a pair of policy and instant. `FindDue`
takes the snapshot of the due query and `LockDue` the row lock, which rechecks
the policy but not the subquery on executions; `Materialise` is the rest of the
transaction, with its four ways out; `Initialise` sets `next_run_at`, and
`FailInitialise` is the failure of a policy whose schedule or zone cannot be
evaluated (`Invalid`), which takes one of the batch's attempts; a cycle's
`attempts` and `excluded` are those of `run_once`. `late` holds start and
completion requests whose clients have given up. `scanner[e]` is the process,
which may outlive its agent. `overdue[e]` is `lease_expires_at <= now()`.
`Following` is `next_cron_occurrence` of the policy's schedule. Creation of
policies is in `Init`. Renewal within a lease changes nothing at this level; a
refused one terminates the scanner.

**ScanAttempts** is the life of an execution as migration 018 draws it, with no
scheduler, lease, agent or clock: an attempt is created when the policy has no
live one and only for a later occurrence, its scanner runs once, and it ends by
a report of what its ended scanner did or by being abandoned. `ScanCoordination`
instantiates it with `status` and `scanner` (`ImplementsAttempts`). All the rest
of the module, late requests and stale snapshots included, must be stutters.

**CronSchedule.** A schedule is the set of wall times its expression matches and
a zone, what the clocks show at each instant. `NextCronOccurrence` walks the
slots by wall time, as croniter does, and resolves each to the first instant
that shows it, or to none: `scheduling.py` promises that skipped wall times are
skipped and repeated ones occur once. `Zone` says that clocks go back only over
wall times they have shown; that is what makes walking by wall time right.

## 3. Runs

| Run | Bounds | Shows |
|---|---|---|
| `rx_core` | 2 findings (one approved, inconclusive and FTP; one deferred), 3 executions, 2 requests each, all faults | all safety properties of remediation, that it implements `FindingLifecycle`, and that started work and claims go on |
| `rx_two_unfinished` | 1 finding, 2 executions | finding 1 |
| `rx_playbook_overlap` | 1 finding, 2 executions, timeouts | finding 2 |
| `ri_ingestion` | 2 findings, 2 overlapping refreshes (one filtered) of inventories of at most 2 documents, truncated scrolls, losses, 1 requeued message; or one of six engines with 2 to 4 results on one subject | complete watermarks, newest report prevails; which failures no verification passes on, and that it sees what it asks for |
| `ri_lost_promotion` | 2 findings, 1 refresh, nothing lost | finding 3 |
| `dr_decisions` | 1 finding, 2 refreshes (one filtered) that report all or part of what is there and may fail, 2 reconcilers, losses, and one of: a kill, an outlived lease, a requeued message, an overlap | evidence for presence and absence, one verdict, decidable jobs are decided |
| `dr_false_absence` | 1 finding, 1 refresh, 1 reconciler | finding 4 |
| `sc_core` | 2 policies, one with five schedules to change between (regular, clocks going back, going forward, MANUAL, unknown zone), 2 instants, 2 schedulers, 2 agents, 2 troubles or changes, sweep | all safety properties of scan coordination, that executions are the attempts the migrations document, and that scheduling moves on |
| `sc_no_sweep` | 1 policy, no sweep | finding 5 |
| `sv_fail_open` | Lynis, OpenVAS or Nuclei with 2 to 4 results | finding 6 |
| `ar_registry` | 2 assets, 2 targets, 4 audit events, 2 workers, 4 kinds of observation, at most one asset with legacy rows | one active target, authority, audit, stable identity, work starts ready |
| `ar_legacy_start` | the same | finding 7 |

Why the bounds suffice to be interesting: races here are between two actors of
a kind on one row. Two findings and three executions give a finding a
predecessor, a duplicate and a retry; two refreshes give an older and a newer
report; two schedulers on one policy give the stale snapshot; two instants give
an occurrence that falls due while the earlier one runs. The results of each
engine are chosen so that two share a key, one is left out by a filter, and one
is not a finding; the observations so that one host is seen by two agents, by
address alone, and by an application. `MaxRequests`, `MaxEvents`,
`MaxRedeliveries`, `MaxTroubles`, `MaxChanges`, `Horizon`, `BatchSize` and the
sets of identities bound the state space, in the guards. The proofs have no such
bounds.

The MC modules narrow some instances further, by a conjunct on steps or on
initial states:

- `MCRemediationExecution`: executions are handed out in order, as a sequence
  does, and a behaviour has three executions of one finding, or two on two:
  findings share nothing but the identities.
- `MCDeferredReconciler`: one thing at a time goes wrong with reconcilers or
  refreshes (`MaxEvents`), and the second reconciler begins when the first is
  busy, since idle ones are alike. Losses, failed refreshes and ids out of order
  are not counted.
- `MCScanCoordination`: the other policy is disabled, and two schedulers and two
  agents work on one policy; or it is enabled and fails in every cycle, and one
  scheduler and one agent work on both. The second of a pair begins when the
  first is busy and the clocks are regular.
- `MCAssetResolution`: at most one asset is older than migration 016, and it has
  no inactive targets, which no action tells from a target nobody has named.
- `MCScannerEvidence`: a behaviour follows the refreshes or the verification:
  they share no state, so their product would show nothing more.

Deadlock is not checked: executions, instants and audit events run out, and a
scheduler with no time left to come has nothing to do.

Each property of a passing run has a mutant, a plausible bug in a mapped
definition that breaks it.

**Fairness.** Three actors are weakly fair, and time passes:

- controller threads: each of their waits is bounded, by the time-outs of the
  HTTP clients (`Fairness`, in `rx_core`);
- schedulers and reconcilers: each is a loop over short transactions, in a unit
  with `Restart=on-failure` (`FairSpec` of `ScanCoordination` and
  `DeferredReconciler`);
- a lease of a job runs out.

Nothing else is: not the runner (which may outlast its client, and hang), nor
agents (no unit of the repository restarts them), nor scanners (the agent sets
them no limit, `execution_agent.py:835`, `849`), nor the sweep of leases (nothing
calls it), nor refreshes, workers and messages, persons, or late requests. So the
liveness properties are about what the fair actors can do alone:

- `StartedWorkIsSettled`: started work gets its verdict, or is handed over to a
  job or a review, unless its thread dies; nothing resumes a dead thread.
- `ClaimLeavesTheController`: a claim does not stay with a living thread.
- `DecidableJobCompletes`: a job with a watermark that decides it, and that is
  ahead of its `last_watermark_id`, is decided.
- `SchedulingMovesOn`: a policy that can be initialised, or that is due without
  an active execution, does not wait for a scheduler for ever, unless
  administrators change it. It needs fewer failing policies than the batch:
  failed attempts count towards it, so as many failing policies, due earlier,
  would use every cycle up.

That deferred work ends, and that due occurrences are scanned, would need what is
not assumed, and is not claimed. `AttendedSpec` assumes more than the repository
gives, agents that are always restarted and scanners that end; only the
violation run `sc_no_sweep` uses it, to show that even then an abandoned lease
blocks its policy.

## 4. Proofs

Proved for all values of the constants, under the named assumptions in the
modules (fresh null values, bounds that are numbers, routing as
`base.py:291-303` and `953-1020` restrict it).

*Remediation* (`RemediationExecutionProofs`). `OneActive`, `NoOrphans`,
`ClaimsHold` and `VerdictsMatch` are not inductive: updates are unguarded, so
they rest on what a thread knows about the row it works on.
`ExecutionInvariant` says that: the place of a thread determines the status
(`ThreadOf`) and the evidence (`EvidenceOf`) of its row, and claims agree with
rows. Each action changes one row, so the other rows are kept by one lemma, and
claims by one lemma per kind of change (claim, start, end, cancellation,
recurrence). `VerdictsFinal` and `Implementation` (refinement of
`FindingLifecycle!Spec`, each action a step or a stutter) follow from it.
`PlaybooksOverlapGivenUp` is what is true of playbooks with the shipped
time-outs: of two at work on a finding, one belongs to an execution that has
failed because its client gave up, and none to one that has gone on to Stage 2;
it rests on the conjunct `RunnerOf`, which ties a running playbook to the place
of its thread. `AttemptsCount` counts, finding by finding, the executions past
their start. That a finding has one unfinished execution, and that its cooldown
is kept, are no theorems: a late duplicate request makes both false (finding 1
and section 6). `FindingLifecycleProofs` shows that the abstract lifecycle never
has a claim without live work.

*Scan coordination* (`ScanCoordinationProofs`). `CoordinationInvariant` has two
halves. Schedules: executions are of instants that have come, a locked policy
stays due (administrators wait for the lock), and the three properties. Leases:
an execution is leased once, so agents hold different ones; a late request
concerns one nobody holds; a scanner within its lease means RUNNING. The first
half is kept by whatever the service and the agents do because they create
nothing and reactivate nothing (`OnlyProgress`), the second by schedulers and
administrators because they only create (`OnlyCreation`); so each action is
proved against one half. `NextIsFirstOccurrence` says of every schedule and zone
that the search by wall time finds the first occurrence after a time; it rests
on `LaterShowsLater`, that a later first showing is a later wall time. From it
follow `ActiveExecutions`, `ActivePast`, `DueAtOccurrences`, `CatchesUp`,
`RecordIsTrue`, `ScannersExclude`; `TerminalStays` needs the types alone.
`ActivePast` implies that the invariant error at `scheduler.py:438` is never
raised.

`AttemptsImplemented` shows that the detailed coordination implements
`ScanAttempts`: each action is a step of it or a stutter. The steps of leases
rest on the half about leases: a start finds no scanner, a report finds an ended
one, whether an agent sends it or it is processed late. Creation needs more than
`ActivePast`, which is about active executions: an abstract attempt is of a
later occurrence than all before it. `HistoryIsPast` says so of ended ones too,
and `HistoryAdvances` proves it: `next_run_at` only moves forward, or starts
again from the clock (`SchedulesHold`: executions are of instants that have
come). The unique index alone would allow an old occurrence to be run again.

*Ingestion* (`RefreshIngestionProofs`). A transaction decides to promote before
it commits. `IngestionInv` says that what is in flight or stored is of a report
(`Provenance`), and that what a transaction has counted stays counted
(`Decided`), since a report does not change; `WatermarksComplete` follows, with
losses and requeued messages. `PromotedOnce` says that a watermark is written
once and keeps its id, though two workers may find a refresh complete at the same
time: one of them holds the row lock of the completion (`Exclusive`). `OrderInv`
says that messages of one queue arrive
in the order of their refreshes as long as nothing is requeued; `NewestWins`
follows. `VulnerabilityReportsSound` (`WazuhVulnOrchestratorProofs`) shows that
the reports of the vulnerability orchestrator satisfy `ReportsAssumption`, for
any inventory, filter and scroll.

*Reconciliation* (`DeferredReconcilerProofs`), on top of the real ingestion.
`ReconcilerInv` adds to the ingestion's invariants what a row proves about the
past (`Evidence`), what a context remembers of the row it was read from
(`Contexts`), and what each verdict rests on (`Verdicts`). Completed refreshes
and written watermarks never change, so none of it becomes false later.
No theorem assumes anything about overlaps or requeued messages.
`PresenceIsEvident`: a job fails only on a report of its finding by a refresh
that completed after Stage 1, or that looked after such a one; the look itself
may be older than the remediation, since the code compares completions only
(section 6). `AbsenceIsEvident`: a job passes only on an unfiltered refresh
completed after Stage 1; if that was a watermark when the finding was read, and
yet had listed the finding, then an overlapping or requeued refresh had
overwritten the row's refresh (`Overwritten`). The argument goes through
`Replaced`: a row with a receipt names that refresh or one that took its place.
`EvidenceIsKept` (`Grows`) is its second half on its own.
`EvidenceConsideredOnce` says that `last_watermark_id` only moves forward and
that a completed job is not written again; `ContextsCurrent` is what it takes:
a reconciler that still owns its job has read the `last_watermark_id` it writes
over, since it leases nothing while it has a context, and a job leased by
another is no longer its own.

*Assets* (`AssetResolutionProofs`). `Rows` is about what administrators write:
authority, one active target, and that revoking an asset comes after revoking
its targets. `Identities` is about workers: whoever has stored an identity and
not committed is alone with it, and whatever has been resolved is still
identified so. `IdentityIsStable` follows, and `WorkStartsReady`: on the asset of
the claim, legacy or not, work starts only where the queue would offer it at
that instant, although the controller checks less than the queue view; on an
asset bound after the claim, on nothing that was revoked or retired. That it may
start there without any authorisation is finding 7.
`AuditTellsAuthority` says that the last event about an asset, and the last about
a target, tell whether it is authorised, and that the last confirmation names
the target. It is inductive together with `Rows`: a handler appends one event
about one matter, so that event is the last about it (`LastAfterAppend`) and the
last about any other matter is what it was.

*Verification on the spot* (`ScannerVerificationProofs`), for any results that
meet `ItemsAssumption`: a Trivy entry is of one of its four scanners, an OpenVAS
result has a list of CVEs, and the checks of a subject are of one Wazuh agent.
All is decided in `RunScanner` and `Probe`, from the row as it was requested,
the subject as it is and the fault. So the argument is by engine: for each, one
lemma says which faults never yield the verdict that passes (a time limit with
none of them, no fault at all with Nmap and Trivy), and one that a result still
reported under the finding's key, with the class the row asks for, is in what
the verification looks at. `VerificationInv` carries this from the run to the
conclusion: the finding and its request are of results of the subject
(`Subject`, `Stored`), and a verdict that passes rests on a sound run (`Sound`)
on which the result was gone (`Gone`). `VerificationFailsClosed`,
`KnownItemsRecognised` and `PassesMatchIngestion` follow.

Only model-checked: liveness under fairness, which is beyond the prover
(`StartedWorkIsSettled`, `ClaimLeavesTheController`, `DecidableJobCompletes`,
`SchedulingMovesOn`). Every other property of a passing run has its theorem. The
theorems about ingestion are about `IngestionSpec` and, in the reconciler, about
`Spec`, those about verification about `VerificationSpec`; `ri_ingestion` checks
the same actions as the two parts of `EvidenceSpec`.

## 5. Findings

1. `rx_two_unfinished`: a delayed duplicate request starts a second remediation
   of a finding whose first awaits manual verification, since the unique index
   does not cover that status.
2. `rx_playbook_overlap`: the client of the runner gives up after 600 s and the
   finding is retried while its playbook may run for 1800 s.
3. `ri_lost_promotion`: the last finding and the completion of a refresh may
   each miss the other, and the refresh is never promoted.
4. `dr_false_absence`: a refresh that reports the finding, promoted between two
   reads of the reconciler, counts as absence and resolves the finding.
5. `sc_no_sweep`: nothing calls `expire_overdue_leases`, so a policy whose agent
   is lost is never scanned again.
6. `sv_fail_open`: Lynis, OpenVAS and Nuclei say that no failure is taken for
   absence, but pass on runs that looked at nothing: an audit that is killed or
   leaves an old report in place (Lynis), an unreachable host (OpenVAS, Nuclei),
   a garbled line (Nuclei), a task already running (OpenVAS).
7. `ar_legacy_start`: the controller reads no authorisation; a finding bound,
   after its claim, to an asset from before migration 016 is worked on there
   although nobody has authorised its target.

## 6. Known limits of the code, and what is not modelled

Some behaviour is not a disagreement between code and documents that a run shows,
but a reader should know it:

- `ensure_claimed` does not look at the cooldown (`db.py:219`): a request
  delivered late claims a finding that has failed in the meantime. The model
  takes this step; only the dispatcher selects by the cooldown.
- Evidence is fresh by the completion of its refresh alone. A refresh that looked
  before the remediation and completed after Stage 1 counts, for presence and for
  absence.
- Refreshes of a subject may overlap, and rq may requeue a message: an older
  refresh then overwrites the row's `refresh_id`, and what a newer one reported
  counts as absent.
- Watermarks become visible out of the order of their ids; one that comes behind
  `last_watermark_id` is never considered, and a job waits for the next refresh.
- A scanner that hangs keeps its lease as long as its agent renews it
  (`execution_agent.py:835`, `849`). A controller thread that dies leaves its
  execution and the claim as they are.
- A Wazuh SCA check that is not evaluated again counts as the result of the last
  evaluation.
- `wazuh_vuln_orchestrator.py:1905` expects one finding per class and key, and
  `enricher_worker.py:265` counts receipts per key: a refresh with one CVE in the
  kernel and in another package is never promoted. Such reports are among those
  `ri_ingestion` ingests; the effect is that of finding 3.
- An active target without an authority, from before migration 016, can be
  neither revoked nor replaced (`readiness_management/service.py:679`, `774`),
  and its asset not revoked either (`service.py:396`).
- An approval runs the playbook on the target of the request; nothing reads the
  target again (`base.py:503`). `StartsOnlyWhenReady` is about the moment the
  execution is created.

Not modelled, and why:

- Authentication, payload validation, formats and logging change no state that
  the properties tell apart; a rejected request is one action. The parsing of
  scanner output is represented by the markers it looks for, the parsing of cron
  expressions (croniter, external) by the wall times that match.
- Execution nodes: their credentials, and nodes disabled with executions
  pending. Every execution can be leased by some agent.
- The choice of a rule for a finding is a constant (`ApprovalRequired`, ...), the
  contextual score does not occur; neither changes state.
- A reconciler's batch is a parameter, and the proofs are for any, but the runs
  have one job and batches of one.
- Readiness is composed with asset resolution and with the two gates, not with
  the whole of `RemediationExecution`, which takes a claimed finding as ready.
- Enrichment by a language model, playbooks, the installer and its journal, and
  the front end are input and output.

## 7. Plan

The order in which the project was built is that of the table in section 2:
remediation, ingestion and reconciliation, coordination, readiness and assets,
orchestrators and verification, schedules, and proofs along with each. What is
left, in order:

1. `ExecutionNodes`: provisioning, rotation and disabling of nodes
   (`scan_coordination/node_auth.py`), with executions pending for them.
2. Rule ranking and the contextual score as operators, against reference
   definitions.
3. Several jobs per batch, against a smaller ingestion that the real one is
   shown to implement.
