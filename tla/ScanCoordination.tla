--------------------------- MODULE ScanCoordination ---------------------------
(***************************************************************************)
(* How scan policies become scans: scan_coordination/scheduler_runner.py   *)
(* and scheduler.py materialise the occurrences of cron policies as        *)
(* executions, the service (service.py behind api.py) leases executions to *)
(* agents and accepts their reports, and an agent (execution_agent.py)     *)
(* runs the scanner while it renews its lease.  Administrators             *)
(* (scan_policy_administration/service.py) change policies meanwhile.      *)
(*                                                                         *)
(* An execution is named by its policy and the instant it is scheduled for *)
(* (uq_scan_execution_policy_occurrence, migration 021).  Only its lessee  *)
(* knows its lease token, so the token is not a variable.  The agents are  *)
(* those of one execution node, which any policy's executions go to.       *)
(***************************************************************************)
EXTENDS CronSchedule, FiniteSets

CONSTANTS
  Policy,        \* rows of scan_policies
  Unresolvable,  \* policies without a scanner subject, an active asset or a node
  Schedule,      \* schedules of a policy: a cron expression and a time zone
  Invalid,       \* those stored once that next_cron_occurrence refuses now: a
                 \* zone the host does not know, an expression from elsewhere
  Scheduler,     \* processes of scheduler_runner
  BatchSize,     \* SCAN_SCHEDULER_BATCH_SIZE
  Agent,         \* processes of execution_agent
  NoPolicy,      \* a scheduler without a policy
  NoExecution,   \* an agent without an execution
  Sweeps,        \* something calls expire_overdue_leases
  MaxTroubles,   \* bound on failures of agents, schedulers and leases
  MaxChanges     \* bound on changes of policies by administrators

ASSUME PolicyAssumption ==
  /\ NoPolicy \notin Policy
  /\ NoExecution \notin Policy \X Instant
  /\ Unresolvable \subseteq Policy

ASSUME ScheduleAssumption == Schedule \subseteq Cron /\ Invalid \subseteq Schedule

ASSUME CycleAssumption ==
  /\ BatchSize \in Nat \ {0}
  /\ MaxTroubles \in Nat
  /\ MaxChanges \in Nat
  /\ Sweeps \in BOOLEAN

VARIABLES
  now,        \* the database's clock
  \* scan_policies
  enabled, schedule,
  nextRun,    \* next_run_at, 0 for NULL
  since,      \* the reference time nextRun was initialised with
  \* scan_executions
  status,
  overdue,    \* lease_expires_at has passed
  \* schedulers: the cycle of run_once
  phase,      \* which query comes next
  attempts,
  excluded,   \* the policies that failed: one set to initialise, one for due ones
  seen,       \* the policies the due query has found
  locks,      \* the policy whose row is locked
  \* agents and their scanners
  pc, holds,  \* where an agent is, and the execution it holds
  scanner,    \* the scanner process of an execution
  late,       \* requests whose client has given up
  troubles, changes

policyVars    == <<enabled, schedule, nextRun, since>>
executionVars == <<status, overdue>>
cycleVars     == <<phase, attempts, excluded, seen, locks>>
agentVars     == <<pc, holds, scanner, late>>
bounds        == <<troubles, changes>>
vars == <<now, enabled, schedule, nextRun, since, status, overdue, phase,
          attempts, excluded, seen, locks, pc, holds, scanner, late, troubles,
          changes>>

Execution == Policy \X Instant

Active == {"PENDING", "LEASED", "RUNNING"}

Terminal == {"SUCCEEDED", "FAILED", "EXPIRED"}

TypeOK ==
  /\ now \in 0..Horizon
  /\ enabled \in [Policy -> BOOLEAN]
  /\ schedule \in [Policy -> Schedule]
  /\ nextRun \in [Policy -> 0..Horizon + 1]
  /\ since \in [Policy -> 0..now]
  /\ status \in [Execution -> Active \cup Terminal \cup {"none"}]
  /\ overdue \in [Execution -> BOOLEAN]
  /\ phase \in [Scheduler -> {"initialise", "due", "lock", "materialise"}]
  /\ attempts \in [Scheduler -> 0..BatchSize]
  /\ excluded \in [Scheduler -> SUBSET Policy]
  /\ seen \in [Scheduler -> SUBSET Policy]
  /\ locks \in [Scheduler -> Policy \cup {NoPolicy}]
  /\ pc \in [Agent -> {"idle", "starting", "scanning"}]
  /\ holds \in [Agent -> Execution \cup {NoExecution}]
  /\ scanner \in [Execution -> {"none", "running", "ok", "failed", "killed"}]
  /\ late \subseteq {"start", "complete"} \X Execution
  /\ troubles \in 0..MaxTroubles
  /\ changes \in 0..MaxChanges
  /\ \A s, t \in Scheduler : locks[s] = locks[t] /\ locks[s] # NoPolicy => s = t
  /\ \A s \in Scheduler :
       /\ locks[s] # NoPolicy <=> phase[s] = "materialise"
       /\ phase[s] \in {"lock", "materialise"} => attempts[s] < BatchSize
  /\ \A a \in Agent : holds[a] # NoExecution <=> pc[a] # "idle"

(* create_scan_policy: a new policy has no next_run_at.                    *)
Init ==
  /\ now = 0
  /\ enabled \in [Policy -> BOOLEAN]
  /\ schedule \in [Policy -> Schedule]
  /\ nextRun = [p \in Policy |-> 0]
  /\ since = [p \in Policy |-> 0]
  /\ status = [e \in Execution |-> "none"]
  /\ overdue = [e \in Execution |-> FALSE]
  /\ phase = [s \in Scheduler |-> "initialise"]
  /\ attempts = [s \in Scheduler |-> 0]
  /\ excluded = [s \in Scheduler |-> {}]
  /\ seen = [s \in Scheduler |-> {}]
  /\ locks = [s \in Scheduler |-> NoPolicy]
  /\ pc = [a \in Agent |-> "idle"]
  /\ holds = [a \in Agent |-> NoExecution]
  /\ scanner = [e \in Execution |-> "none"]
  /\ late = {}
  /\ troubles = 0
  /\ changes = 0

Tick ==
  /\ now < Horizon
  /\ now' = now + 1
  /\ UNCHANGED <<policyVars, executionVars, cycleVars, agentVars, bounds>>

(* Something fails, or an administrator acts, as often as the bounds allow.*)
Trouble == troubles < MaxTroubles /\ troubles' = troubles + 1

Change == changes < MaxChanges /\ changes' = changes + 1

-----------------------------------------------------------------------------
(* The scheduler *)

(* Mutant: occurrences that are overdue already are skipped.               *)
MutantFollowing(p, t) == NextCronOccurrence(schedule[p], IF t < now THEN now ELSE t)

(* next_cron_occurrence for the row of a policy.                           *)
Following(p, t) == NextCronOccurrence(schedule[p], t)

ActiveOn(p) == {o \in Instant : status[<<p, o>>] \in Active}

Unlocked(p) == \A s \in Scheduler : locks[s] # p

(* A MANUAL policy has no slots.                                           *)
Uninitialised(p) == enabled[p] /\ schedule[p].slots # {} /\ nextRun[p] = 0

(* What _load_next_uninitialised_policy may lock.                          *)
ToInitialise(s) == {p \in Policy : Uninitialised(p) /\ p \notin excluded[s] /\ Unlocked(p)}

Due(p) == enabled[p] /\ nextRun[p] \in 1..now

(* The cycle ends, or is given up; another one begins.                     *)
BeginCycle(s) ==
  /\ phase' = [phase EXCEPT ![s] = "initialise"]
  /\ attempts' = [attempts EXCEPT ![s] = 0]
  /\ excluded' = [excluded EXCEPT ![s] = {}]
  /\ seen' = [seen EXCEPT ![s] = {}]
  /\ locks' = [locks EXCEPT ![s] = NoPolicy]

(* initialise_next_scan_policy, while attempts are left.                   *)
Initialise(s) ==
  /\ phase[s] = "initialise"
  /\ attempts[s] < BatchSize
  /\ \E p \in ToInitialise(s) :
       /\ schedule[p] \notin Invalid
       /\ nextRun' = [nextRun EXCEPT ![p] = Following(p, now)]
       /\ since' = [since EXCEPT ![p] = now]
  /\ attempts' = [attempts EXCEPT ![s] = @ + 1]
  /\ UNCHANGED <<now, enabled, schedule, executionVars, phase, excluded, seen, locks,
                 agentVars, bounds>>

(* INITIALISATION_FAILED: the schedule cannot be computed.  The failure    *)
(* counts towards the batch, and the policy is left alone for the cycle.   *)
FailInitialise(s) ==
  /\ phase[s] = "initialise"
  /\ attempts[s] < BatchSize
  /\ \E p \in ToInitialise(s) :
       /\ schedule[p] \in Invalid
       /\ excluded' = [excluded EXCEPT ![s] = @ \cup {p}]
  /\ attempts' = [attempts EXCEPT ![s] = @ + 1]
  /\ UNCHANGED <<now, policyVars, executionVars, phase, seen, locks, agentVars, bounds>>

(* Nothing is left to initialise: the cycle goes on with the due policies, *)
(* and with another set of exclusions.                                     *)
EndInitialise(s) ==
  /\ phase[s] = "initialise"
  /\ attempts[s] < BatchSize
  /\ ToInitialise(s) = {}
  /\ phase' = [phase EXCEPT ![s] = "due"]
  /\ excluded' = [excluded EXCEPT ![s] = {}]
  /\ UNCHANGED <<now, policyVars, executionVars, attempts, seen, locks, agentVars, bounds>>

(* Mutant: a policy that failed in this cycle is tried again.              *)
MutantEligible(s, p) == Due(p) /\ ActiveOn(p) = {}

(* The conditions of _load_next_due_policy.                                *)
Eligible(s, p) == Due(p) /\ p \notin excluded[s] /\ ActiveOn(p) = {}

(* _load_next_due_policy finds the rows its snapshot shows, in the order   *)
(* of next_run_at, which does not matter here.                             *)
FindDue(s) ==
  /\ phase[s] = "due"
  /\ attempts[s] < BatchSize
  /\ phase' = [phase EXCEPT ![s] = "lock"]
  /\ seen' = [seen EXCEPT ![s] = {p \in Policy : Eligible(s, p)}]
  /\ UNCHANGED <<now, policyVars, executionVars, attempts, excluded, locks,
                 agentVars, bounds>>

(* It locks one of them nobody else has locked.  If the row has changed in *)
(* between, PostgreSQL evaluates the conditions on the row again, but not  *)
(* the subquery on scan_executions.                                        *)
LockDue(s) ==
  /\ phase[s] = "lock"
  /\ \E p \in seen[s] :
       /\ Due(p) /\ Unlocked(p)
       /\ locks' = [locks EXCEPT ![s] = p]
  /\ phase' = [phase EXCEPT ![s] = "materialise"]
  /\ seen' = [seen EXCEPT ![s] = {}]
  /\ UNCHANGED <<now, policyVars, executionVars, attempts, excluded, agentVars, bounds>>

(* The batch is used up or no policy is left to lock: sleep, and begin     *)
(* again.                                                                  *)
EndCycle(s) ==
  /\ \/ phase[s] \in {"initialise", "due"} /\ attempts[s] = BatchSize
     \/ phase[s] = "lock" /\ ~\E p \in seen[s] : Due(p) /\ Unlocked(p)
  /\ BeginCycle(s)
  /\ UNCHANGED <<now, policyVars, executionVars, agentVars, bounds>>

(* Mutant: the lock outlives the transaction.                              *)
MutantNextAttempt(s, failed) ==
  /\ phase' = [phase EXCEPT ![s] = "due"]
  /\ attempts' = [attempts EXCEPT ![s] = @ + 1]
  /\ excluded' = [excluded EXCEPT ![s] = @ \cup failed]
  /\ UNCHANGED <<seen, locks>>

(* The transaction ends, with the policy done or left alone for the rest   *)
(* of the cycle.                                                           *)
NextAttempt(s, failed) ==
  /\ phase' = [phase EXCEPT ![s] = "due"]
  /\ attempts' = [attempts EXCEPT ![s] = @ + 1]
  /\ excluded' = [excluded EXCEPT ![s] = @ \cup failed]
  /\ locks' = [locks EXCEPT ![s] = NoPolicy]
  /\ UNCHANGED seen

(* Mutant: next_run_at stays.                                              *)
MutantAdvance(p) == UNCHANGED nextRun

Advance(p) == nextRun' = [nextRun EXCEPT ![p] = Following(p, nextRun[p])]

(* Mutant: uq_scan_policy_active_execution is missing.                     *)
MutantIndexAdmits(p) == TRUE

(* uq_scan_policy_active_execution: a second active execution of a policy  *)
(* is an IntegrityError, which create_scan_execution reports as a conflict.*)
IndexAdmits(p) == ActiveOn(p) = {}

(* The rest of schedule_next_due_policy: an occurrence that has an         *)
(* execution only advances the policy, one that is active aborts the       *)
(* cycle; without a subject, an active asset, a node or a free index entry *)
(* the policy is left alone; else the execution is created.  (The schedule *)
(* of a policy that has been initialised can be computed.)                 *)
Materialise(s) ==
  /\ phase[s] = "materialise"
  /\ LET p == locks[s]
         e == <<p, nextRun[p]>>
     IN  IF status[e] \in Active
           THEN /\ BeginCycle(s)
                /\ UNCHANGED <<nextRun, status>>
         ELSE IF status[e] # "none"
           THEN /\ Advance(p)
                /\ NextAttempt(s, {})
                /\ UNCHANGED status
         ELSE IF p \in Unresolvable \/ ~IndexAdmits(p)
           THEN /\ NextAttempt(s, {p})
                /\ UNCHANGED <<nextRun, status>>
         ELSE /\ status' = [status EXCEPT ![e] = "PENDING"]
              /\ Advance(p)
              /\ NextAttempt(s, {})
  /\ UNCHANGED <<now, enabled, schedule, since, overdue, agentVars, bounds>>

(* The database fails or the process dies: rollback, and a new cycle.      *)
SchedulerFails(s) ==
  /\ Trouble
  /\ BeginCycle(s)
  /\ UNCHANGED <<now, policyVars, executionVars, agentVars, changes>>

-----------------------------------------------------------------------------
(* Administration of policies, which waits for the row's lock *)

DisablePolicy(p) ==
  /\ enabled[p] /\ Unlocked(p)
  /\ Change
  /\ enabled' = [enabled EXCEPT ![p] = FALSE]
  /\ nextRun' = [nextRun EXCEPT ![p] = 0]
  /\ UNCHANGED <<now, schedule, since, executionVars, cycleVars, agentVars, troubles>>

EnablePolicy(p) ==
  /\ ~enabled[p] /\ Unlocked(p)
  /\ Change
  /\ enabled' = [enabled EXCEPT ![p] = TRUE]
  /\ nextRun' = [nextRun EXCEPT ![p] = 0]
  /\ UNCHANGED <<now, schedule, since, executionVars, cycleVars, agentVars, troubles>>

Reschedule(p, c) ==
  /\ schedule' = [schedule EXCEPT ![p] = c]
  /\ nextRun' = [nextRun EXCEPT ![p] = 0]

(* update_scan_policy_configuration: another schedule, which has been      *)
(* validated, clears next_run_at.                                          *)
UpdateSchedule(p) ==
  /\ Unlocked(p)
  /\ Change
  /\ \E c \in Schedule \ (Invalid \cup {schedule[p]}) : Reschedule(p, c)
  /\ UNCHANGED <<now, enabled, since, executionVars, cycleVars, agentVars, troubles>>

-----------------------------------------------------------------------------
(* The service: transitions of a leased execution *)

(* _lock_execution_for_lease_transition.                                   *)
HoldsLease(e, required) == status[e] = required /\ ~overdue[e]

(* Mutant: an execution whose lease has run out is leased again.           *)
MutantNextPending(e) ==
  /\ status[e] = "PENDING" \/ (status[e] \in {"LEASED", "RUNNING"} /\ overdue[e])
  /\ \A d \in Execution : status[d] = "PENDING" => e[2] <= d[2]

(* lease_next_execution takes the PENDING execution due first.             *)
NextPending(e) ==
  /\ status[e] = "PENDING"
  /\ \A d \in Execution : status[d] = "PENDING" => e[2] <= d[2]

(* mark_execution_started. *)
MarkStarted(e) ==
  status' = IF HoldsLease(e, "LEASED") THEN [status EXCEPT ![e] = "RUNNING"] ELSE status

(* mark_execution_succeeded and mark_execution_failed: what the scanner's  *)
(* exit code says.                                                         *)
MarkCompleted(e) ==
  status' = IF HoldsLease(e, "RUNNING")
            THEN [status EXCEPT ![e] = IF scanner[e] = "ok" THEN "SUCCEEDED" ELSE "FAILED"]
            ELSE status

(* A request of a client that no longer waits is processed.                *)
ProcessLate ==
  /\ \E r \in late :
       /\ IF r[1] = "start" THEN MarkStarted(r[2]) ELSE MarkCompleted(r[2])
       /\ late' = late \ {r}
  /\ UNCHANGED <<now, policyVars, overdue, cycleVars, pc, holds, scanner, bounds>>

InHand(e) == \E a \in Agent : holds[a] = e

(* An agent starts at once and renews every third of the lease: its lease  *)
(* expires only if something is slow.  Nobody renews an abandoned one.     *)
LeaseExpires(e) ==
  /\ status[e] \in {"LEASED", "RUNNING"}
  /\ ~overdue[e]
  /\ overdue' = [overdue EXCEPT ![e] = TRUE]
  /\ IF InHand(e) THEN Trouble ELSE UNCHANGED troubles
  /\ UNCHANGED <<now, policyVars, status, cycleVars, agentVars, changes>>

(* Mutant: executions whose lease has expired may be leased again.         *)
MutantSwept(e) == "PENDING"

(* Where an expired lease leaves an execution.                             *)
Swept(e) == IF status[e] = "LEASED" THEN "EXPIRED" ELSE "FAILED"

(* Mutant: the sweep forgets to look at the status.                        *)
MutantOverdue(e) == overdue[e]

Overdue(e) == status[e] \in {"LEASED", "RUNNING"} /\ overdue[e]

ExpireOverdueLeases ==
  /\ Sweeps
  /\ \E e \in Execution : Overdue(e)
  /\ status' = [e \in Execution |-> IF Overdue(e) THEN Swept(e) ELSE status[e]]
  /\ UNCHANGED <<now, policyVars, overdue, cycleVars, agentVars, bounds>>

-----------------------------------------------------------------------------
(* The agent *)

(* run_once: the execution is leased, and the agent learns about it or     *)
(* fails (the connection breaks, a timeout).                               *)
LeaseJob(a) ==
  /\ pc[a] = "idle"
  /\ \E e \in Execution :
       /\ NextPending(e)
       /\ status' = [status EXCEPT ![e] = "LEASED"]
       /\ \/ /\ pc' = [pc EXCEPT ![a] = "starting"]
             /\ holds' = [holds EXCEPT ![a] = e]
             /\ UNCHANGED troubles
          \/ /\ Trouble
             /\ UNCHANGED <<pc, holds>>
  /\ UNCHANGED <<now, policyVars, overdue, cycleVars, scanner, late, changes>>

(* An API error ends the agent.  An agent that is started again is one.    *)
Leaves(a) ==
  /\ pc' = [pc EXCEPT ![a] = "idle"]
  /\ holds' = [holds EXCEPT ![a] = NoExecution]

(* mark_started, then the scanner's command: it runs, or cannot be built   *)
(* (another scanner type, a bad parameter).                                *)
StartJob(a) ==
  /\ pc[a] = "starting"
  /\ MarkStarted(holds[a])
  /\ \/ /\ HoldsLease(holds[a], "LEASED")
        /\ \E outcome \in {"running", "failed"} :
             scanner' = [scanner EXCEPT ![holds[a]] = outcome]
        /\ pc' = [pc EXCEPT ![a] = "scanning"]
        /\ UNCHANGED holds
     \/ /\ ~HoldsLease(holds[a], "LEASED")
        /\ Leaves(a)
        /\ UNCHANGED scanner
  /\ UNCHANGED <<now, policyVars, overdue, cycleVars, late, bounds>>

(* The scanner process ends, whether its agent still lives or not.         *)
ScannerEnds(e) ==
  /\ scanner[e] = "running"
  /\ \E code \in {"ok", "failed"} : scanner' = [scanner EXCEPT ![e] = code]
  /\ UNCHANGED <<now, policyVars, executionVars, cycleVars, pc, holds, late, bounds>>

(* A renewal within the lease is no change here.  One that is refused      *)
(* terminates the scanner and ends the agent.                              *)
RenewalRefused(a) ==
  /\ pc[a] = "scanning"
  /\ scanner[holds[a]] = "running"
  /\ ~HoldsLease(holds[a], "RUNNING")
  /\ scanner' = [scanner EXCEPT ![holds[a]] = "killed"]
  /\ Leaves(a)
  /\ UNCHANGED <<now, policyVars, executionVars, cycleVars, late, bounds>>

(* Mutant: the agent reports before its scanner has ended.                 *)
MutantHasEnded(e) == TRUE

(* process.poll() has an exit code, or there was no process to run.        *)
HasEnded(e) == scanner[e] # "running"

(* The report is accepted, or refused because the lease has expired.       *)
ReportJob(a) ==
  /\ pc[a] = "scanning"
  /\ HasEnded(holds[a])
  /\ MarkCompleted(holds[a])
  /\ Leaves(a)
  /\ UNCHANGED <<now, policyVars, overdue, cycleVars, scanner, late, bounds>>

(* The agent is killed, or gives up on a renewal and terminates its        *)
(* scanner.                                                                *)
AgentStops(a) ==
  /\ pc[a] # "idle"
  /\ Trouble
  /\ scanner[holds[a]] = "running"
  /\ \E left \in {"running", "killed"} : scanner' = [scanner EXCEPT ![holds[a]] = left]
  /\ Leaves(a)
  /\ UNCHANGED <<now, policyVars, executionVars, cycleVars, late, changes>>

(* The agent is killed or gives up on its start or completion request,     *)
(* which is lost or processed later.                                       *)
AgentGivesUp(a) ==
  /\ pc[a] # "idle"
  /\ Trouble
  /\ scanner[holds[a]] # "running"
  /\ \/ UNCHANGED late
     \/ pc[a] = "starting" /\ late' = late \cup {<<"start", holds[a]>>}
     \/ pc[a] = "scanning" /\ late' = late \cup {<<"complete", holds[a]>>}
  /\ Leaves(a)
  /\ UNCHANGED <<now, policyVars, executionVars, cycleVars, scanner, changes>>

-----------------------------------------------------------------------------

SchedulerStep(s) ==
  \/ Initialise(s) \/ FailInitialise(s) \/ EndInitialise(s)
  \/ FindDue(s) \/ LockDue(s) \/ EndCycle(s) \/ Materialise(s)

AgentStep(a) == LeaseJob(a) \/ StartJob(a) \/ RenewalRefused(a) \/ ReportJob(a)

Next ==
  \/ Tick \/ ProcessLate \/ ExpireOverdueLeases
  \/ \E s \in Scheduler : SchedulerStep(s) \/ SchedulerFails(s)
  \/ \E p \in Policy : DisablePolicy(p) \/ EnablePolicy(p) \/ UpdateSchedule(p)
  \/ \E a \in Agent : AgentStep(a) \/ AgentStops(a) \/ AgentGivesUp(a)
  \/ \E e \in Execution : LeaseExpires(e) \/ ScannerEnds(e)

Spec == Init /\ [][Next]_vars

(* A scheduler loops for ever and survives what a cycle raises, and        *)
(* systemd restarts it (scan-policy-scheduler.service).  Nothing in the    *)
(* repository starts an agent again, ends a scanner that hangs, sweeps     *)
(* expired leases, makes an administrator act or a late request arrive.    *)
FairSpec == Spec /\ \A s \in Scheduler : WF_vars(SchedulerStep(s))

(* More than the repository promises: agents are started again and poll,   *)
(* every scanner ends, an abandoned lease runs out.                        *)
AttendedSpec ==
  /\ FairSpec
  /\ \A a \in Agent : WF_vars(AgentStep(a))
  /\ \A e \in Execution : WF_vars(LeaseExpires(e)) /\ WF_vars(ScannerEnds(e))

-----------------------------------------------------------------------------
(* Safety *)

(* A policy has at most one active execution, although the query that      *)
(* looks for due policies may see stale executions: "Prevent concurrent    *)
(* overlapping executions of the same policy" (migration 017:641).         *)
OneActivePerPolicy == \A p \in Policy : \A o, i \in ActiveOn(p) : o = i

(* The execution in progress is of an earlier occurrence than next_run_at: *)
(* the error of scheduler.py:438 is never raised, whatever administrators  *)
(* and other schedulers do.                                                *)
ActiveIsPast ==
  \A p \in Policy : nextRun[p] # 0 => \A o \in ActiveOn(p) : o < nextRun[p]

(* Every occurrence since next_run_at was initialised has been given an    *)
(* execution before next_run_at moves past it: catching up is deferred,    *)
(* nothing is skipped (scheduler.py:217).                                  *)
NoOccurrenceSkipped ==
  \A p \in Policy : nextRun[p] # 0 =>
    \A o \in Occurrences(schedule[p]) :
      since[p] < o /\ o < nextRun[p] => status[<<p, o>>] # "none"

(* Scans are due at occurrences and nowhere else, however a policy got to  *)
(* its next_run_at: a wall time the clocks skip is skipped, and one they   *)
(* show twice is run once (scheduling.py:153-154).                         *)
OnlyOccurrencesDue ==
  \A p \in Policy : nextRun[p] \in Instant => nextRun[p] \in Occurrences(schedule[p])

(* What an execution's status says is what its scanner did, as lost and    *)
(* late requests, dead agents and expired leases come between: success is  *)
(* of a scanner that ended well; an EXPIRED one never ran ("A LEASED       *)
(* execution never started", service.py:1046); no scanner runs for an      *)
(* execution still to start.                                               *)
StatusMatchesScanner ==
  \A e \in Execution :
    /\ status[e] = "SUCCEEDED" => scanner[e] = "ok"
    /\ status[e] \in {"none", "PENDING", "LEASED", "EXPIRED"} => scanner[e] = "none"

(* Two scanners of a policy run together only if one has outlived its      *)
(* lease.                                                                  *)
ScannersOverlapOnlyOverdue ==
  \A d, e \in Execution :
    /\ scanner[d] = "running" /\ scanner[e] = "running"
    /\ d[1] = e[1] /\ d # e
    => overdue[d] \/ overdue[e]

(* A terminal execution is never recycled: "A retry is represented by a    *)
(* new scan_executions row" (migration 018:17).                            *)
TerminalIsFinal ==
  [][\A e \in Execution : status[e] \in Terminal => status'[e] = status[e]]_vars

-----------------------------------------------------------------------------
(* The abstract specification *)

Attempts == INSTANCE ScanAttempts WITH Occurrence <- Instant, attempt <- status, scan <- scanner

(* Every step of schedulers, administrators, service and agents is a step  *)
(* of the attempts that migration 018:11-20 documents, or leaves them as   *)
(* they are: no state is skipped or returned to, nothing is leased twice,  *)
(* reports are of scanners that have ended, and occurrences are attempted  *)
(* in their order, one at a time.                                          *)
ImplementsAttempts == Attempts!Spec

-----------------------------------------------------------------------------
(* The inductive invariant *)

(* An execution is leased once, so an agent is alone with the one it holds,*)
(* and its place says how far the execution is.                            *)
AgentsHold ==
  /\ \A a, b \in Agent : holds[a] = holds[b] /\ pc[a] # "idle" => a = b
  /\ \A a \in Agent :
       /\ pc[a] = "starting" =>
            status[holds[a]] \in {"LEASED", "EXPIRED"} /\ scanner[holds[a]] = "none"
       /\ pc[a] = "scanning" => scanner[holds[a]] # "none"

(* A late request is about an execution that no agent holds any more.      *)
LateIsAbandoned ==
  \A r \in late :
    /\ status[r[2]] \notin {"none", "PENDING"}
    /\ \A a \in Agent : holds[a] # r[2]
    /\ r[1] = "complete" => scanner[r[2]] \notin {"none", "running"}

ScannersBelong ==
  \A e \in Execution :
    /\ scanner[e] # "none" => status[e] \in {"RUNNING", "SUCCEEDED", "FAILED"}
    /\ status[e] = "SUCCEEDED" => scanner[e] = "ok"
    /\ scanner[e] = "running" /\ ~overdue[e] => status[e] = "RUNNING"

(* Executions exist for instants that have come, and the policy a          *)
(* scheduler has locked stays due.                                         *)
SchedulesHold ==
  /\ \A e \in Execution : status[e] # "none" => e[2] <= now
  /\ \A s \in Scheduler : phase[s] = "materialise" => Due(locks[s])

(* Every execution of a policy is of an earlier occurrence than its        *)
(* next_run_at.                                                            *)
HistoryIsPast ==
  \A p \in Policy : nextRun[p] # 0 =>
    \A o \in Instant : status[<<p, o>>] # "none" => o < nextRun[p]

CoordinationInvariant ==
  /\ AgentsHold /\ LateIsAbandoned /\ ScannersBelong /\ SchedulesHold
  /\ OneActivePerPolicy /\ ActiveIsPast /\ NoOccurrenceSkipped /\ OnlyOccurrencesDue

-----------------------------------------------------------------------------
(* Liveness *)

(* The scheduler has something to do for the policy.                       *)
Serviceable(p) ==
  \/ Uninitialised(p) /\ schedule[p] \notin Invalid
  \/ Due(p) /\ ActiveOn(p) = {}

(* "One bad policy cannot starve unrelated work" (scheduler_runner.py:95): *)
(* a policy whose schedule can be computed is initialised, and one that is *)
(* due and has no execution in progress gets one or moves past what it has *)
(* had, unless it is administered, although other policies, fewer than the *)
(* batch, fail in every cycle, other schedulers lock rows under stale      *)
(* snapshots, and cycles break off.  Agents need not do anything.          *)
SchedulingMovesOn == \A p \in Policy \ Unresolvable : Serviceable(p) ~> ~Serviceable(p)

(* Every due occurrence is materialised in the end, one whose policy has   *)
(* an execution in progress after that has ended ("once that execution     *)
(* becomes terminal, the still-due occurrence can be materialised",        *)
(* scheduler.py:222).                                                      *)
DueIsMaterialised ==
  \A p \in Policy \ Unresolvable : \A o \in Instant :
    nextRun[p] = o /\ o <= now ~> nextRun[p] # o

=============================================================================
