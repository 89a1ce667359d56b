------------------------ MODULE ScanCoordinationProofs ------------------------
(***************************************************************************)
(* Proofs about ScanCoordination, for any policies, schedules, schedulers  *)
(* and agents and any bounds; first about CronSchedule, for any slots and  *)
(* any zone whose clocks go back only over what they have shown.           *)
(***************************************************************************)
EXTENDS ScanCoordination, TLAPS, WellFoundedInduction

USE DEF vars, policyVars, executionVars, cycleVars, agentVars, bounds

USE HorizonAssumption

-----------------------------------------------------------------------------
(* Schedules *)

LEMMA CronTypes ==
  ASSUME NEW c \in Cron
  PROVE  c.slots \in SUBSET Nat /\ c.wall \in [Moment -> Nat] /\ Zone(c.wall)
  BY DEF Cron

(* Numbers up to the horizon have a least one.                             *)
LEMMA FirstIsLeast ==
  ASSUME NEW moments \in SUBSET Nat, moments # {}
  PROVE  First(moments) \in moments /\ \A i \in moments : First(moments) <= i
<1>1. PICK o \in moments : \A i \in moments : ~(<<i, o>> \in OpToRel(<, Nat))
  BY NatLessThanWellFounded, WFMin
<1>2. ASSUME NEW i \in moments, ~(o <= i) PROVE FALSE
  <2>1. i \in Nat /\ o \in Nat /\ i < o
    BY <1>2
  <2>2. <<i, o>> \in OpToRel(<, Nat)
    BY <2>1 DEF OpToRel
  <2> QED
    BY <1>1, <2>2
<1> QED
  BY <1>2 DEF First

(* Resolve finds the first moment that shows a wall time.                  *)
LEMMA ResolveIsFirst ==
  ASSUME NEW c \in Cron, NEW w \in Nat
  PROVE  /\ Resolve(c, w) \in 0..Horizon + 1
         /\ \A t \in Moment : c.wall[t] = w => Resolve(c, w) <= t
         /\ Resolve(c, w) \in Moment => c.wall[Resolve(c, w)] = w
<1> DEFINE shown == {t \in Moment : c.wall[t] = w}
<1>1. shown \in SUBSET Nat
  BY DEF Moment
<1>2. CASE shown = {}
  BY <1>2 DEF Resolve, First, Never, Moment
<1>3. CASE shown # {}
  <2>1. Resolve(c, w) \in shown /\ \A i \in shown : Resolve(c, w) <= i
    BY <1>1, <1>3, FirstIsLeast DEF Resolve
  <2> QED
    BY <2>1 DEF Moment
<1> QED
  BY <1>2, <1>3

(* The instants that slots resolve to are the occurrences.                 *)
LEMMA ResolvedAreOccurrences ==
  ASSUME NEW c \in Cron, NEW w \in c.slots, Resolve(c, w) \in Instant
  PROVE  Resolve(c, w) \in Occurrences(c)
<1>1. w \in Nat /\ Resolve(c, w) \in Moment
  BY CronTypes DEF Instant, Moment
<1>2. c.wall[Resolve(c, w)] = w
  BY <1>1, ResolveIsFirst
<1>3. \A s \in Moment : s < Resolve(c, w) => c.wall[s] # w
  BY <1>1, ResolveIsFirst DEF Moment
<1> QED
  BY <1>2, <1>3 DEF Occurrences

LEMMA OccurrencesAreResolved ==
  ASSUME NEW c \in Cron, NEW o \in Occurrences(c)
  PROVE  /\ o \in Instant /\ c.wall[o] \in c.slots /\ c.wall[o] \in Nat
         /\ Resolve(c, c.wall[o]) = o
<1>1. o \in Instant /\ o \in Moment /\ c.wall[o] \in c.slots /\ c.wall[o] \in Nat
  BY CronTypes DEF Occurrences, Instant, Moment
<1>2. Resolve(c, c.wall[o]) \in Moment /\ Resolve(c, c.wall[o]) <= o
  BY <1>1, ResolveIsFirst DEF Moment, Instant
<1>3. c.wall[Resolve(c, c.wall[o])] = c.wall[o]
  BY <1>1, <1>2, ResolveIsFirst
<1>4. ~(Resolve(c, c.wall[o]) < o)
  BY <1>2, <1>3 DEF Occurrences
<1> QED
  BY <1>1, <1>2, <1>4 DEF Moment, Instant

(* An occurrence later than t has a wall time later than the one at t:     *)
(* earlier wall times have been shown by then.                             *)
LEMMA LaterShowsLater ==
  ASSUME NEW c \in Cron, NEW o \in Occurrences(c), NEW t \in Moment, t < o
  PROVE  c.wall[t] < c.wall[o]
<1>1. o \in Moment /\ c.wall[o] \in Nat /\ c.wall[t] \in Nat
  BY CronTypes DEF Occurrences, Instant, Moment
<1>2. ASSUME c.wall[o] <= c.wall[t] PROVE FALSE
  <2>1. PICK s \in 0..t : c.wall[s] = c.wall[o]
    BY <1>1, <1>2, CronTypes DEF Zone
  <2>2. s \in Moment /\ s < o
    BY <1>1, <2>1 DEF Moment
  <2> QED
    BY <2>1, <2>2 DEF Occurrences
<1> QED
  BY <1>1, <1>2

(* next_cron_occurrence returns the first occurrence strictly after t,     *)
(* although it looks for the earliest slot and not for the earliest        *)
(* instant.                                                                *)
THEOREM NextIsFirstOccurrence ==
  ASSUME NEW c \in Cron, NEW t \in 0..Horizon + 1
  PROVE  /\ NextCronOccurrence(c, t) \in 1..Horizon + 1
         /\ t <= Horizon => t < NextCronOccurrence(c, t)
         /\ \A o \in Occurrences(c) : t < o => NextCronOccurrence(c, t) <= o
         /\ NextCronOccurrence(c, t) \in Instant => NextCronOccurrence(c, t) \in Occurrences(c)
<1> DEFINE candidates == {w \in c.slots : w > c.wall[t] /\ Resolve(c, w) \in t + 1..Horizon}
<1>1. candidates \in SUBSET Nat /\ candidates \subseteq c.slots
  BY CronTypes
<1>2. ASSUME NEW o \in Occurrences(c), t < o PROVE c.wall[o] \in candidates
  <2>1. t \in Moment
    BY <1>2 DEF Occurrences, Instant, Moment
  <2>2. c.wall[t] \in Nat /\ c.wall[t] < c.wall[o]
    BY <1>2, <2>1, CronTypes, LaterShowsLater
  <2>3. o \in t + 1..Horizon
    BY <1>2 DEF Occurrences, Instant
  <2> QED
    BY <2>2, <2>3, OccurrencesAreResolved
<1>3. CASE candidates = {}
  <2>1. NextCronOccurrence(c, t) = Horizon + 1
    BY <1>3 DEF NextCronOccurrence, Never
  <2> QED
    BY <1>2, <1>3, <2>1 DEF Instant
<1>4. CASE candidates # {}
  <2>1. PICK w \in candidates : /\ \A v \in candidates : w <= v
                                /\ NextCronOccurrence(c, t) = Resolve(c, w)
    <3>1. First(candidates) \in candidates /\ \A v \in candidates : First(candidates) <= v
      BY <1>1, <1>4, FirstIsLeast
    <3>2. NextCronOccurrence(c, t) = Resolve(c, First(candidates))
      BY <1>4 DEF NextCronOccurrence, First
    <3> QED
      BY <3>1, <3>2
  <2>2. w \in c.slots /\ w \in Nat
    BY <1>1
  <2>3. Resolve(c, w) \in t + 1..Horizon /\ Resolve(c, w) \in Instant
    BY DEF Instant
  <2>4. Resolve(c, w) \in Occurrences(c) /\ c.wall[Resolve(c, w)] = w
    BY <2>2, <2>3, ResolvedAreOccurrences, ResolveIsFirst DEF Instant, Moment
  <2>5. ASSUME NEW o \in Occurrences(c), t < o, ~(Resolve(c, w) <= o) PROVE FALSE
    <3>1. w <= c.wall[o] /\ c.wall[o] \in Nat /\ o \in Moment /\ o < Resolve(c, w)
      <4>1. o \in Instant /\ c.wall[o] \in Nat
        BY OccurrencesAreResolved
      <4>2. w <= c.wall[o]
        BY <1>2, <2>1, <2>5
      <4> QED
        BY <2>3, <2>5, <4>1, <4>2 DEF Instant, Moment
    <3>2. c.wall[o] < c.wall[Resolve(c, w)]
      BY <2>4, <3>1, LaterShowsLater
    <3> QED
      BY <2>2, <2>4, <3>1, <3>2
  <2> QED
    <3> DEFINE n == NextCronOccurrence(c, t)
    <3>1. n \in t + 1..Horizon /\ n \in Instant /\ n \in Occurrences(c)
      BY <2>1, <2>3, <2>4
    <3>2. \A o \in Occurrences(c) : t < o => n <= o
      BY <2>1, <2>5
    <3> HIDE DEF n
    <3>3. n \in 1..Horizon + 1 /\ t < n
      BY <3>1
    <3> QED
      BY <3>1, <3>2, <3>3 DEF n
<1> QED
  BY <1>3, <1>4

USE PolicyAssumption, CycleAssumption

(* The next run of a policy is the first occurrence of its schedule after  *)
(* the given time.                                                         *)
LEMMA FollowingIsNext ==
  ASSUME TypeOK, NEW p \in Policy, NEW t \in 0..Horizon + 1
  PROVE  /\ Following(p, t) \in 1..Horizon + 1
         /\ t <= Horizon => t < Following(p, t)
         /\ \A o \in Occurrences(schedule[p]) : t < o => Following(p, t) <= o
         /\ Following(p, t) \in Instant => Following(p, t) \in Occurrences(schedule[p])
  BY NextIsFirstOccurrence, ScheduleAssumption DEF Following, TypeOK

-----------------------------------------------------------------------------
(* Types *)

(* MarkStarted and MarkCompleted move an execution's status within its     *)
(* type.                                                                   *)
LEMMA MarksKeepType ==
  ASSUME TypeOK, NEW e \in Execution, MarkStarted(e) \/ MarkCompleted(e)
  PROVE  status' \in [Execution -> Active \cup Terminal \cup {"none"}]
  BY DEF TypeOK, MarkStarted, MarkCompleted, Active, Terminal

(* The transaction that materialises an occurrence keeps the types and     *)
(* releases its lock.                                                      *)
LEMMA MaterialiseKeepsType ==
  ASSUME TypeOK, NEW s \in Scheduler, Materialise(s) PROVE TypeOK'
<1> DEFINE p == locks[s]
           e == <<p, nextRun[p]>>
<1> USE DEF Active, Terminal, Instant, Execution
<1>1. p \in Policy /\ phase[s] = "materialise"
  BY DEF Materialise, TypeOK
<1>2. BeginCycle(s) \/ \E left \in {{}, {p}} : NextAttempt(s, left)
  BY DEF Materialise
<1>3. /\ phase' = [phase EXCEPT ![s] = phase'[s]]
      /\ phase'[s] \in {"initialise", "due"}
      /\ locks' = [locks EXCEPT ![s] = NoPolicy]
  BY <1>2 DEF BeginCycle, NextAttempt, TypeOK
<1>4. /\ attempts' \in [Scheduler -> 0..BatchSize]
      /\ excluded' \in [Scheduler -> SUBSET Policy]
      /\ seen' \in [Scheduler -> SUBSET Policy]
  <2>1. CASE BeginCycle(s)
    BY <2>1 DEF BeginCycle, TypeOK
  <2>2. ASSUME NEW left \in SUBSET Policy, NextAttempt(s, left)
        PROVE  /\ attempts' \in [Scheduler -> 0..BatchSize]
               /\ excluded' \in [Scheduler -> SUBSET Policy]
               /\ seen' \in [Scheduler -> SUBSET Policy]
    <3>1. attempts[s] < BatchSize
      BY <1>1 DEF TypeOK
    <3>2. attempts' \in [Scheduler -> 0..BatchSize]
      BY <2>2, <3>1 DEF NextAttempt, TypeOK
    <3>3. excluded' \in [Scheduler -> SUBSET Policy]
      BY <2>2 DEF NextAttempt, TypeOK
    <3> QED
      BY <2>2, <3>2, <3>3 DEF NextAttempt, TypeOK
  <2> QED
    BY <1>1, <1>2, <2>1, <2>2
<1>5. nextRun' \in [Policy -> 0..Horizon + 1]
  <2>1. Following(p, nextRun[p]) \in 0..Horizon + 1
    BY <1>1, FollowingIsNext DEF TypeOK
  <2> QED
    BY <1>1, <2>1 DEF Materialise, Advance, TypeOK
<1>6. status' \in [Execution -> Active \cup Terminal \cup {"none"}]
  <2>1. status' = status \/ status' = [status EXCEPT ![e] = "PENDING"]
    BY DEF Materialise
  <2> QED
    BY <2>1 DEF TypeOK
<1>7. UNCHANGED <<now, enabled, schedule, since, overdue, agentVars, bounds>>
  BY DEF Materialise
<1>8. /\ phase' \in [Scheduler -> {"initialise", "due", "lock", "materialise"}]
      /\ locks' \in [Scheduler -> Policy \cup {NoPolicy}]
      /\ \A t, u \in Scheduler : locks'[t] = locks'[u] /\ locks'[t] # NoPolicy => t = u
      /\ \A t \in Scheduler : locks'[t] # NoPolicy <=> phase'[t] = "materialise"
  <2> HIDE DEF Execution, p, e
  <2>1. phase \in [Scheduler -> {"initialise", "due", "lock", "materialise"}]
        /\ locks \in [Scheduler -> Policy \cup {NoPolicy}]
    BY DEF TypeOK
  <2>2. \A t \in Scheduler : IF t = s THEN locks'[t] = NoPolicy ELSE locks'[t] = locks[t]
    BY <1>3, <2>1
  <2>3. \A t \in Scheduler : IF t = s THEN phase'[t] # "materialise" ELSE phase'[t] = phase[t]
    BY <1>3, <2>1
  <2>4. \A t \in Scheduler : locks'[t] # NoPolicy <=> phase'[t] = "materialise"
    BY <2>2, <2>3 DEF TypeOK
  <2>5. \A t, u \in Scheduler : locks'[t] = locks'[u] /\ locks'[t] # NoPolicy => t = u
    BY <2>2 DEF TypeOK
  <2> QED
    BY <1>3, <2>1, <2>4, <2>5
<1>9. \A t \in Scheduler : phase'[t] \in {"lock", "materialise"} => attempts'[t] < BatchSize
  <2>1. \A t \in Scheduler \ {s} : phase'[t] = phase[t] /\ attempts'[t] = attempts[t]
    BY <1>2 DEF BeginCycle, NextAttempt, TypeOK
  <2> QED
    BY <1>3, <2>1 DEF TypeOK
<1> HIDE DEF Execution, p, e
<1> QED
  BY <1>4, <1>5, <1>6, <1>7, <1>8, <1>9 DEF TypeOK

(* The values every variable keeps; a policy's row is locked by one        *)
(* scheduler at most, while it materialises an occurrence.                 *)
THEOREM ScanTypeCorrect == Spec => []TypeOK
<1> USE DEF Active, Terminal, Instant, Execution
<1>1. Init => TypeOK
  BY DEF Init, TypeOK
<1>2. TypeOK /\ [Next]_vars => TypeOK'
  <2> SUFFICES ASSUME TypeOK, [Next]_vars PROVE TypeOK'
    OBVIOUS
  <2>1. CASE Tick
    BY <2>1 DEF Tick, TypeOK
  <2>2. CASE ProcessLate
    <3>1. PICK r \in late : /\ late' = late \ {r}
                            /\ MarkStarted(r[2]) \/ MarkCompleted(r[2])
      BY <2>2 DEF ProcessLate
    <3>2. status' \in [Execution -> Active \cup Terminal \cup {"none"}]
      BY <3>1, MarksKeepType DEF TypeOK
    <3> QED
      BY <2>2, <3>1, <3>2 DEF ProcessLate, TypeOK
  <2>3. CASE ExpireOverdueLeases
    BY <2>3 DEF ExpireOverdueLeases, Swept, TypeOK
  <2>4. ASSUME NEW s \in Scheduler, Initialise(s) PROVE TypeOK'
    <3>1. PICK p \in Policy : /\ nextRun' = [nextRun EXCEPT ![p] = Following(p, now)]
                              /\ since' = [since EXCEPT ![p] = now]
      BY <2>4 DEF Initialise, ToInitialise
    <3>4. UNCHANGED <<now, enabled, schedule, executionVars, phase, excluded, seen, locks,
                      agentVars, bounds>> /\ phase[s] = "initialise"
      BY <2>4 DEF Initialise
    <3>2. Following(p, now) \in 0..Horizon + 1
      BY FollowingIsNext DEF TypeOK
    <3>3. attempts' \in [Scheduler -> 0..BatchSize]
      BY <2>4 DEF Initialise, TypeOK
    <3>5. /\ nextRun' \in [Policy -> 0..Horizon + 1]
          /\ since' \in [Policy -> 0..now']
          /\ \A t \in Scheduler : phase'[t] \in {"lock", "materialise"} => attempts'[t] < BatchSize
      <4>1. \A t \in Scheduler \ {s} : attempts'[t] = attempts[t]
        BY <2>4 DEF Initialise, TypeOK
      <4>2. now \in 0..Horizon /\ now' = now
        BY <3>4 DEF TypeOK
      <4> QED
        BY <3>1, <3>2, <3>4, <4>1, <4>2 DEF TypeOK
    <3> HIDE DEF Execution
    <3> QED
      BY <3>3, <3>4, <3>5 DEF TypeOK
  <2>5. ASSUME NEW s \in Scheduler, FailInitialise(s) \/ EndInitialise(s) PROVE TypeOK'
    <3>1. PICK failed \in SUBSET Policy : \/ excluded' = [excluded EXCEPT ![s] = @ \cup failed]
                                          \/ excluded' = [excluded EXCEPT ![s] = {}]
      BY <2>5 DEF FailInitialise, EndInitialise, ToInitialise
    <3>2. excluded' \in [Scheduler -> SUBSET Policy]
      BY <3>1 DEF TypeOK
    <3>3. /\ phase[s] = "initialise" /\ phase'[s] \in {"initialise", "due"}
          /\ phase' \in [Scheduler -> {"initialise", "due", "lock", "materialise"}]
          /\ attempts' \in [Scheduler -> 0..BatchSize]
          /\ \A t \in Scheduler \ {s} : phase'[t] = phase[t] /\ attempts'[t] = attempts[t]
      <4>1. CASE FailInitialise(s)
        BY <4>1 DEF FailInitialise, TypeOK
      <4>2. CASE EndInitialise(s)
        BY <4>2 DEF EndInitialise, TypeOK
      <4> QED
        BY <2>5, <4>1, <4>2
    <3>4. UNCHANGED <<now, policyVars, executionVars, seen, locks, agentVars, bounds>>
      BY <2>5 DEF FailInitialise, EndInitialise
    <3> QED
      BY <3>2, <3>3, <3>4 DEF TypeOK
  <2>6. ASSUME NEW s \in Scheduler, FindDue(s) PROVE TypeOK'
    BY <2>6 DEF FindDue, TypeOK
  <2>7. ASSUME NEW s \in Scheduler, LockDue(s) PROVE TypeOK'
    BY <2>7 DEF LockDue, Unlocked, TypeOK
  <2>8. ASSUME NEW s \in Scheduler, EndCycle(s) PROVE TypeOK'
    BY <2>8 DEF EndCycle, BeginCycle, TypeOK
  <2>9. ASSUME NEW s \in Scheduler, Materialise(s) PROVE TypeOK'
    BY <2>9, MaterialiseKeepsType
  <2>10. ASSUME NEW s \in Scheduler, SchedulerFails(s) PROVE TypeOK'
    BY <2>10 DEF SchedulerFails, BeginCycle, Trouble, TypeOK
  <2>11. ASSUME NEW p \in Policy, DisablePolicy(p) PROVE TypeOK'
    BY <2>11 DEF DisablePolicy, Change, TypeOK
  <2>12. ASSUME NEW p \in Policy, EnablePolicy(p) PROVE TypeOK'
    BY <2>12 DEF EnablePolicy, Change, TypeOK
  <2>13. ASSUME NEW p \in Policy, UpdateSchedule(p) PROVE TypeOK'
    BY <2>13 DEF UpdateSchedule, Reschedule, Change, TypeOK
  <2>14. ASSUME NEW a \in Agent, LeaseJob(a) PROVE TypeOK'
    <3>1. PICK e \in Execution :
            /\ status' = [status EXCEPT ![e] = "LEASED"]
            /\ \/ /\ pc' = [pc EXCEPT ![a] = "starting"]
                  /\ holds' = [holds EXCEPT ![a] = e]
                  /\ UNCHANGED troubles
               \/ Trouble /\ UNCHANGED <<pc, holds>>
      BY <2>14 DEF LeaseJob
    <3>2. e # NoExecution
      OBVIOUS
    <3>3. troubles' \in 0..MaxTroubles
      BY <3>1 DEF Trouble, TypeOK
    <3>4. /\ status' \in [Execution -> Active \cup Terminal \cup {"none"}]
          /\ pc' \in [Agent -> {"idle", "starting", "scanning"}]
          /\ holds' \in [Agent -> Execution \cup {NoExecution}]
      <4>1. status' \in [Execution -> Active \cup Terminal \cup {"none"}]
        BY <3>1 DEF TypeOK
      <4> HIDE DEF Execution
      <4>2. /\ pc' \in [Agent -> {"idle", "starting", "scanning"}]
            /\ holds' \in [Agent -> Execution \cup {NoExecution}]
        BY <3>1 DEF TypeOK
      <4> QED
        BY <4>1, <4>2
    <3>5. \A b \in Agent : holds'[b] # NoExecution <=> pc'[b] # "idle"
      BY <3>1, <3>2 DEF TypeOK
    <3> HIDE DEF Execution
    <3> QED
      BY <2>14, <3>3, <3>4, <3>5 DEF LeaseJob, TypeOK
  <2>15. ASSUME NEW a \in Agent, StartJob(a) PROVE TypeOK'
    <3>1. holds[a] \in Execution
      BY <2>15 DEF StartJob, TypeOK
    <3>2. status' \in [Execution -> Active \cup Terminal \cup {"none"}]
      BY <2>15, <3>1, MarksKeepType DEF StartJob
    <3>3. CASE HoldsLease(holds[a], "LEASED")
      <4>1. /\ scanner' \in [Execution -> {"none", "running", "ok", "failed", "killed"}]
            /\ pc' = [pc EXCEPT ![a] = "scanning"]
            /\ holds' = holds
        BY <2>15, <3>1, <3>3 DEF StartJob, TypeOK
      <4> HIDE DEF Execution
      <4> QED
        BY <2>15, <3>1, <3>2, <4>1 DEF StartJob, TypeOK
    <3>4. CASE ~HoldsLease(holds[a], "LEASED")
      <4>1. /\ Leaves(a)
            /\ UNCHANGED <<now, policyVars, overdue, cycleVars, scanner, late, bounds>>
        BY <2>15, <3>4 DEF StartJob
      <4> HIDE DEF Execution
      <4> QED
        BY <3>2, <4>1 DEF Leaves, TypeOK
    <3> QED
      BY <3>3, <3>4
  <2>16. ASSUME NEW a \in Agent, RenewalRefused(a) PROVE TypeOK'
    BY <2>16 DEF RenewalRefused, Leaves, TypeOK
  <2>17. ASSUME NEW a \in Agent, ReportJob(a) PROVE TypeOK'
    <3>1. status' \in [Execution -> Active \cup Terminal \cup {"none"}]
      BY <2>17, MarksKeepType DEF ReportJob, TypeOK
    <3> QED
      BY <2>17, <3>1 DEF ReportJob, Leaves, TypeOK
  <2>18. ASSUME NEW a \in Agent, AgentStops(a) PROVE TypeOK'
    BY <2>18 DEF AgentStops, Leaves, Trouble, TypeOK
  <2>19. ASSUME NEW a \in Agent, AgentGivesUp(a) PROVE TypeOK'
    BY <2>19 DEF AgentGivesUp, Leaves, Trouble, TypeOK
  <2>20. ASSUME NEW e \in Execution, LeaseExpires(e) PROVE TypeOK'
    BY <2>20 DEF LeaseExpires, Trouble, TypeOK
  <2>21. ASSUME NEW e \in Execution, ScannerEnds(e) PROVE TypeOK'
    BY <2>21 DEF ScannerEnds, TypeOK
  <2>22. CASE UNCHANGED vars
    BY <2>22 DEF TypeOK
  <2> QED
    BY <2>1, <2>2, <2>3, <2>4, <2>5, <2>6, <2>7, <2>8, <2>9, <2>10, <2>11,
       <2>12, <2>13, <2>14, <2>15, <2>16, <2>17, <2>18, <2>19, <2>20, <2>21, <2>22
       DEF Next, SchedulerStep, AgentStep
<1> QED
  BY <1>1, <1>2, PTL DEF Spec

-----------------------------------------------------------------------------
(* Schedules *)

SchedulesInvariant ==
  /\ SchedulesHold /\ OneActivePerPolicy /\ ActiveIsPast
  /\ NoOccurrenceSkipped /\ OnlyOccurrencesDue

(* What the service and the agents do to executions: none is created, and  *)
(* none becomes active again.                                              *)
OnlyProgress ==
  /\ UNCHANGED <<now, policyVars, cycleVars>>
  /\ \A e \in Execution : /\ status'[e] \in Active => status[e] \in Active
                          /\ status'[e] = "none" <=> status[e] = "none"

LEMMA ProgressKeepsSchedules ==
  ASSUME TypeOK, SchedulesInvariant, OnlyProgress PROVE SchedulesInvariant'
<1>1. \A p \in Policy, o \in Instant : <<p, o>> \in Execution
  BY DEF Execution
<1>2. \A p \in Policy : ActiveOn(p)' \subseteq ActiveOn(p)
  BY <1>1 DEF OnlyProgress, ActiveOn
<1>3. SchedulesHold'
  BY DEF SchedulesInvariant, OnlyProgress, SchedulesHold, Due
<1>4. OneActivePerPolicy'
  BY <1>2 DEF SchedulesInvariant, OneActivePerPolicy
<1>5. ActiveIsPast'
  BY <1>2 DEF SchedulesInvariant, OnlyProgress, ActiveIsPast
<1>6. NoOccurrenceSkipped'
  <2>1. \A p \in Policy : \A o \in Occurrences(schedule[p]) : <<p, o>> \in Execution
    BY DEF Occurrences, Execution
  <2> QED
    BY <2>1 DEF SchedulesInvariant, OnlyProgress, NoOccurrenceSkipped
<1>7. OnlyOccurrencesDue'
  BY DEF SchedulesInvariant, OnlyProgress, OnlyOccurrencesDue
<1> QED
  BY <1>3, <1>4, <1>5, <1>6, <1>7 DEF SchedulesInvariant

(* A change of one policy that nobody has locked, which clears next_run_at,*)
(* as administrators make it.                                              *)
LEMMA ClearingKeepsSchedules ==
  ASSUME TypeOK, SchedulesInvariant, NEW p \in Policy, Unlocked(p),
         nextRun' = [nextRun EXCEPT ![p] = 0],
         \A q \in Policy \ {p} : enabled'[q] = enabled[q] /\ schedule'[q] = schedule[q],
         UNCHANGED <<now, since, executionVars, cycleVars>>
  PROVE  SchedulesInvariant'
<1>1. /\ nextRun'[p] = 0
      /\ \A q \in Policy \ {p} : nextRun'[q] = nextRun[q]
  BY DEF TypeOK
<1>2. \A q \in Policy : ActiveOn(q)' = ActiveOn(q)
  BY DEF ActiveOn
<1>3. SchedulesHold'
  <2>1. \A s \in Scheduler : phase[s] = "materialise" => locks[s] \in Policy \ {p}
    BY DEF Unlocked, TypeOK
  <2> QED
    BY <1>1, <2>1 DEF SchedulesInvariant, SchedulesHold, Due
<1>4. OneActivePerPolicy'
  BY <1>2 DEF SchedulesInvariant, OneActivePerPolicy
<1>5. ActiveIsPast'
  BY <1>1, <1>2 DEF SchedulesInvariant, ActiveIsPast
<1>6. NoOccurrenceSkipped'
  BY <1>1 DEF SchedulesInvariant, NoOccurrenceSkipped
<1>7. OnlyOccurrencesDue'
  BY <1>1 DEF SchedulesInvariant, OnlyOccurrencesDue, Instant
<1> QED
  BY <1>3, <1>4, <1>5, <1>6, <1>7 DEF SchedulesInvariant

(* Steps that leave policies, executions and the clock alone, and lock no  *)
(* policy that is not due.                                                 *)
LEMMA LockingKeepsSchedules ==
  ASSUME TypeOK, SchedulesInvariant, UNCHANGED <<now, policyVars, executionVars>>,
         \A s \in Scheduler : phase'[s] = "materialise" =>
           \/ phase[s] = "materialise" /\ locks'[s] = locks[s]
           \/ Due(locks'[s])
  PROVE  SchedulesInvariant'
<1>1. \A p \in Policy : ActiveOn(p)' = ActiveOn(p)
  BY DEF ActiveOn
<1>2. SchedulesHold'
  BY DEF SchedulesInvariant, SchedulesHold, Due
<1>3. OneActivePerPolicy' /\ ActiveIsPast'
  BY <1>1 DEF SchedulesInvariant, OneActivePerPolicy, ActiveIsPast
<1>4. NoOccurrenceSkipped' /\ OnlyOccurrencesDue'
  BY DEF SchedulesInvariant, NoOccurrenceSkipped, OnlyOccurrencesDue
<1> QED
  BY <1>2, <1>3, <1>4 DEF SchedulesInvariant

LEMMA InitialiseKeepsSchedules ==
  ASSUME TypeOK, SchedulesInvariant, NEW s \in Scheduler, Initialise(s)
  PROVE  SchedulesInvariant'
<1>1. PICK p \in Policy : /\ Uninitialised(p) /\ Unlocked(p)
                          /\ nextRun' = [nextRun EXCEPT ![p] = Following(p, now)]
                          /\ since' = [since EXCEPT ![p] = now]
  BY DEF Initialise, ToInitialise
<1>2. /\ nextRun'[p] = Following(p, now) /\ since'[p] = now
      /\ \A q \in Policy \ {p} : nextRun'[q] = nextRun[q] /\ since'[q] = since[q]
  BY <1>1 DEF TypeOK
<1>3. /\ Following(p, now) \in Nat /\ now < Following(p, now)
      /\ \A o \in Occurrences(schedule[p]) : now < o => Following(p, now) <= o
      /\ Following(p, now) \in Instant => Following(p, now) \in Occurrences(schedule[p])
  BY FollowingIsNext DEF TypeOK
<1>4. UNCHANGED <<now, enabled, schedule, status, phase, locks>>
  BY DEF Initialise
<1>5. \A q \in Policy : ActiveOn(q)' = ActiveOn(q)
  BY <1>4 DEF ActiveOn
<1>6. SchedulesHold'
  <2>1. \A t \in Scheduler : phase[t] = "materialise" => locks[t] \in Policy \ {p}
    BY <1>1 DEF Unlocked, TypeOK
  <2> QED
    BY <1>2, <1>4, <2>1 DEF SchedulesInvariant, SchedulesHold, Due
<1>7. OneActivePerPolicy'
  BY <1>5 DEF SchedulesInvariant, OneActivePerPolicy
<1>8. ActiveIsPast'
  <2>1. \A o \in ActiveOn(p) : o \in Nat /\ o <= now
    <3> SUFFICES ASSUME NEW o \in ActiveOn(p) PROVE o \in Nat /\ o <= now
      OBVIOUS
    <3>1. o \in Instant /\ <<p, o>> \in Execution /\ status[<<p, o>>] # "none"
      BY DEF ActiveOn, Active, Execution
    <3> QED
      BY <3>1 DEF SchedulesInvariant, SchedulesHold, Instant
  <2>2. \A o \in ActiveOn(p) : o < nextRun'[p]
    BY <1>2, <1>3, <2>1 DEF TypeOK
  <2> QED
    BY <1>2, <1>5, <2>2 DEF SchedulesInvariant, ActiveIsPast
<1>9. NoOccurrenceSkipped'
  <2>1. \A o \in Occurrences(schedule[p]) : ~(since'[p] < o /\ o < nextRun'[p])
    BY <1>2, <1>3 DEF TypeOK, Instant, Occurrences
  <2> QED
    BY <1>2, <1>4, <2>1 DEF SchedulesInvariant, NoOccurrenceSkipped
<1>10. OnlyOccurrencesDue'
  BY <1>2, <1>3, <1>4 DEF SchedulesInvariant, OnlyOccurrencesDue
<1> QED
  BY <1>6, <1>7, <1>8, <1>9, <1>10 DEF SchedulesInvariant

(* The policy moves on once its occurrence has an execution, which at      *)
(* worst is the only active one.                                           *)
LEMMA AdvanceKeepsSchedules ==
  ASSUME TypeOK, SchedulesInvariant, NEW p \in Policy, Due(p), Advance(p),
         status'[<<p, nextRun[p]>>] # "none",
         \/ status' = status
         \/ ActiveOn(p) = {} /\ status' = [status EXCEPT ![<<p, nextRun[p]>>] = "PENDING"],
         \A s \in Scheduler : phase'[s] = "materialise" =>
           phase[s] = "materialise" /\ locks'[s] = locks[s] /\ locks[s] # p,
         UNCHANGED <<now, enabled, schedule, since>>
  PROVE  SchedulesInvariant'
<1> DEFINE e == <<p, nextRun[p]>>
<1>1. /\ nextRun[p] \in Instant /\ nextRun[p] <= now
      /\ e \in Execution /\ e[2] = nextRun[p]
  BY DEF Due, TypeOK, Execution, Instant
<1>2. /\ nextRun'[p] = Following(p, nextRun[p])
      /\ \A q \in Policy \ {p} : nextRun'[q] = nextRun[q]
  BY DEF Advance, TypeOK
<1>3. /\ nextRun'[p] \in Nat /\ nextRun[p] < nextRun'[p]
      /\ \A o \in Occurrences(schedule[p]) : nextRun[p] < o => nextRun'[p] <= o
      /\ nextRun'[p] \in Instant => nextRun'[p] \in Occurrences(schedule[p])
  BY <1>1, <1>2, FollowingIsNext DEF TypeOK, Instant
<1>4. \A d \in Execution \ {e} : status'[d] = status[d]
  BY <1>1 DEF TypeOK
<1>5. \A q \in Policy \ {p} : ActiveOn(q)' = ActiveOn(q)
  <2>1. \A q \in Policy \ {p} : \A o \in Instant : <<q, o>> \in Execution \ {e}
    BY DEF Execution
  <2> QED
    BY <1>4, <2>1 DEF ActiveOn
<1>6. ActiveOn(p)' \subseteq ActiveOn(p) \/ ActiveOn(p)' \subseteq {nextRun[p]}
  <2>1. CASE status' = status
    BY <2>1 DEF ActiveOn
  <2>2. CASE ActiveOn(p) = {}
    <3>1. \A o \in Instant \ {nextRun[p]} : <<p, o>> \in Execution \ {e}
      BY DEF Execution
    <3> QED
      BY <1>4, <2>2, <3>1 DEF ActiveOn
  <2> QED
    BY <2>1, <2>2
<1>7. SchedulesHold'
  <2>1. \A d \in Execution : status'[d] # "none" => d[2] <= now'
    BY <1>1, <1>4 DEF SchedulesInvariant, SchedulesHold
  <2>2. \A s \in Scheduler : phase'[s] = "materialise" => Due(locks[s]) /\ locks[s] \in Policy \ {p}
    BY DEF SchedulesInvariant, SchedulesHold, TypeOK
  <2> QED
    BY <1>2, <2>1, <2>2 DEF SchedulesHold, Due
<1>8. OneActivePerPolicy'
  BY <1>5, <1>6 DEF SchedulesInvariant, OneActivePerPolicy
<1>9. ActiveIsPast'
  <2>1. \A o \in ActiveOn(p) : o \in Nat /\ o < nextRun[p]
    <3>1. ActiveOn(p) \subseteq Nat
      BY DEF ActiveOn, Instant
    <3> QED
      BY <1>1, <3>1 DEF SchedulesInvariant, ActiveIsPast, Instant
  <2>2. \A o \in ActiveOn(p)' : o < nextRun'[p]
    BY <1>1, <1>3, <1>6, <2>1 DEF Instant
  <2> QED
    BY <1>2, <1>5, <2>2 DEF SchedulesInvariant, ActiveIsPast
<1>10. NoOccurrenceSkipped'
  <2>1. \A q \in Policy : \A o \in Occurrences(schedule[q]) : <<q, o>> \in Execution /\ o \in Nat
    BY DEF Occurrences, Execution, Instant
  <2>2. \A d \in Execution : status[d] # "none" => status'[d] # "none"
    BY <1>4
  <2>3. ASSUME NEW o \in Occurrences(schedule[p]), since[p] < o, o < nextRun'[p]
        PROVE  status'[<<p, o>>] # "none"
    <3>1. o <= nextRun[p]
      <4>1. o \in Nat /\ nextRun[p] \in Nat
        <5>1. o \in 1..Horizon
          BY DEF Occurrences, Instant
        <5>2. nextRun[p] \in 1..Horizon
          BY <1>1 DEF Instant
        <5> QED
          BY <5>1, <5>2
      <4>2. ~(nextRun[p] < o)
        BY <1>3, <2>3, <4>1
      <4> QED
        BY <4>1, <4>2
    <3>2. CASE o = nextRun[p]
      BY <3>2
    <3>3. CASE o < nextRun[p]
      BY <1>1, <2>1, <2>2, <2>3, <3>3 DEF SchedulesInvariant, NoOccurrenceSkipped, Instant
    <3> QED
      BY <1>1, <2>1, <3>1, <3>2, <3>3 DEF Instant
  <2>4. ASSUME NEW q \in Policy \ {p}, nextRun'[q] # 0, NEW o \in Occurrences(schedule[q]),
               since[q] < o, o < nextRun'[q]
        PROVE  status'[<<q, o>>] # "none"
    BY <1>2, <2>1, <2>2, <2>4 DEF SchedulesInvariant, NoOccurrenceSkipped
  <2> QED
    BY <2>3, <2>4 DEF NoOccurrenceSkipped
<1>11. OnlyOccurrencesDue'
  BY <1>2, <1>3 DEF SchedulesInvariant, OnlyOccurrencesDue
<1> QED
  BY <1>7, <1>8, <1>9, <1>10, <1>11 DEF SchedulesInvariant

LEMMA MaterialiseKeepsSchedules ==
  ASSUME TypeOK, SchedulesInvariant, NEW s \in Scheduler, Materialise(s)
  PROVE  SchedulesInvariant'
<1> DEFINE p == locks[s]
           e == <<p, nextRun[p]>>
<1>1. /\ p \in Policy /\ Due(p)
      /\ phase[s] = "materialise"
      /\ UNCHANGED <<now, enabled, schedule, since, overdue>>
  BY DEF Materialise, TypeOK, SchedulesInvariant, SchedulesHold
<1>2. \A t \in Scheduler : phase'[t] = "materialise" =>
        phase[t] = "materialise" /\ locks'[t] = locks[t] /\ locks[t] # p
  <2>1. BeginCycle(s) \/ \E left \in {{}, {p}} : NextAttempt(s, left)
    BY DEF Materialise
  <2>2. /\ phase'[s] # "materialise"
        /\ \A t \in Scheduler \ {s} : phase'[t] = phase[t] /\ locks'[t] = locks[t]
    BY <2>1 DEF BeginCycle, NextAttempt, TypeOK
  <2> QED
    BY <1>1, <2>2 DEF TypeOK
<1>3. e \in Execution
  BY <1>1 DEF Due, TypeOK, Execution, Instant
<1>4. \/ UNCHANGED <<nextRun, status>>
      \/ status[e] # "none" /\ status' = status /\ Advance(p)
      \/ /\ ActiveOn(p) = {} /\ Advance(p)
         /\ status' = [status EXCEPT ![e] = "PENDING"]
  BY DEF Materialise, IndexAdmits
<1>5. CASE UNCHANGED <<nextRun, status>>
  BY <1>1, <1>2, <1>5, LockingKeepsSchedules
<1>6. CASE status[e] # "none" /\ status' = status /\ Advance(p)
  BY <1>1, <1>2, <1>6, AdvanceKeepsSchedules
<1>7. CASE /\ ActiveOn(p) = {} /\ Advance(p)
           /\ status' = [status EXCEPT ![e] = "PENDING"]
  <2>1. status'[e] # "none"
    BY <1>3, <1>7 DEF TypeOK
  <2> QED
    BY <1>1, <1>2, <1>7, <2>1, AdvanceKeepsSchedules
<1> QED
  BY <1>4, <1>5, <1>6, <1>7

-----------------------------------------------------------------------------
(* Leases *)

LeasesInvariant == AgentsHold /\ LateIsAbandoned /\ ScannersBelong

(* What schedulers and administrators do to executions: some are created.  *)
OnlyCreation ==
  /\ UNCHANGED <<overdue, agentVars>>
  /\ \A e \in Execution :
       status'[e] = status[e] \/ (status[e] = "none" /\ status'[e] = "PENDING")

LEMMA CreationKeepsLeases ==
  ASSUME TypeOK, LeasesInvariant, OnlyCreation PROVE LeasesInvariant'
<1>1. AgentsHold'
  BY DEF LeasesInvariant, OnlyCreation, AgentsHold, TypeOK
<1>2. LateIsAbandoned'
  BY DEF LeasesInvariant, OnlyCreation, LateIsAbandoned, TypeOK
<1>3. ScannersBelong'
  BY DEF LeasesInvariant, OnlyCreation, ScannersBelong, TypeOK
<1> QED
  BY <1>1, <1>2, <1>3 DEF LeasesInvariant

(* A late request changes an execution nobody holds.                       *)
LEMMA ProcessLateKeepsLeases ==
  ASSUME TypeOK, LeasesInvariant, ProcessLate PROVE LeasesInvariant' /\ OnlyProgress
<1>1. PICK r \in late : /\ r[1] = "start" => MarkStarted(r[2])
                        /\ r[1] # "start" => MarkCompleted(r[2])
                        /\ late' = late \ {r}
  BY DEF ProcessLate
<1> DEFINE e == r[2]
<1>2. e \in Execution /\ r[1] \in {"start", "complete"}
  BY DEF TypeOK
<1>3. UNCHANGED <<now, policyVars, overdue, cycleVars, pc, holds, scanner, bounds>>
  BY DEF ProcessLate
<1>4. \A a \in Agent : holds[a] # e
  BY DEF LeasesInvariant, LateIsAbandoned
<1>5. \A d \in Execution \ {e} : status'[d] = status[d]
  BY <1>1, <1>2 DEF MarkStarted, MarkCompleted, TypeOK
<1>6. \/ status'[e] = status[e]
      \/ status[e] = "LEASED" /\ status'[e] = "RUNNING"
      \/ /\ status[e] = "RUNNING" /\ scanner[e] # "running"
         /\ status'[e] = IF scanner[e] = "ok" THEN "SUCCEEDED" ELSE "FAILED"
  BY <1>1, <1>2 DEF MarkStarted, MarkCompleted, HoldsLease, LeasesInvariant, LateIsAbandoned, TypeOK
<1>7. AgentsHold'
  BY <1>3, <1>4, <1>5 DEF LeasesInvariant, AgentsHold, TypeOK
<1>8. LateIsAbandoned'
  BY <1>1, <1>2, <1>3, <1>5, <1>6 DEF LeasesInvariant, LateIsAbandoned, TypeOK
<1>9. ScannersBelong'
  BY <1>2, <1>3, <1>5, <1>6 DEF LeasesInvariant, ScannersBelong
<1>10. OnlyProgress
  BY <1>2, <1>3, <1>5, <1>6 DEF OnlyProgress, Active
<1> QED
  BY <1>7, <1>8, <1>9, <1>10 DEF LeasesInvariant

(* A lease that expires ends an execution with or without its scanner.     *)
LEMMA ExpireKeepsLeases ==
  ASSUME TypeOK, LeasesInvariant, ExpireOverdueLeases PROVE LeasesInvariant' /\ OnlyProgress
<1>1. \A e \in Execution :
        \/ status'[e] = status[e]
        \/ overdue[e] /\ status[e] = "LEASED" /\ status'[e] = "EXPIRED"
        \/ overdue[e] /\ status[e] = "RUNNING" /\ status'[e] = "FAILED"
  BY DEF ExpireOverdueLeases, Overdue, Swept, TypeOK
<1>2. UNCHANGED <<now, policyVars, overdue, cycleVars, agentVars, bounds>>
  BY DEF ExpireOverdueLeases
<1>3. \A a \in Agent : pc[a] # "idle" => holds[a] \in Execution
  BY DEF TypeOK
<1>4. AgentsHold'
  BY <1>1, <1>2, <1>3 DEF LeasesInvariant, AgentsHold, TypeOK
<1>5. LateIsAbandoned'
  <2>1. \A r \in late : r[2] \in Execution
    BY DEF TypeOK
  <2> QED
    BY <1>1, <1>2, <2>1 DEF LeasesInvariant, LateIsAbandoned
<1>6. ScannersBelong'
  BY <1>1, <1>2 DEF LeasesInvariant, ScannersBelong
<1>7. OnlyProgress
  BY <1>1, <1>2 DEF OnlyProgress, Active
<1> QED
  BY <1>4, <1>5, <1>6, <1>7 DEF LeasesInvariant

LEMMA LeaseExpiresKeepsLeases ==
  ASSUME TypeOK, LeasesInvariant, NEW e \in Execution, LeaseExpires(e)
  PROVE  LeasesInvariant' /\ OnlyProgress
<1>1. AgentsHold' /\ LateIsAbandoned'
  BY DEF LeaseExpires, LeasesInvariant, AgentsHold, LateIsAbandoned
<1>2. ScannersBelong'
  BY DEF LeaseExpires, LeasesInvariant, ScannersBelong, TypeOK
<1>3. OnlyProgress
  BY DEF LeaseExpires, OnlyProgress
<1> QED
  BY <1>1, <1>2, <1>3 DEF LeasesInvariant

(* A PENDING execution is nobody's until it is leased, once.               *)
LEMMA LeaseJobKeepsLeases ==
  ASSUME TypeOK, LeasesInvariant, NEW a \in Agent, LeaseJob(a)
  PROVE  LeasesInvariant' /\ OnlyProgress
<1>1. PICK e \in Execution :
        /\ status[e] = "PENDING" /\ status' = [status EXCEPT ![e] = "LEASED"]
        /\ \/ /\ pc' = [pc EXCEPT ![a] = "starting"]
              /\ holds' = [holds EXCEPT ![a] = e]
           \/ UNCHANGED <<pc, holds>>
  BY DEF LeaseJob, NextPending
<1>2. /\ pc[a] = "idle"
      /\ UNCHANGED <<now, policyVars, overdue, cycleVars, scanner, late>>
  BY DEF LeaseJob
<1>3. status'[e] = "LEASED" /\ \A d \in Execution \ {e} : status'[d] = status[d]
  BY <1>1 DEF TypeOK
<1>4. scanner[e] = "none"
  BY <1>1 DEF LeasesInvariant, ScannersBelong
<1>5. \A b \in Agent : pc[b] # "idle" => holds[b] \in Execution \ {e}
  BY <1>1, <1>4 DEF LeasesInvariant, AgentsHold, TypeOK
<1>6. \A b \in Agent : pc[b] = "idle" => holds[b] # e
  BY DEF TypeOK, Execution
<1>7. \A b \in Agent \ {a} : pc'[b] = pc[b] /\ holds'[b] = holds[b]
  BY <1>1 DEF TypeOK
<1>8. (pc'[a] = "starting" /\ holds'[a] = e) \/ (pc'[a] = "idle" /\ holds'[a] = holds[a])
  BY <1>1, <1>2 DEF TypeOK
<1>9. AgentsHold'
  BY <1>2, <1>3, <1>4, <1>5, <1>6, <1>7, <1>8 DEF LeasesInvariant, AgentsHold
<1>10. LateIsAbandoned'
  <2>1. \A r \in late : r[2] \in Execution \ {e}
    BY <1>1 DEF LeasesInvariant, LateIsAbandoned, TypeOK
  <2> QED
    BY <1>2, <1>3, <1>7, <1>8, <2>1 DEF LeasesInvariant, LateIsAbandoned
<1>11. ScannersBelong'
  BY <1>2, <1>3, <1>4 DEF LeasesInvariant, ScannersBelong
<1>12. OnlyProgress
  BY <1>1, <1>2, <1>3 DEF OnlyProgress, Active
<1> QED
  BY <1>9, <1>10, <1>11, <1>12 DEF LeasesInvariant

(* An agent that leaves the execution it holds takes nothing from others.  *)
LEMMA LeavingIsolates ==
  ASSUME TypeOK, AgentsHold, NEW a \in Agent, pc[a] # "idle", Leaves(a)
  PROVE  /\ holds[a] \in Execution
         /\ \A b \in Agent : holds'[b] # holds[a]
         /\ \A b \in Agent \ {a} : pc'[b] = pc[b] /\ holds'[b] = holds[b]
         /\ pc'[a] = "idle" /\ holds'[a] = NoExecution
<1>1. holds[a] \in Execution /\ holds[a] # NoExecution
  BY DEF TypeOK
<1>2. \A b \in Agent \ {a} : holds[b] # holds[a]
  BY DEF AgentsHold
<1>3. /\ \A b \in Agent \ {a} : pc'[b] = pc[b] /\ holds'[b] = holds[b]
      /\ pc'[a] = "idle" /\ holds'[a] = NoExecution
  BY DEF Leaves, TypeOK
<1> QED
  BY <1>1, <1>2, <1>3

(* An agent that leaves, with its execution and scanner as the rest of the *)
(* step leaves them.                                                       *)
LEMMA LeavingKeepsLeases ==
  ASSUME TypeOK, LeasesInvariant, NEW a \in Agent, pc[a] # "idle", Leaves(a),
         UNCHANGED <<overdue>>, late' \subseteq late \cup {"start", "complete"} \X {holds[a]},
         \A d \in Execution \ {holds[a]} : status'[d] = status[d] /\ scanner'[d] = scanner[d],
         \A d \in Execution : status[d] \notin {"none", "PENDING"} => status'[d] \notin {"none", "PENDING"},
         \A r \in late' \ late : r[1] = "complete" => scanner'[r[2]] \notin {"none", "running"},
         scanner'[holds[a]] # "none" => status'[holds[a]] \in {"RUNNING", "SUCCEEDED", "FAILED"},
         status'[holds[a]] = "SUCCEEDED" => scanner'[holds[a]] = "ok",
         scanner'[holds[a]] = "running" /\ ~overdue[holds[a]] => status'[holds[a]] = "RUNNING"
  PROVE  LeasesInvariant'
<1>1. /\ holds[a] \in Execution
      /\ \A b \in Agent : holds'[b] # holds[a]
      /\ \A b \in Agent \ {a} : pc'[b] = pc[b] /\ holds'[b] = holds[b]
      /\ pc'[a] = "idle" /\ holds'[a] = NoExecution
  BY LeavingIsolates DEF LeasesInvariant
<1>2. \A b \in Agent : pc[b] # "idle" => holds[b] \in Execution /\ holds[b] # NoExecution
  BY DEF TypeOK
<1>3. AgentsHold'
  <2>1. \A b \in Agent \ {a} : pc[b] # "idle" => holds[b] \in Execution \ {holds[a]}
    BY <1>1, <1>2
  <2> QED
    BY <1>1, <1>2, <2>1 DEF LeasesInvariant, AgentsHold
<1>4. LateIsAbandoned'
  <2>1. status[holds[a]] \notin {"none", "PENDING"}
    BY <1>1 DEF LeasesInvariant, AgentsHold, ScannersBelong, TypeOK
  <2>2. ASSUME NEW r \in late
        PROVE  /\ status'[r[2]] \notin {"none", "PENDING"}
               /\ \A b \in Agent : holds'[b] # r[2]
               /\ r[1] = "complete" => scanner'[r[2]] \notin {"none", "running"}
    <3>1. r[2] \in Execution \ {holds[a]}
      BY DEF LeasesInvariant, LateIsAbandoned, TypeOK
    <3>2. r[2] # NoExecution
      BY <3>1 DEF Execution
    <3> QED
      BY <1>1, <3>1, <3>2 DEF LeasesInvariant, LateIsAbandoned
  <2>3. ASSUME NEW r \in late' \ late
        PROVE  /\ status'[r[2]] \notin {"none", "PENDING"}
               /\ \A b \in Agent : holds'[b] # r[2]
               /\ r[1] = "complete" => scanner'[r[2]] \notin {"none", "running"}
    <3>1. r[2] = holds[a]
      BY <2>3
    <3> QED
      BY <1>1, <2>1, <3>1
  <2> QED
    BY <2>2, <2>3 DEF LateIsAbandoned
<1>5. ScannersBelong'
  BY <1>1 DEF LeasesInvariant, ScannersBelong
<1> QED
  BY <1>3, <1>4, <1>5 DEF LeasesInvariant

LEMMA StartJobKeepsLeases ==
  ASSUME TypeOK, LeasesInvariant, NEW a \in Agent, StartJob(a)
  PROVE  LeasesInvariant' /\ OnlyProgress
<1> DEFINE e == holds[a]
<1>1. /\ pc[a] = "starting" /\ e \in Execution
      /\ UNCHANGED <<now, policyVars, overdue, cycleVars, late, bounds>>
  BY DEF StartJob, TypeOK
<1>2. status[e] \in {"LEASED", "EXPIRED"} /\ scanner[e] = "none"
  BY <1>1 DEF LeasesInvariant, AgentsHold
<1>3. CASE HoldsLease(e, "LEASED")
  <2>1. /\ status' = [status EXCEPT ![e] = "RUNNING"]
        /\ \E outcome \in {"running", "failed"} : scanner' = [scanner EXCEPT ![e] = outcome]
        /\ pc' = [pc EXCEPT ![a] = "scanning"]
        /\ UNCHANGED holds
    BY <1>3 DEF StartJob, MarkStarted
  <2>2. /\ status'[e] = "RUNNING" /\ scanner'[e] \in {"running", "failed"}
        /\ \A d \in Execution \ {e} : status'[d] = status[d] /\ scanner'[d] = scanner[d]
    BY <1>1, <2>1 DEF TypeOK
  <2>3. pc'[a] = "scanning" /\ \A b \in Agent \ {a} : pc'[b] = pc[b]
    BY <2>1 DEF TypeOK
  <2>4. \A b \in Agent \ {a} : pc[b] # "idle" => holds[b] \in Execution \ {e}
    BY <1>1 DEF LeasesInvariant, AgentsHold, TypeOK
  <2>5. AgentsHold'
    <3>1. \A b \in Agent \ {a} : holds[b] # e
      BY <1>1 DEF LeasesInvariant, AgentsHold
    <3> QED
      BY <1>1, <2>1, <2>2, <2>3, <2>4, <3>1 DEF LeasesInvariant, AgentsHold
  <2>6. LateIsAbandoned'
    <3>1. \A r \in late : r[2] \in Execution \ {e}
      BY DEF LeasesInvariant, LateIsAbandoned, TypeOK
    <3> QED
      BY <1>1, <2>1, <2>2, <3>1 DEF LeasesInvariant, LateIsAbandoned
  <2>7. ScannersBelong'
    BY <1>1, <2>2 DEF LeasesInvariant, ScannersBelong
  <2>8. OnlyProgress
    BY <1>1, <1>3, <2>2 DEF OnlyProgress, HoldsLease, Active
  <2> QED
    BY <2>5, <2>6, <2>7, <2>8 DEF LeasesInvariant
<1>4. CASE ~HoldsLease(e, "LEASED")
  <2>1. status' = status /\ Leaves(a) /\ UNCHANGED scanner
    BY <1>4 DEF StartJob, MarkStarted
  <2>2. OnlyProgress
    BY <1>1, <2>1 DEF OnlyProgress
  <2>3. LeasesInvariant'
    BY <1>1, <1>2, <2>1, LeavingKeepsLeases
  <2> QED
    BY <2>2, <2>3
<1> QED
  BY <1>3, <1>4

LEMMA ScannerEndsKeepsLeases ==
  ASSUME TypeOK, LeasesInvariant, NEW e \in Execution, ScannerEnds(e)
  PROVE  LeasesInvariant' /\ OnlyProgress
<1>1. /\ scanner[e] = "running" /\ scanner'[e] \in {"ok", "failed"}
      /\ \A d \in Execution \ {e} : scanner'[d] = scanner[d]
      /\ UNCHANGED <<now, policyVars, status, overdue, cycleVars, pc, holds, late>>
  BY DEF ScannerEnds, TypeOK
<1>2. \A b \in Agent : pc[b] # "idle" => holds[b] \in Execution
  BY DEF TypeOK
<1>3. AgentsHold'
  BY <1>1, <1>2 DEF LeasesInvariant, AgentsHold
<1>4. LateIsAbandoned'
  <2>1. \A r \in late : r[2] \in Execution
    BY DEF TypeOK
  <2> QED
    BY <1>1, <2>1 DEF LeasesInvariant, LateIsAbandoned
<1>5. ScannersBelong'
  BY <1>1 DEF LeasesInvariant, ScannersBelong
<1>6. OnlyProgress
  BY <1>1 DEF OnlyProgress
<1> QED
  BY <1>3, <1>4, <1>5, <1>6 DEF LeasesInvariant

LEMMA ReportJobKeepsLeases ==
  ASSUME TypeOK, LeasesInvariant, NEW a \in Agent, ReportJob(a)
  PROVE  LeasesInvariant' /\ OnlyProgress
<1> DEFINE e == holds[a]
<1>1. /\ pc[a] = "scanning" /\ e \in Execution /\ Leaves(a)
      /\ scanner[e] # "running" /\ MarkCompleted(e)
      /\ UNCHANGED <<now, policyVars, overdue, cycleVars, scanner, late, bounds>>
  BY DEF ReportJob, HasEnded, TypeOK
<1>2. \A d \in Execution \ {e} : status'[d] = status[d]
  BY <1>1 DEF MarkCompleted, TypeOK
<1>3. \/ status'[e] = status[e]
      \/ /\ status[e] = "RUNNING"
         /\ status'[e] = IF scanner[e] = "ok" THEN "SUCCEEDED" ELSE "FAILED"
  BY <1>1 DEF MarkCompleted, HoldsLease, TypeOK
<1>4. OnlyProgress
  BY <1>1, <1>2, <1>3 DEF OnlyProgress, Active
<1>5. /\ \A d \in Execution : status[d] \notin {"none", "PENDING"} => status'[d] \notin {"none", "PENDING"}
      /\ scanner[e] # "none" => status'[e] \in {"RUNNING", "SUCCEEDED", "FAILED"}
      /\ status'[e] = "SUCCEEDED" => scanner[e] = "ok"
  BY <1>1, <1>2, <1>3 DEF LeasesInvariant, ScannersBelong
<1>6. LeasesInvariant'
  BY <1>1, <1>2, <1>5, LeavingKeepsLeases
<1> QED
  BY <1>4, <1>6

LEMMA StopsKeepsLeases ==
  ASSUME TypeOK, LeasesInvariant, NEW a \in Agent,
         RenewalRefused(a) \/ AgentStops(a) \/ AgentGivesUp(a)
  PROVE  LeasesInvariant' /\ OnlyProgress
<1> DEFINE e == holds[a]
<1>1. /\ pc[a] # "idle" /\ e \in Execution /\ Leaves(a)
      /\ UNCHANGED <<now, policyVars, executionVars, cycleVars>>
  BY DEF RenewalRefused, AgentStops, AgentGivesUp, TypeOK
<1>2. OnlyProgress
  BY <1>1 DEF OnlyProgress
<1>3. CASE RenewalRefused(a) \/ AgentStops(a)
  <2>1. /\ scanner[e] = "running" /\ scanner'[e] \in {"running", "killed"}
        /\ \A d \in Execution \ {e} : scanner'[d] = scanner[d]
        /\ UNCHANGED late
    BY <1>1, <1>3 DEF RenewalRefused, AgentStops, TypeOK
  <2>2. /\ status[e] \in {"RUNNING", "FAILED"}
        /\ ~overdue[e] => status[e] = "RUNNING"
    BY <1>1, <2>1 DEF LeasesInvariant, ScannersBelong
  <2>3. LeasesInvariant'
    BY <1>1, <2>1, <2>2, LeavingKeepsLeases
  <2> QED
    BY <1>2, <2>3
<1>4. CASE AgentGivesUp(a)
  <2>1. /\ scanner[e] # "running" /\ UNCHANGED scanner
        /\ \/ late' = late
           \/ pc[a] = "starting" /\ late' = late \cup {<<"start", e>>}
           \/ pc[a] = "scanning" /\ late' = late \cup {<<"complete", e>>}
    BY <1>4 DEF AgentGivesUp
  <2>2. late' \subseteq late \cup {"start", "complete"} \X {e}
    BY <2>1
  <2>3. \A r \in late' \ late : r[1] = "complete" => scanner[r[2]] \notin {"none", "running"}
    BY <2>1 DEF LeasesInvariant, AgentsHold
  <2>4. /\ scanner[e] # "none" => status[e] \in {"RUNNING", "SUCCEEDED", "FAILED"}
        /\ status[e] = "SUCCEEDED" => scanner[e] = "ok"
    BY <1>1 DEF LeasesInvariant, ScannersBelong
  <2>5. LeasesInvariant'
    BY <1>1, <2>1, <2>2, <2>3, <2>4, LeavingKeepsLeases
  <2> QED
    BY <1>2, <2>5
<1> QED
  BY <1>3, <1>4

-----------------------------------------------------------------------------
(* The invariant *)

(* Schedulers and administrators keep both halves of the invariant.        *)
LEMMA SchedulerKeepsInvariant ==
  ASSUME TypeOK, CoordinationInvariant, NEW s \in Scheduler, SchedulerStep(s) \/ SchedulerFails(s)
  PROVE  CoordinationInvariant'
<1> SUFFICES SchedulesInvariant' /\ LeasesInvariant'
  BY DEF CoordinationInvariant, SchedulesInvariant, LeasesInvariant
<1>0. SchedulesInvariant /\ LeasesInvariant
  BY DEF CoordinationInvariant, SchedulesInvariant, LeasesInvariant
<1>1. CASE Initialise(s)
  <2>1. OnlyCreation
    BY <1>1 DEF Initialise, OnlyCreation
  <2> QED
    BY <1>0, <1>1, <2>1, InitialiseKeepsSchedules, CreationKeepsLeases
<1>2. CASE \/ FailInitialise(s) \/ EndInitialise(s) \/ FindDue(s) \/ LockDue(s)
          \/ EndCycle(s) \/ SchedulerFails(s)
  <2>1. UNCHANGED <<now, policyVars, executionVars, agentVars>>
    BY <1>2 DEF FailInitialise, EndInitialise, FindDue, LockDue, EndCycle, SchedulerFails
  <2>2. OnlyCreation
    BY <2>1 DEF OnlyCreation
  <2>3. \A t \in Scheduler \ {s} : phase'[t] = phase[t] /\ locks'[t] = locks[t]
    BY <1>2 DEF FailInitialise, EndInitialise, FindDue, LockDue, EndCycle, SchedulerFails, BeginCycle,
           TypeOK
  <2>4. phase'[s] = "materialise" => Due(locks'[s])
    BY <1>2 DEF FailInitialise, EndInitialise, FindDue, LockDue, EndCycle, SchedulerFails, BeginCycle,
           TypeOK
  <2> QED
    BY <1>0, <2>1, <2>2, <2>3, <2>4, LockingKeepsSchedules, CreationKeepsLeases
<1>3. CASE Materialise(s)
  <2>1. OnlyCreation
    <3>1. LET e == <<locks[s], nextRun[locks[s]]>>
          IN  \/ status' = status
              \/ status[e] = "none" /\ status' = [status EXCEPT ![e] = "PENDING"]
      BY <1>3 DEF Materialise
    <3>2. UNCHANGED <<overdue, agentVars>>
      BY <1>3 DEF Materialise
    <3> QED
      BY <3>1, <3>2 DEF OnlyCreation, TypeOK
  <2> QED
    BY <1>0, <1>3, <2>1, MaterialiseKeepsSchedules, CreationKeepsLeases
<1> QED
  BY <1>1, <1>2, <1>3 DEF SchedulerStep

LEMMA AdministratorKeepsInvariant ==
  ASSUME TypeOK, CoordinationInvariant, NEW p \in Policy,
         DisablePolicy(p) \/ EnablePolicy(p) \/ UpdateSchedule(p)
  PROVE  CoordinationInvariant'
<1> SUFFICES SchedulesInvariant' /\ LeasesInvariant'
  BY DEF CoordinationInvariant, SchedulesInvariant, LeasesInvariant
<1>0. SchedulesInvariant /\ LeasesInvariant
  BY DEF CoordinationInvariant, SchedulesInvariant, LeasesInvariant
<1>1. /\ Unlocked(p) /\ nextRun' = [nextRun EXCEPT ![p] = 0]
      /\ UNCHANGED <<now, since, executionVars, cycleVars, agentVars>>
  BY DEF DisablePolicy, EnablePolicy, UpdateSchedule, Reschedule
<1>2. \A q \in Policy \ {p} : enabled'[q] = enabled[q] /\ schedule'[q] = schedule[q]
  BY DEF DisablePolicy, EnablePolicy, UpdateSchedule, Reschedule, TypeOK
<1>3. OnlyCreation
  BY <1>1 DEF OnlyCreation
<1> QED
  BY <1>0, <1>1, <1>2, <1>3, ClearingKeepsSchedules, CreationKeepsLeases

(* The service, the agents and their scanners, too.                        *)
LEMMA AgentKeepsInvariant ==
  ASSUME TypeOK, CoordinationInvariant,
         \/ ProcessLate \/ ExpireOverdueLeases
         \/ \E a \in Agent : AgentStep(a) \/ AgentStops(a) \/ AgentGivesUp(a)
         \/ \E e \in Execution : LeaseExpires(e) \/ ScannerEnds(e)
  PROVE  CoordinationInvariant'
<1>1. SchedulesInvariant /\ LeasesInvariant
  BY DEF CoordinationInvariant, SchedulesInvariant, LeasesInvariant
<1>2. LeasesInvariant' /\ OnlyProgress
  BY <1>1, ProcessLateKeepsLeases, ExpireKeepsLeases, LeaseJobKeepsLeases, StartJobKeepsLeases,
     ReportJobKeepsLeases, StopsKeepsLeases, LeaseExpiresKeepsLeases, ScannerEndsKeepsLeases
     DEF AgentStep
<1>3. SchedulesInvariant'
  BY <1>1, <1>2, ProgressKeepsSchedules
<1> QED
  BY <1>2, <1>3 DEF CoordinationInvariant, SchedulesInvariant, LeasesInvariant

(* The inductive invariant: an execution is leased once and belongs to one *)
(* agent, late requests concern executions nobody holds, a locked policy   *)
(* stays due.                                                              *)
THEOREM CoordinationHolds == Spec => []CoordinationInvariant
<1>1. Init => CoordinationInvariant
  BY DEF Init, CoordinationInvariant, AgentsHold, LateIsAbandoned, ScannersBelong,
         SchedulesHold, OneActivePerPolicy, ActiveIsPast, NoOccurrenceSkipped, OnlyOccurrencesDue, ActiveOn,
         Active, Execution, Instant
<1>2. TypeOK /\ CoordinationInvariant /\ [Next]_vars => CoordinationInvariant'
  <2> SUFFICES ASSUME TypeOK, CoordinationInvariant, [Next]_vars PROVE CoordinationInvariant'
    OBVIOUS
  <2>1. CASE Tick
    <3>1. UNCHANGED <<policyVars, executionVars, cycleVars, agentVars>> /\ now' = now + 1
      BY <2>1 DEF Tick
    <3>2. OnlyCreation /\ LeasesInvariant
      BY <3>1 DEF OnlyCreation, LeasesInvariant, CoordinationInvariant
    <3>3. \A p \in Policy : ActiveOn(p)' = ActiveOn(p)
      BY <3>1 DEF ActiveOn
    <3>4. \A p \in Policy : Due(p) => Due(p)'
      BY <3>1 DEF Due, TypeOK
    <3>5. SchedulesHold'
      <4>1. \A e \in Execution : e[2] \in Nat
        BY DEF Execution, Instant
      <4>2. \A e \in Execution : status'[e] # "none" => e[2] <= now'
        BY <3>1, <4>1 DEF CoordinationInvariant, SchedulesHold, TypeOK
      <4>3. \A s \in Scheduler : phase'[s] = "materialise" => Due(locks[s])'
        BY <3>1, <3>4 DEF CoordinationInvariant, SchedulesHold, TypeOK
      <4> QED
        BY <3>1, <4>2, <4>3 DEF SchedulesHold
    <3>6. OneActivePerPolicy' /\ ActiveIsPast'
      BY <3>1, <3>3 DEF CoordinationInvariant, OneActivePerPolicy, ActiveIsPast
    <3>7. NoOccurrenceSkipped' /\ OnlyOccurrencesDue'
      BY <3>1 DEF CoordinationInvariant, NoOccurrenceSkipped, OnlyOccurrencesDue
    <3> QED
      BY <3>2, <3>5, <3>6, <3>7, CreationKeepsLeases DEF CoordinationInvariant, LeasesInvariant
  <2>2. CASE UNCHANGED vars
    BY <2>2 DEF CoordinationInvariant, AgentsHold, LateIsAbandoned, ScannersBelong,
                SchedulesHold, Due, OneActivePerPolicy, ActiveIsPast, NoOccurrenceSkipped,
                OnlyOccurrencesDue, ActiveOn
  <2> QED
    BY <2>1, <2>2, SchedulerKeepsInvariant, AdministratorKeepsInvariant, AgentKeepsInvariant
       DEF Next
<1> QED
  BY <1>1, <1>2, ScanTypeCorrect, PTL DEF Spec

(* A policy has at most one active execution, although the due query may   *)
(* see stale executions.                                                   *)
THEOREM ActiveExecutions == Spec => []OneActivePerPolicy
<1>1. CoordinationInvariant => OneActivePerPolicy
  BY DEF CoordinationInvariant
<1> QED
  BY <1>1, CoordinationHolds, PTL

(* An active execution is of an earlier occurrence than next_run_at,       *)
(* although administrators reset it.                                       *)
THEOREM ActivePast == Spec => []ActiveIsPast
<1>1. CoordinationInvariant => ActiveIsPast
  BY DEF CoordinationInvariant
<1> QED
  BY <1>1, CoordinationHolds, PTL

(* However late the scheduler is, no occurrence since next_run_at was      *)
(* initialised is passed over without an execution.                        *)
THEOREM CatchesUp == Spec => []NoOccurrenceSkipped
<1>1. CoordinationInvariant => NoOccurrenceSkipped
  BY DEF CoordinationInvariant
<1> QED
  BY <1>1, CoordinationHolds, PTL

(* A policy is due at occurrences of its schedule only: at no wall time    *)
(* that the clocks skip, and once at one they show twice.                  *)
THEOREM DueAtOccurrences == Spec => []OnlyOccurrencesDue
<1>1. CoordinationInvariant => OnlyOccurrencesDue
  BY DEF CoordinationInvariant
<1> QED
  BY <1>1, CoordinationHolds, PTL

(* What is recorded of an execution is what its scanner did, whatever      *)
(* requests are lost or late.                                              *)
THEOREM RecordIsTrue == Spec => []StatusMatchesScanner
<1>1. TypeOK /\ CoordinationInvariant => StatusMatchesScanner
  BY DEF CoordinationInvariant, ScannersBelong, StatusMatchesScanner, TypeOK
<1> QED
  BY <1>1, ScanTypeCorrect, CoordinationHolds, PTL

(* Two scanners of one policy never run together within their leases.      *)
THEOREM ScannersExclude == Spec => []ScannersOverlapOnlyOverdue
<1>1. TypeOK /\ CoordinationInvariant => ScannersOverlapOnlyOverdue
  <2> SUFFICES ASSUME TypeOK, CoordinationInvariant, NEW d \in Execution, NEW e \in Execution,
                      scanner[d] = "running", scanner[e] = "running", d[1] = e[1],
                      ~overdue[d], ~overdue[e]
               PROVE  d = e
    BY DEF ScannersOverlapOnlyOverdue, TypeOK
  <2>1. status[d] = "RUNNING" /\ status[e] = "RUNNING"
    BY DEF CoordinationInvariant, ScannersBelong
  <2>2. /\ d[1] \in Policy /\ d[2] \in Instant /\ d = <<d[1], d[2]>>
        /\ e[2] \in Instant /\ e = <<d[1], e[2]>>
    BY DEF Execution
  <2>3. d[2] \in ActiveOn(d[1]) /\ e[2] \in ActiveOn(d[1])
    BY <2>1, <2>2 DEF ActiveOn, Active
  <2> QED
    BY <2>2, <2>3 DEF CoordinationInvariant, OneActivePerPolicy
<1> QED
  BY <1>1, ScanTypeCorrect, CoordinationHolds, PTL

(* A terminal execution is never recycled: not by a late request, nor by   *)
(* the sweep of expired leases, nor by a scheduler.                        *)
THEOREM TerminalStays == Spec => TerminalIsFinal
<1> DEFINE Stays == \A e \in Execution : status[e] \in Terminal => status'[e] = status[e]
<1> USE DEF Terminal
<1>1. TypeOK /\ [Next]_vars => Stays
  <2> SUFFICES ASSUME TypeOK, [Next]_vars PROVE Stays
    OBVIOUS
  <2>1. CASE UNCHANGED status
    BY <2>1
  <2>2. ASSUME NEW e \in Execution, MarkStarted(e) \/ MarkCompleted(e) PROVE Stays
    BY <2>2 DEF MarkStarted, MarkCompleted, HoldsLease, TypeOK
  <2>3. CASE ProcessLate
    BY <2>2, <2>3 DEF ProcessLate, TypeOK
  <2>4. CASE ExpireOverdueLeases
    BY <2>4 DEF ExpireOverdueLeases, Overdue
  <2>5. ASSUME NEW s \in Scheduler, Materialise(s) PROVE Stays
    <3> DEFINE e == <<locks[s], nextRun[locks[s]]>>
    <3>1. \/ status' = status
          \/ status[e] = "none" /\ status' = [status EXCEPT ![e] = "PENDING"]
      BY <2>5 DEF Materialise
    <3> QED
      BY <3>1 DEF TypeOK
  <2>6. ASSUME NEW a \in Agent, LeaseJob(a) PROVE Stays
    BY <2>6 DEF LeaseJob, NextPending, TypeOK
  <2>7. ASSUME NEW a \in Agent, StartJob(a) \/ ReportJob(a) PROVE Stays
    BY <2>2, <2>7 DEF StartJob, ReportJob, TypeOK
  <2> QED
    BY <2>1, <2>3, <2>4, <2>5, <2>6, <2>7
       DEF Next, SchedulerStep, AgentStep, Tick, Initialise, FailInitialise, EndInitialise,
           FindDue, LockDue, EndCycle, SchedulerFails, DisablePolicy, EnablePolicy, UpdateSchedule, RenewalRefused,
           AgentStops, AgentGivesUp, LeaseExpires, ScannerEnds
<1> QED
  BY <1>1, ScanTypeCorrect, PTL DEF Spec, TerminalIsFinal

-----------------------------------------------------------------------------
(* The attempts *)

LEMMA HistoryWhereNothingIsCreated ==
  ASSUME HistoryIsPast,
         \A p \in Policy : nextRun'[p] \in {0, nextRun[p]},
         \A p \in Policy, o \in Instant : status'[<<p, o>>] # "none" => status[<<p, o>>] # "none"
  PROVE  HistoryIsPast'
  BY DEF HistoryIsPast

LEMMA HistoryOnMaterialise ==
  ASSUME TypeOK, SchedulesInvariant, HistoryIsPast, NEW s \in Scheduler, Materialise(s)
  PROVE  HistoryIsPast'
<1> DEFINE p == locks[s]
           e == <<p, nextRun[p]>>
<1>1. p \in Policy /\ Due(p)
  BY DEF Materialise, TypeOK, SchedulesInvariant, SchedulesHold
<1>2. nextRun[p] \in Instant /\ nextRun[p] \in 0..Horizon + 1 /\ e \in Execution
  BY <1>1 DEF Due, TypeOK, Execution, Instant
<1>3. CASE UNCHANGED <<nextRun, status>>
  BY <1>3, HistoryWhereNothingIsCreated
<1>4. CASE Advance(p) /\ (status' = status \/ status' = [status EXCEPT ![e] = "PENDING"])
  <2>1. /\ nextRun'[p] = Following(p, nextRun[p])
        /\ \A q \in Policy \ {p} : nextRun'[q] = nextRun[q]
    BY <1>1, <1>4 DEF Advance, TypeOK
  <2>2. nextRun[p] < nextRun'[p] /\ nextRun'[p] \in Nat
    BY <1>1, <1>2, <2>1, FollowingIsNext DEF Instant
  <2>3. \A q \in Policy, o \in Instant :
          status'[<<q, o>>] # "none" => status[<<q, o>>] # "none" \/ (q = p /\ o = nextRun[p])
    <3>1. \A d \in Execution \ {e} : status'[d] = status[d]
      BY <1>4 DEF TypeOK
    <3> QED
      BY <3>1 DEF Execution
  <2> SUFFICES ASSUME NEW q \in Policy, nextRun'[q] # 0, NEW o \in Instant, status'[<<q, o>>] # "none"
               PROVE  o < nextRun'[q]
    BY DEF HistoryIsPast
  <2>4. CASE q = p
    <3>1. o <= nextRun[p] /\ o \in Nat /\ nextRun[p] \in Nat
      BY <1>1, <1>2, <2>3, <2>4 DEF HistoryIsPast, Instant
    <3> QED
      BY <2>2, <2>4, <3>1
  <2>5. CASE q # p
    BY <2>1, <2>3, <2>5 DEF HistoryIsPast
  <2> QED
    BY <2>4, <2>5
<1> QED
  BY <1>3, <1>4 DEF Materialise

LEMMA HistoryOnInitialise ==
  ASSUME TypeOK, SchedulesInvariant, HistoryIsPast, NEW s \in Scheduler, Initialise(s)
  PROVE  HistoryIsPast'
<1>1. PICK p \in Policy : nextRun' = [nextRun EXCEPT ![p] = Following(p, now)]
  BY DEF Initialise, ToInitialise
<1>2. now \in Nat /\ now \in 0..Horizon + 1 /\ now <= Horizon
  BY HorizonAssumption DEF TypeOK
<1>3. now < Following(p, now) /\ Following(p, now) \in Nat
  BY <1>2, FollowingIsNext
<1>4. nextRun'[p] = Following(p, now) /\ \A q \in Policy \ {p} : nextRun'[q] = nextRun[q]
  BY <1>1 DEF TypeOK
<1>5. \A o \in Instant : status[<<p, o>>] # "none" => o <= now /\ o \in Nat
  <2>1. \A o \in Instant : <<p, o>> \in Execution /\ <<p, o>>[2] = o
    BY DEF Execution
  <2> QED
    BY <2>1 DEF SchedulesInvariant, SchedulesHold, Instant
<1>6. \A o \in Instant : status[<<p, o>>] # "none" => o < nextRun'[p]
  BY <1>2, <1>3, <1>4, <1>5
<1>7. UNCHANGED status
  BY DEF Initialise
<1> QED
  BY <1>4, <1>6, <1>7 DEF HistoryIsPast

(* The attempts of a policy are of ever later occurrences.                 *)
THEOREM HistoryAdvances == Spec => []HistoryIsPast
<1>1. Init => HistoryIsPast
  BY DEF Init, HistoryIsPast
<1>2. TypeOK /\ CoordinationInvariant /\ HistoryIsPast /\ [Next]_vars => HistoryIsPast'
  <2> SUFFICES ASSUME TypeOK, CoordinationInvariant, HistoryIsPast, [Next]_vars PROVE HistoryIsPast'
    OBVIOUS
  <2>1. SchedulesInvariant /\ LeasesInvariant
    BY DEF CoordinationInvariant, SchedulesInvariant, LeasesInvariant
  <2>2. CASE UNCHANGED <<nextRun, status>>
    BY <2>2, HistoryWhereNothingIsCreated
  <2>3. ASSUME OnlyProgress PROVE HistoryIsPast'
    <3>1. UNCHANGED nextRun /\ \A e \in Execution : status'[e] = "none" <=> status[e] = "none"
      BY <2>3 DEF OnlyProgress
    <3> QED
      BY <3>1, HistoryWhereNothingIsCreated DEF Execution
  <2>4. CASE Tick
    BY <2>2, <2>4 DEF Tick
  <2>5. ASSUME NEW s \in Scheduler, SchedulerStep(s) \/ SchedulerFails(s) PROVE HistoryIsPast'
    BY <2>1, <2>2, <2>5, HistoryOnInitialise, HistoryOnMaterialise
       DEF SchedulerStep, SchedulerFails, FailInitialise, EndInitialise, FindDue, LockDue, EndCycle
  <2>6. ASSUME NEW p \in Policy, DisablePolicy(p) \/ EnablePolicy(p) \/ UpdateSchedule(p) PROVE HistoryIsPast'
    <3>1. UNCHANGED status /\ nextRun' = [nextRun EXCEPT ![p] = 0]
      BY <2>6 DEF DisablePolicy, EnablePolicy, UpdateSchedule, Reschedule
    <3>2. \A q \in Policy : nextRun'[q] \in {0, nextRun[q]}
      BY <3>1 DEF TypeOK
    <3> QED
      BY <3>1, <3>2, HistoryWhereNothingIsCreated
  <2>7. CASE \/ ProcessLate \/ ExpireOverdueLeases
             \/ \E a \in Agent : AgentStep(a) \/ AgentStops(a) \/ AgentGivesUp(a)
             \/ \E e \in Execution : LeaseExpires(e) \/ ScannerEnds(e)
    BY <2>1, <2>3, <2>7, ProcessLateKeepsLeases, ExpireKeepsLeases, LeaseJobKeepsLeases,
       StartJobKeepsLeases, ReportJobKeepsLeases, StopsKeepsLeases, LeaseExpiresKeepsLeases,
       ScannerEndsKeepsLeases DEF AgentStep
  <2>8. CASE UNCHANGED vars
    BY <2>2, <2>8
  <2> QED
    BY <2>4, <2>5, <2>6, <2>7, <2>8 DEF Next
<1> QED
  BY <1>1, <1>2, ScanTypeCorrect, CoordinationHolds, PTL DEF Spec

LEMMA AttemptsAreExecutions == Attempts!Attempt = Execution
  BY DEF Attempts!Attempt, Execution

(* The service starts an execution for an agent that scans, or has gone.   *)
LEMMA StartImplements ==
  ASSUME TypeOK, LeasesInvariant, NEW e \in Execution, MarkStarted(e),
         IF HoldsLease(e, "LEASED")
         THEN \E s \in {"none", "running", "failed"} : scanner' = [scanner EXCEPT ![e] = s]
         ELSE scanner' = scanner
  PROVE  [Attempts!Next]_Attempts!attemptVars
<1>1. CASE HoldsLease(e, "LEASED")
  <2>1. status[e] = "LEASED" /\ scanner[e] = "none"
    BY <1>1 DEF HoldsLease, LeasesInvariant, ScannersBelong
  <2>2. Attempts!Begin(e)
    BY <1>1, <2>1 DEF MarkStarted, Attempts!Begin
  <2> QED
    BY <2>2, AttemptsAreExecutions DEF Attempts!Next
<1>2. CASE ~HoldsLease(e, "LEASED")
  BY <1>2 DEF MarkStarted, Attempts!attemptVars
<1> QED
  BY <1>1, <1>2

(* The service accepts a report of a scanner that has ended, or refuses it.*)
LEMMA CompletionImplements ==
  ASSUME TypeOK, NEW e \in Execution, MarkCompleted(e), scanner[e] \notin {"none", "running"}, scanner' = scanner
  PROVE  [Attempts!Next]_Attempts!attemptVars
<1>1. CASE HoldsLease(e, "RUNNING")
  <2>1. Attempts!Complete(e)
    BY <1>1 DEF HoldsLease, MarkCompleted, Attempts!Complete
  <2> QED
    BY <2>1, AttemptsAreExecutions DEF Attempts!Next
<1>2. CASE ~HoldsLease(e, "RUNNING")
  BY <1>2 DEF MarkCompleted, Attempts!attemptVars
<1> QED
  BY <1>1, <1>2

LEMMA MaterialiseImplements ==
  ASSUME TypeOK, SchedulesInvariant, HistoryIsPast, NEW s \in Scheduler, Materialise(s)
  PROVE  [Attempts!Next]_Attempts!attemptVars
<1> DEFINE p == locks[s]
           o == nextRun[p]
<1>1. p \in Policy /\ Due(p) /\ o \in Instant /\ o # 0
  BY DEF Materialise, TypeOK, SchedulesInvariant, SchedulesHold, Due, Instant
<1>2. UNCHANGED scanner
  BY DEF Materialise
<1>3. CASE UNCHANGED status
  BY <1>2, <1>3 DEF Attempts!attemptVars
<1>4. CASE IndexAdmits(p) /\ status' = [status EXCEPT ![<<p, o>>] = "PENDING"]
  <2>1. \A i \in Instant : status[<<p, i>>] # "none" => i < o
    BY <1>1 DEF HistoryIsPast
  <2>2. \A i \in Instant : status[<<p, i>>] \notin Attempts!Live
    BY <1>4 DEF IndexAdmits, ActiveOn, Active, Attempts!Live
  <2>3. Attempts!Create(p, o)
    BY <1>2, <1>4, <2>1, <2>2 DEF Attempts!Create
  <2> QED
    BY <1>1, <2>3 DEF Attempts!Next
<1> QED
  BY <1>3, <1>4 DEF Materialise

LEMMA SweepImplements ==
  ASSUME TypeOK, ExpireOverdueLeases PROVE [Attempts!Next]_Attempts!attemptVars
<1> DEFINE rows == {e \in Execution : Overdue(e)}
<1>1. rows # {} /\ rows \in SUBSET Attempts!Leased
  BY AttemptsAreExecutions DEF ExpireOverdueLeases, Overdue, Attempts!Leased
<1>2. status' = [e \in Execution |-> IF Overdue(e) THEN Swept(e) ELSE status[e]] /\ scanner' = scanner
  BY DEF ExpireOverdueLeases
<1>3. status' = [e \in Execution |-> IF e \notin rows THEN status[e]
                                     ELSE IF status[e] = "LEASED" THEN "EXPIRED" ELSE "FAILED"]
  BY <1>2 DEF Swept
<1>4. Attempts!Abandon(rows)
  BY <1>1, <1>2, <1>3, AttemptsAreExecutions DEF Attempts!Abandon
<1> QED
  BY <1>1, <1>4 DEF Attempts!Next

LEMMA AgentImplements ==
  ASSUME TypeOK, LeasesInvariant, NEW a \in Agent, AgentStep(a) \/ AgentStops(a) \/ AgentGivesUp(a)
  PROVE  [Attempts!Next]_Attempts!attemptVars
<1>1. CASE LeaseJob(a)
  <2>1. PICK e \in Execution : status[e] = "PENDING" /\ status' = [status EXCEPT ![e] = "LEASED"]
    BY <1>1 DEF LeaseJob, NextPending
  <2>2. Attempts!Lease(e)
    BY <1>1, <2>1 DEF LeaseJob, Attempts!Lease
  <2> QED
    BY <2>2, AttemptsAreExecutions DEF Attempts!Next
<1>2. CASE StartJob(a)
  <2>1. holds[a] \in Execution /\ MarkStarted(holds[a])
    BY <1>2 DEF StartJob, LeasesInvariant, AgentsHold, TypeOK
  <2>2. CASE HoldsLease(holds[a], "LEASED")
    BY <1>2, <2>1, <2>2, StartImplements DEF StartJob
  <2>3. CASE ~HoldsLease(holds[a], "LEASED")
    BY <1>2, <2>1, <2>3, StartImplements DEF StartJob
  <2> QED
    BY <2>2, <2>3
<1>3. CASE RenewalRefused(a) \/ AgentStops(a)
  <2>1. /\ scanner[holds[a]] = "running" /\ UNCHANGED status
        /\ \E left \in {"running", "killed"} : scanner' = [scanner EXCEPT ![holds[a]] = left]
    <3>1. CASE RenewalRefused(a)
      BY <3>1 DEF RenewalRefused, executionVars
    <3>2. CASE AgentStops(a)
      BY <3>2 DEF AgentStops, executionVars
    <3> QED
      BY <1>3, <3>1, <3>2
  <2>2. holds[a] \in Execution
    BY <1>3 DEF RenewalRefused, AgentStops, LeasesInvariant, AgentsHold, TypeOK
  <2>3. PICK left \in {"running", "killed"} : scanner' = [scanner EXCEPT ![holds[a]] = left]
    BY <2>1
  <2>4. CASE left = "running"
    BY <2>1, <2>2, <2>3, <2>4 DEF Attempts!attemptVars, TypeOK
  <2>5. CASE left = "killed"
    BY <2>1, <2>2, <2>3, <2>5, AttemptsAreExecutions DEF Attempts!Next, Attempts!EndScan
  <2> QED
    BY <2>4, <2>5
<1>4. CASE ReportJob(a)
  <2>1. /\ holds[a] \in Execution /\ MarkCompleted(holds[a]) /\ UNCHANGED scanner
        /\ scanner[holds[a]] \notin {"none", "running"}
    BY <1>4 DEF ReportJob, HasEnded, LeasesInvariant, AgentsHold, TypeOK
  <2> QED
    BY <2>1, CompletionImplements
<1>5. CASE AgentGivesUp(a)
  BY <1>5 DEF AgentGivesUp, Attempts!attemptVars
<1> QED
  BY <1>1, <1>2, <1>3, <1>4, <1>5 DEF AgentStep

LEMMA LateImplements ==
  ASSUME TypeOK, LeasesInvariant, ProcessLate PROVE [Attempts!Next]_Attempts!attemptVars
<1>1. PICK r \in late : IF r[1] = "start" THEN MarkStarted(r[2]) ELSE MarkCompleted(r[2])
  BY DEF ProcessLate
<1>2. r[2] \in Execution /\ r[1] \in {"start", "complete"} /\ UNCHANGED scanner
  BY DEF ProcessLate, TypeOK
<1>3. CASE r[1] = "start"
  <2>1. HoldsLease(r[2], "LEASED") => scanner[r[2]] = "none"
    BY <1>2 DEF HoldsLease, LeasesInvariant, ScannersBelong
  <2>2. scanner[r[2]] = "none" => scanner' = [scanner EXCEPT ![r[2]] = "none"]
    BY <1>2 DEF TypeOK
  <2> QED
    BY <1>1, <1>2, <1>3, <2>1, <2>2, StartImplements
<1>4. CASE r[1] = "complete"
  BY <1>1, <1>2, <1>4, CompletionImplements DEF LeasesInvariant, LateIsAbandoned
<1> QED
  BY <1>2, <1>3, <1>4

(* Schedulers with stale snapshots, agents that die, late requests and     *)
(* sweeps included, the executions are attempts as migration 018 documents *)
(* them.                                                                   *)
THEOREM AttemptsImplemented == Spec => ImplementsAttempts
<1>1. Init => Attempts!Init
  BY DEF Init, Attempts!Init, Attempts!Attempt, Execution
<1>2. TypeOK /\ CoordinationInvariant /\ HistoryIsPast /\ [Next]_vars => [Attempts!Next]_Attempts!attemptVars
  <2> SUFFICES ASSUME TypeOK, CoordinationInvariant, HistoryIsPast, [Next]_vars
               PROVE  [Attempts!Next]_Attempts!attemptVars
    OBVIOUS
  <2>1. SchedulesInvariant /\ LeasesInvariant
    BY DEF CoordinationInvariant, SchedulesInvariant, LeasesInvariant
  <2>2. CASE UNCHANGED <<status, scanner>>
    BY <2>2 DEF Attempts!attemptVars
  <2>3. CASE Tick \/ UNCHANGED vars
    BY <2>2, <2>3 DEF Tick
  <2>4. ASSUME NEW s \in Scheduler, SchedulerStep(s) \/ SchedulerFails(s)
        PROVE  [Attempts!Next]_Attempts!attemptVars
    BY <2>1, <2>2, <2>4, MaterialiseImplements
       DEF SchedulerStep, SchedulerFails, Initialise, FailInitialise, EndInitialise, FindDue,
           LockDue, EndCycle
  <2>5. ASSUME NEW p \in Policy, DisablePolicy(p) \/ EnablePolicy(p) \/ UpdateSchedule(p)
        PROVE  [Attempts!Next]_Attempts!attemptVars
    BY <2>2, <2>5 DEF DisablePolicy, EnablePolicy, UpdateSchedule
  <2>6. ASSUME NEW e \in Execution, LeaseExpires(e) \/ ScannerEnds(e)
        PROVE  [Attempts!Next]_Attempts!attemptVars
    <3>1. CASE LeaseExpires(e)
      BY <2>2, <3>1 DEF LeaseExpires
    <3>2. CASE ScannerEnds(e)
      <4>1. Attempts!EndScan(e)
        BY <3>2 DEF ScannerEnds, Attempts!EndScan
      <4> QED
        BY <4>1, AttemptsAreExecutions DEF Attempts!Next
    <3> QED
      BY <2>6, <3>1, <3>2
  <2> QED
    BY <2>1, <2>3, <2>4, <2>5, <2>6, LateImplements, SweepImplements, AgentImplements DEF Next
<1> QED
  BY <1>1, <1>2, ScanTypeCorrect, CoordinationHolds, HistoryAdvances, PTL
     DEF Spec, ImplementsAttempts, Attempts!Spec

=============================================================================
