----------------------------- MODULE CronSchedule -----------------------------
(***************************************************************************)
(* scan_coordination/scheduling.py: when a cron expression in a time zone  *)
(* is next due.  A schedule is a record of                                 *)
(*   slots   the wall times the expression matches (none: MANUAL)          *)
(*   wall    the zone: what its clocks show at each instant                *)
(* Clocks that go forward show some wall times never; clocks that go back  *)
(* show some twice.  croniter walks the slots in the order of wall time,   *)
(* and each is turned into an instant.                                     *)
(***************************************************************************)
EXTENDS Naturals

CONSTANT Horizon  \* the instants modelled are 1..Horizon

ASSUME HorizonAssumption == Horizon \in Nat

Instant == 1..Horizon

Moment == 0..Horizon

\* After the horizon nothing is due.
Never == Horizon + 1

\* Clocks go back only over wall times they have shown already.
Zone(wall) ==
  \A r, t \in Moment : r < t /\ wall[t] <= wall[r] => \E s \in 0..r : wall[s] = wall[t]

Cron == {c \in [slots : SUBSET Nat, wall : [Moment -> Nat]] : Zone(c.wall)}

First(moments) ==
  IF moments = {} THEN Never ELSE CHOOSE t \in moments : \A i \in moments : t <= i

\* Mutant: the second of the two folds is taken.
MutantResolve(c, w) ==
  LET shown == {t \in Moment : c.wall[t] = w}
  IN  IF shown = {} THEN Never ELSE CHOOSE t \in shown : \A i \in shown : i <= t

\* _resolve_local_wall_time: of the two folds of an ambiguous wall time the first; a wall
\* time that does not exist (or is not shown by the horizon) has no instant.
Resolve(c, w) == First({t \in Moment : c.wall[t] = w})

\* next_cron_occurrence: the first slot later than what the clock shows at t that has an
\* instant later than t.
NextCronOccurrence(c, t) ==
  LET candidates == {w \in c.slots : w > c.wall[t] /\ Resolve(c, w) \in t + 1..Horizon}
  IN  IF candidates = {} THEN Never
      ELSE Resolve(c, CHOOSE w \in candidates : \A v \in candidates : w <= v)

-----------------------------------------------------------------------------
\* What the documentation promises: "nonexistent spring-forward wall times are skipped;
\* ambiguous fall-back wall times occur once, using the first occurrence".
Occurrences(c) ==
  {o \in Instant : c.wall[o] \in c.slots /\ \A s \in Moment : s < o => c.wall[s] # c.wall[o]}
=============================================================================
