SPECIFICATION MCSpec
CONSTANTS
  Policy = {p1, p2}
  Unresolvable = {p2}
  Schedule <- AllSchedules
  Invalid <- UnknownZones
  Horizon = 2
  Scheduler = {s1, s2}
  BatchSize = 2
  Agent = {a1, a2}
  NoPolicy = NoPolicy
  NoExecution = NoExecution
  Sweeps = TRUE
  MaxTroubles = 2
  MaxChanges = 2
  MaxEvents = 2
  other = p2
  secondScheduler = s2
  secondAgent = a2
INVARIANTS TypeOK OneActivePerPolicy ActiveIsPast NoOccurrenceSkipped OnlyOccurrencesDue StatusMatchesScanner ScannersOverlapOnlyOverdue
PROPERTIES TerminalIsFinal ImplementsAttempts SchedulingMovesOn
CHECK_DEADLOCK FALSE
