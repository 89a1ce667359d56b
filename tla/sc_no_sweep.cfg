SPECIFICATION AttendedSpec
CONSTANTS
  Policy = {p1}
  Unresolvable = {}
  Schedule <- TwoSchedules
  Invalid <- UnknownZones
  Horizon = 2
  Scheduler = {s1}
  BatchSize = 2
  Agent = {a1}
  NoPolicy = NoPolicy
  NoExecution = NoExecution
  Sweeps = FALSE
  MaxTroubles = 1
  MaxChanges = 0
  MaxEvents = 1
  other = p2
  secondScheduler = s2
  secondAgent = a2
PROPERTIES DueIsMaterialised
CHECK_DEADLOCK FALSE
