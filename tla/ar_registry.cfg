SPECIFICATION MCSpec
CONSTANTS
  NoRow = NoRow
  Nothing = Nothing
  Idle = Idle
  Asset = {a1, a2}
  Destination = {d1, d2}
  MaxEvents = 4
  Resolver = {w1, w2}
  Observation <- Observed
SYMMETRY Symmetry
INVARIANTS AssetTypeOK OneActiveTarget ActiveTargetIsAuthorised AuditExplains StableIdentity
PROPERTY StartsOnlyWhenReady
CHECK_DEADLOCK FALSE
