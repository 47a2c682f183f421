SPECIFICATION FairSpec
CONSTANTS
  Requests = {r1, r2}
  Servers = {s1}
  Overlaps = FALSE
  MaxFaults = 1
INVARIANTS
  TruthfulStatus
  RecoverySnapshot
PROPERTIES
  ReplacementSpec
  Resumed
  UpdateSettles
CHECK_DEADLOCK FALSE
