SPECIFICATION Spec
CONSTANTS
  Requests = {r1, r2}
  Servers = {s1}
  Overlaps = TRUE
  MaxFaults = 0
INVARIANTS
  OneUpdate
CHECK_DEADLOCK FALSE
