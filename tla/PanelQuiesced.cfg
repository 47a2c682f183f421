SPECIFICATION Spec
CONSTANTS
  Requests = {r1}
  Servers = {s1}
  Overlaps = FALSE
  MaxFaults = 0
INVARIANTS
  Quiesced
CHECK_DEADLOCK FALSE
