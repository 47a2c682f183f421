SPECIFICATION Spec
CONSTANTS
  Requests = {r1, r2, r3}
  Deleting = TRUE
  MaxFaults = 2
  None = None
SYMMETRY Symmetry
INVARIANTS
  ReadyUsable
  HostFollowsRows
  DeletedServerHasNoHost
CHECK_DEADLOCK FALSE
