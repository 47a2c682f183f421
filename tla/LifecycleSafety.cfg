SPECIFICATION Spec
CONSTANTS
  Reqs = {r1, r2}
  Actions = {"start", "stop", "restart", "kill", "console", "delete", "workflow"}
  Queued = TRUE
  EnvEvents = {"exit", "stop"}
  RecIds = {e1, e2}
  RecoveryCap = 2
  MaxFails = 1
  MaxAborts = 1
  Worker = Worker
  None = None
SYMMETRY Symmetry
INVARIANTS
  AtMostOneRecovery
  StopCancelsRecovery
  StopKeepsOffline
  RunningRequestKept
PROPERTIES
  CancelledRecoveryNeverBegins
