SPECIFICATION FairSpec
CONSTANTS
  Reqs = {r1}
  Actions = {"start", "stop", "restart", "kill", "console", "delete", "workflow"}
  Queued = TRUE
  EnvEvents = {"exit", "stop", "pause", "remove"}
  RecIds = {e1}
  RecoveryCap = 2
  MaxFails = 1
  MaxAborts = 1
  Worker = Worker
  None = None
PROPERTIES
  RecoveryNeverGivesUp
  StatusConverges
  OperationsFinish
