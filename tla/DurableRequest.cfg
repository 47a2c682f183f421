SPECIFICATION Spec
CONSTANTS
  Reqs = {r1, r2}
  Actions = {"start", "workflow"}
  Queued = FALSE
  EnvEvents = {}
  RecIds = {e1}
  RecoveryCap = 2
  MaxFails = 0
  MaxAborts = 0
  Worker = Worker
  None = None
INVARIANTS
  DurableRequest
