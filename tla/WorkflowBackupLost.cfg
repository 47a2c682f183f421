SPECIFICATION Spec
CONSTANTS
  Jobs = {"reinstall"}
  Reqs = {}
  Actions = {}
  BackupAttempts = 2
  MaxFails = 0
  MaxStoreFails = 0
  MaxCrashes = 1
  None = None
INVARIANTS
  BackupBeforeChange
