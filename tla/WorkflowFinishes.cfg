SPECIFICATION FairSpec
CONSTANTS
  Jobs = {"restore", "rebase"}
  Reqs = {}
  Actions = {}
  BackupAttempts = 2
  MaxFails = 1
  MaxStoreFails = 1
  MaxCrashes = 1
  None = None
PROPERTIES
  WorkflowFinishes
