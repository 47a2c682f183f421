SPECIFICATION Spec
CONSTANTS
  Jobs = {"restore", "reinstall"}
  Reqs = {r1}
  Actions = {"stop", "kill"}
  BackupAttempts = 1
  MaxFails = 1
  MaxStoreFails = 1
  MaxCrashes = 1
  None = None
INVARIANTS
  AllOrNothing
  ReturnedToService
  VolumeWhole
  BackupUntilRedone
