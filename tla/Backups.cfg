SPECIFICATION FairSpec
CONSTANTS
  Backups = {b1}
  Dests = {d1}
  Deleters = {x1}
  BackupAttempts = 2
  DeliveryAttempts = 2
  MaxRetries = 1
  MaxFaults = 2
  Worker = Worker
  None = None
INVARIANTS
  ReadyHasArchive
PROPERTIES
  LockedKept
  BackupSettles
  DeliverySettles
  ExpiredRemoved
CHECK_DEADLOCK FALSE
