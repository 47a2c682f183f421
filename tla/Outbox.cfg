SPECIFICATION FairSpec
CONSTANTS
  Events = {1, 2, 3}
  Workers = {w1, w2}
  Cancellable = {3}
  Poison = {1, 2}
  Lease = 2
  MaxShift = 3
  MaxBackoff = 5
  MaxRetryAfter = 5
  RetryAfters = {0}
  MaxHandle = 3
  MaxFails = 0
  MaxCrashes = 1
  None = None
INVARIANTS
  LeaseHeld
PROPERTIES
  OwnerReleases
  RetiredForGood
  QueueSpec
  NoStarvation
