SPECIFICATION FairSpec
CONSTANTS
  Chains <- MCChains
  Entered = {"short", "backup", "chain"}
  Runs = {r1, r2}
  Users = {"stop"}
  MaxEdits = 1
  MaxFaults = 1
  None = None
INVARIANTS
  NoOverlap
PROPERTIES
  RunFinishes
  KeepsRunning
CHECK_DEADLOCK FALSE
