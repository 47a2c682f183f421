SPECIFICATION Spec
CONSTANTS
  Servers = {s1}
  Existing = {s1}
  FirstPorts <- OwnPorts
  Requested <- EveryKind
  Requests = {r1}
  HostPorts = {1}
  Wanted <- TemplatePorts
  Tries = 1
  MaxStarts = 1
  MaxFaults = 0
  None = None
INVARIANT VariablesInContainer
CHECK_DEADLOCK FALSE
