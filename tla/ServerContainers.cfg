SPECIFICATION Spec
CONSTANTS
  Servers = {s1, s2}
  Existing = {s2}
  FirstPorts <- PreferredPort
  Requested <- KindsBeside
  Requests = {r1, r2}
  HostPorts = {1, 2}
  Wanted <- TemplatePorts
  Tries = 3
  MaxStarts = 1
  MaxFaults = 1
  None = None
SYMMETRY Symmetry
INVARIANTS
  RowMatchesContainer
  KeepsContainer
  NothingLeft
  PortsExclusive
PROPERTIES
  RunningKept
  CommitsWhatWasAsked
CHECK_DEADLOCK FALSE
