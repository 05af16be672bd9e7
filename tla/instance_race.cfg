SPECIFICATION InstanceSpec
CONSTANTS
  p1 = p1  p2 = p2  p3 = p3  none = none
  NoSocket = none
  Processes <- TwoProcesses
  Platforms <- UnixOnly
  Overlap = TRUE
  Faults <- NoFaults
  Backlog = 2
INVARIANTS AtMostOneInstance
