SPECIFICATION FairInstanceSpec
CONSTANTS
  p1 = p1  p2 = p2  p3 = p3  none = none
  NoSocket = none
  Processes <- ThreeProcesses
  Platforms <- EveryPlatform
  Overlap = FALSE
  Faults <- MostFaults
  Backlog = 2
INVARIANTS AtMostOneInstance HolderIsReachable
PROPERTIES NotLockedOut StartsAndActivationsEnd
