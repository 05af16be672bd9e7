SPECIFICATION FairFrameSpec
CONSTANTS
  Roles <- EveryRole
  MaxFaults = 2
  MaxHides = 2
INVARIANT WakeArmedOrRemapFault
PROPERTIES
  EverythingIsPresented
  WaitersAreServed
