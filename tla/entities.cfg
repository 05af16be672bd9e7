SPECIFICATION FairSpec
CONSTANTS
  main = main
  background = background
  e1 = e1
  e2 = e2
  h1 = h1
  h2 = h2
  h3 = h3
  Threads <- TwoThreads
  Main = main
  Entities <- TwoEntities
  Handles <- ThreeHandles
  NoEntity = none
INVARIANT
  HandleKeepsEntity
PROPERTIES
  ImplementsEntityLife
  UnreferencedIsReleased
CHECK_DEADLOCK FALSE
