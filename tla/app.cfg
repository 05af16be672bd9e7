SPECIFICATION FairSpec
CONSTANTS
  e1 = e1
  e2 = e2
  Entities <- TwoEntities
  MaxSubscribers = 2
  MaxDepth = 3
  MaxStack = 6
  MaxOps = 6
INVARIANTS
  PendingMatchesQueue
  FlushNotReentered
  ActiveObserverTold
  ReleasedHasNoObservers
  ShutdownFlushesAll
PROPERTY
  FlushTerminates
CHECK_DEADLOCK FALSE
