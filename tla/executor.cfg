SPECIFICATION LiveExecutorSpec
CONSTANTS
  MainThread = main
  Timer = timer
  w1 = w1
  w2 = w2
  Workers <- MCWorkers
  Pools <- MCPools
  m1 = m1
  b1 = b1
  k1 = k1
  Tasks <- MCTasks
  Homes <- MCHomes
  Roots <- MCRoots
  Endless <- MCEndless
  BlockingHomes <- AllHomes
  NoTask = NoTask
  NoThread = NoThread
INVARIANTS ScopeOutlivesFutures LocalFutureStaysOnMain
PROPERTIES BlockReturns CancelledTaskEnds
CHECK_DEADLOCK FALSE
