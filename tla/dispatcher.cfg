SPECIFICATION FairSpec
CONSTANTS
  w1 = w1  w2 = w2  x1 = x1
  t1 = t1  t2 = t2  t3 = t3
  main_thread = main_thread  timer_thread = timer_thread  none = none
  Main = main_thread
  Timer = timer_thread
  NoTask = none
  Modes <- EveryMode
  Workers <- TwoWorkers
  External <- NoThreads
  Tasks <- ThreeTasks
  PriorityOf <- ThreePriorities
  Timers <- LastTask
  Goal <- LastTask
INVARIANTS InflightExact IdleMeansQuiet
PROPERTIES EveryTaskRuns CallReturns
CHECK_DEADLOCK FALSE
