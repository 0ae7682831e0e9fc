\* Two threads, two callers, three tasks and a queue of two: wrap-around and full queue.
SPECIFICATION FairSpec
CONSTANTS
  c1 = c1
  c2 = c2
  d1 = d1
  d2 = d2
  t1 = t1
  t2 = t2
  t3 = t3
  Nobody = Nobody
  NoTask = NoTask
  Clients <- TwoClients
  Destroyers <- TwoDestroyers
  Tasks <- ThreeTasks
  MaxThreads = 2
  QueueSize = 2
INVARIANTS TypeOK RingConsistent GracefulDrains FreedPoolIsQuiet
PROPERTIES IsTaskQueue AcceptedRuns DestroyOnceEnds
CHECK_DEADLOCK FALSE
