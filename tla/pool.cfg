\* Two workers, two producers and a queue of two slots, which four tasks fill twice.
\* No wake-up is lost: work is done, producers are answered, close() returns.
SPECIFICATION FairSpec
CONSTANTS
  w1 = w1
  w2 = w2
  p1 = p1
  p2 = p2
  t1 = t1
  t2 = t2
  t3 = t3
  t4 = t4
  NoTask = NoTask
  Capacity = 2
  Workers <- TwoWorkers
  Producers <- TwoProducers
  Tasks <- FourTasks
INVARIANTS
  TasksAreKept
PROPERTIES
  PoolIsExecutor
  AcceptedTaskRuns
  CallsReturn
CHECK_DEADLOCK FALSE
