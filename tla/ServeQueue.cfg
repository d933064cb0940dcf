SPECIFICATION FairSpec
CONSTANTS
  w1 = w1
  w2 = w2
  t1 = t1
  t2 = t2
  Workers = {w1, w2}
  Tasks = {t1, t2}
  NoWorker = NoWorker
  NoResult = NoResult
  NoTask = NoTask
  LeaseSeconds <- MCSameLease
  Handles <- MCHandles
  Reliable = {w1}
  MaxTime = 3
  Horizon = 1
INVARIANTS TypeOK LeaseExclusive HandedInOrder
PROPERTIES ImplementsBacklog EventuallyDrained
