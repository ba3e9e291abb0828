CONSTANTS
  Components = {"thread", "server", "pool"}
  DescriptorsRunOut = TRUE
  Wakers = {"k1", "k2"}
  Passive = {"c1", "c2"}
  Active = {"a1"}
  Listener = "lsn"
  MaxXprts = 3
  MaxAccepts = 2
  Workers = {w1, w2, w3}
  PoolWorks = {x1, x2}
  NoWorker = NoWorker
  NoWork = NoWork
  First = w1
  MaxWorkers = 3
  Bound = FALSE
SPECIFICATION Spec
INVARIANTS WakeupMeansRun ServerAccounts PoolAccounts
PROPERTIES StopEnds DestroyEnds PoolProgresses
CHECK_DEADLOCK FALSE
