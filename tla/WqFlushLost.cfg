SPECIFICATION FairSpec
CONSTANTS
  Works = {x1, x2, x3}
  Flushers = {f1}
  NoThread = NoThread
  SeqRange = 8
  MaxInserts = 3
  Ordered = TRUE
PROPERTIES FlushReturns
CHECK_DEADLOCK FALSE
