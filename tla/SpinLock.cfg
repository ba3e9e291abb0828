CONSTANTS
  Threads = {t1, t2, t3}
  MaxContends = 2
SPECIFICATION FairSpec
PROPERTIES ImplementsLock PendingIsServed
