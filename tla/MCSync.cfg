CONSTANTS
  Components = {"rwsem", "rwlock", "recursive", "completion", "seqlock", "uref", "wait_bit"}
  Threads = {t1, t2, t3, t4}
  Spinners = {t1, t2, t3}
  NoSpinner = NoThread
  Lockers = {t1, t2, t3, t4}
  NoLocker = NoThread
  MaxDepth = 3
  Waiters = {t1, t2, t3}
  Timeouts = TRUE
  All = 3
  MaxDone = 4
  SeqWriters = {"w1", "w2"}
  SeqReaders = {"r1"}
  NoWriter = "none"
  SeqModulus = 8
  MaxWrites = 2
  RefUsers = {t1, t2, t3}
  NobodyRef = NoThread
  BitWaiters = {t1, t2, t3}
  PageBits = {1, 2}
SPECIFICATION MCSpec
INVARIANTS RwSemQueue RecursionIsCounted ReadIsConsistent NeverResurrected
INVARIANTS SleepersHaveTaker SleeperHasWaker
PROPERTIES ImplementsRwLock SomebodyGetsIn ImplementsQRwLock WaitingWriterGetsIn
