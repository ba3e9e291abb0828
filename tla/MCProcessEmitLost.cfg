CONSTANTS
  Components = {"event_loop"}
  Threads = {t1, t2}
  Nobody = Nobody
  Workers = {w1, w2, w3}
  First = w1
  PoolWorks = {x1, x2, x3}
  NoWorker = Nobody
  NoWork = Nobody
  MaxWorkers = 3
  Bound = TRUE
  Handshakes = {"ok", "again", "fail"}
  Works = {x1, x2, x3}
  Flushers = {t1, t2}
  NoThread = Nobody
  SeqRange = 8
  Ordered = TRUE
  MaxInserts = 5
  LoopTimers = {"x", "y"}
  LoopClients = {1, 2}
  NoOne = "noone"
  Expires = {1, 4}
  PollInterval = 2
  MaxClock = 6
  MaxCount = 1
  RcuSlots = {0, 1}
  Heads = {"r1", "r2", "r3"}
SPECIFICATION MCSpec
SYMMETRY Symmetry
INVARIANT EmittedIsSeen
