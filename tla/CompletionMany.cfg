CONSTANTS
  Waiters = {w1, w2}
  Timeouts = FALSE
  All = 3
  MaxDone = 4
SPECIFICATION CplFairSpec
PROPERTIES CompletionIsTaken
