SPECIFICATION FairSleep
CONSTANTS
  Threads = {t1, t2}
  Polls = 2
INVARIANTS LossHasCause
PROPERTIES LoopSuspends
