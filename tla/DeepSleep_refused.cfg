SPECIFICATION SleepSpec
CONSTANTS
  Threads = {t1, t2}
  Polls = 2
INVARIANT NoRefusedSuspend
