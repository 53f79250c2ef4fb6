SPECIFICATION FairSpec
CONSTANTS
  Threads = {t1, t2, t3}
  SyncCallers = {t3}
  Addrs = {a1, a2}
  Recycle = FALSE
  MaxSignals = 2
  WorkerMayDie = TRUE
  NoThread = NoThread
  NoAddr = NoAddr
CHECK_DEADLOCK FALSE
PROPERTY ParksEnd
