SPECIFICATION Spec
CONSTANTS
  Threads = {t1}
  SyncCallers = {}
  Addrs = {a1}
  Recycle = TRUE
  MaxSignals = 2
  WorkerMayDie = FALSE
  NoThread = NoThread
  NoAddr = NoAddr
CHECK_DEADLOCK FALSE
INVARIANT ServesLiveChannelsOnly
