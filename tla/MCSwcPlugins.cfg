SPECIFICATION SwcPluginsSpec
CONSTANTS
  Threads = {t1, t2}
  SyncCallers = {}
  Addrs = {a1, a2}
  Recycle = TRUE
  MaxSignals = 2
  WorkerMayDie = FALSE
  NoThread = NoThread
  NoAddr = NoAddr
  Views = {"bridge", "compile", "comments", "caches"}
  Depth = 3
  Absent = Absent
  RcFiles <- SomeRcs
  Compilations <- SomeCompilations
  MaxPos = 3
  MaxSpans = 3
  MaxComments = 3
  Compilers = {c1, c2}
  NoJob = NoJob
  Jobs <- SomeJobs
  Environs <- SomeEnvirons
CHECK_DEADLOCK FALSE
INVARIANT TypeOK
INVARIANT StrictAlternation
INVARIANT AnswersAreEarned
INVARIANT WorkerSeesEveryHandOff
PROPERTY ImplementsCall
INVARIANT ConfigFits
INVARIANT ScriptStaysScript
INVARIANT PassesFit
INVARIANT LossIsTold
INVARIANT CommentsKept
INVARIANT SharedFits
SYMMETRY Symmetry
