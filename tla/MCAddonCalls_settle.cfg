SPECIFICATION Spec
CONSTANTS
  Stages = {"tsfn", "pool", "tokio"}
  Threads = {t1}
  Main = Main
  NoCall = NoCall
  MaxQueue = 1
  MaxPending = 1
  Strategy = "CalleeHandled"
  CreateMayFail = TRUE
  EnvMayClose = TRUE
  Tasks = {w1, w2}
  EarlyAbort = TRUE
  CallbacksAbort = TRUE
  Envs = {e1, e2}
  Futures = {f1}
  WasmBuilds = {TRUE, FALSE}
CHECK_DEADLOCK FALSE
INVARIANT TsfnSound
INVARIANT TasksSound
INVARIANT FuturesSound
PROPERTY NoCallbackAfterAbort
PROPERTY AnswersArrive
