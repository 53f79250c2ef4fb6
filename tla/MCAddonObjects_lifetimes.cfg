SPECIFICATION Spec
CONSTANTS
  Parts = {"buffers", "classes", "factories", "env", "iteration", "numbers"}
  Envs = {e1, e2}
  Workers = {w1}
  Buffers = {b1}
  NoEnv = NoEnv
  JS = JS
  GcMayFail = TRUE
  MaxMade = 2
  MaxRefs = 2
  MaxDepth = 3
  FinalizeFails = TRUE
  Objects = {o1, o2}
  Natives = {n1, n2}
  Types = {T1, T2}
  Refs = {r1}
  MaxCount = 2
  MaxThings = 3
  None = None
  Generators = {g1, g2}
  MaxItems = 2
  Base = 4
  MaxMagnitude = 80
  OverflowChecks = TRUE
CHECK_DEADLOCK FALSE
INVARIANT BuffersSound
INVARIANT NothingForgotten
INVARIANT InstancesSound
INVARIANT EnvObjectsSound
INVARIANT NumbersSurvive
PROPERTY CollectionGoesOn
PROPERTY LaterCallsAgree
