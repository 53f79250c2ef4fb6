SPECIFICATION Spec
CONSTANTS
  Sides = {"sockets"}
  Procs = {p1}
  NoProc = NoProc
  WaitedFor = {p1}
  MaxOut = 1
  Listeners = {l1}
  Conns = {c1}
  NoConn = NoConn
  NoListener = NoListener
  MaxChunks = 1
CHECK_DEADLOCK FALSE
INVARIANT WritesPrecedeClose
