SPECIFICATION FairSpec
CONSTANTS
  Sides = {"processes", "sockets"}
  Procs = {p1, p2}
  NoProc = NoProc
  WaitedFor = {p1}
  MaxOut = 1
  Listeners = {l1}
  Conns = {c1}
  NoConn = NoConn
  NoListener = NoListener
  MaxChunks = 2
CHECK_DEADLOCK FALSE
INVARIANT RegistriesAgree
INVARIANT OutputPrecedesExit
INVARIANT WaitSeesExit
PROPERTY KillsMissOnlySpawns
INVARIANT SocketTypeOK
INVARIANT InboundComplete
INVARIANT LostWritesWereOvertaken
INVARIANT NoForgottenSocket
PROPERTY WaitReturns
PROPERTY DropReleases
