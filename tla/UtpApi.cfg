SPECIFICATION FairSpec
CONSTANTS
  Conns = {c1}
  Threads = {t1, t2}
  NoConn = none
  Calls = {"recv", "connect", "accept", "close", "shutdown", "recv_from"}
  BACKLOG = 1
  NON_UTP_BACKLOG = 1
  MaxErrors = 2
  MaxBuf = 1
INVARIANTS NoLostWakeup NoSelfDeadlock
PROPERTIES CloseReleases TimedReturns
