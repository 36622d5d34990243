SPECIFICATION Spec
CONSTANTS
  Conns = {c1, c2}
  Threads = {t1, t2}
  NoConn = none
  Calls = {"send", "accept", "connect", "shutdown"}
  BACKLOG = 1
  NON_UTP_BACKLOG = 0
  MaxErrors = 1
  MaxBuf = 0
SYMMETRY Symmetry
INVARIANTS NoForgottenConn
