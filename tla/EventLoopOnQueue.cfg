SPECIFICATION QueueLoopSpec
CONSTANTS
  Conn = {c1, c2}
  LSFD = LSFD
  Node = {n1, n2}
  listennode = listennode
  NULL = NULL
  BadSession = BadSession
  EVENTS = 2
  BUF_SIZE = 1
  RCVBUF = 1
  FD_LIMIT = 1
  Cell = {q1, q2, q3}
  MAX_BUF_Q = 1
  INT_MAX = 2
SYMMETRY Symmetry
PROPERTIES
  ImplementsEventLoop
CHECK_DEADLOCK FALSE
