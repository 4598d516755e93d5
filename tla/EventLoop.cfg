SPECIFICATION FairLoopSpec
CONSTANTS
  Conn = {c1, c2}
  LSFD = LSFD
  Node = {n1, n2}
  listennode = listennode
  NULL = NULL
  BadSession = BadSession
  EVENTS = 1
  BUF_SIZE = 1
  RCVBUF = 1
  FD_LIMIT = 2
  QLEN = 2
INVARIANTS
  AcceptSingleFlight
  IoNeverBlocks
  NodeMatchesSession
PROPERTIES
  AcceptsWaiting
  ReadsInput
CHECK_DEADLOCK FALSE
