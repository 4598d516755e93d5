CONSTANTS
  NULL = NULL
  Cell = {c1, c2, c3, c4}
  MAX_BUF_Q = 0
  INT_MAX = 1
  Producer = {main}
  Consumer = {io, worker}
  Message = {m1, m2}
SPECIFICATION FairSpec
PROPERTIES
  ImplementsAtomicCalls
  KeepsDelivering
