SPECIFICATION LifeSpec
CONSTANTS
  Cell = {c1, c2, c3, c4}
  NULL = NULL
  MAX_BUF_Q = 2
  INT_MAX = 8
  MaxPush = 10
SYMMETRY CellSymmetry
INVARIANTS
  NoNullQueued
CHECK_DEADLOCK FALSE
