CONSTANTS
  NULL = NULL
  mainthread = mainthread
  eph1 = eph1
  eph2 = eph2
  weak1 = weak1
  user1 = user1
  user2 = user2
  table1 = table1
  Obj <- Objects
  Kind <- Kinds
  StackSize = 2
  SWEEPMAX = 1
  MaxNested = 1
SPECIFICATION MCSpec
PROPERTY
  CollectsOnlyInaccessible
CHECK_DEADLOCK FALSE
