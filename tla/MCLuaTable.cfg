CONSTANTS
  NULL = NULL
  Ints = {1, 2, 3}
  Floats = {3}
  Strings = {0, 4, 8}
  MAXABITS = 4
  MAX_INT = 2
SPECIFICATION MCSpec
INVARIANTS
  FindsWhatWasStored
  RehashMakesRoom
  LengthIsBoundary
  ArrayMoreThanHalfUsed
PROPERTIES
  TraversalComplete
