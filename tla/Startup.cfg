CONSTANTS
  NULL = NULL
  Proc = {p1, p2}
  PORT = 7777
  MaxStarts = 2
SPECIFICATION FairSpec
INVARIANTS
  SurvivesFailures
  OneServesPort
PROPERTIES
  Settles
CHECK_DEADLOCK FALSE
