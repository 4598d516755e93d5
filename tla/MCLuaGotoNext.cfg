INIT Init
NEXT Next
CONSTANTS
  MAXINDEXRK = 255
  MAXARG_Bx = 1000
  MAXARG_C = 511
  LFIELDS_PER_FLUSH = 50
  STACKSIZE = 90
  MAXTAGLOOP = 5
  MAXSTEPS = 400
  Case <- CaseOf
  Chosen <- GotoNext
INVARIANTS
  CompiledRunsAsWritten
CHECK_DEADLOCK FALSE
