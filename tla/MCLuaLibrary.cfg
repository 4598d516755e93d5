SPECIFICATION LibrarySpec
CONSTANTS
  MAXINDEXRK = 3
  MAXARG_Bx = 5
  MAXARG_C = 2
  LFIELDS_PER_FLUSH = 2
  STACKSIZE = 90
  MAXTAGLOOP = 5
  MAXSTEPS = 400
  Case <- CaseOf
  Chosen <- AllPrograms
  Cases <- CasesOf
  Call <- CallOf
  PATIENCE = 400
  MAXSORT = 6
  RANKS = {1, 2, 3}
  MAXRESULTS = 9
  LUA_NBITS = 4
  UBITS = 6
  INTBITS = 8
  MAXLINES = 100
  MAXCCALLS = 20
  LUA_MAXCAPTURES = 2
  MAXSIZE = 100
  BYTES = 8
  SZDUMP = 2
  SZSIZE = 3
  SZWORD = 2
  NB = 2
  SZINT = 3
  MAXINTSIZE = 5
  NATIVE <- MachineTypes
  LUAL_BUFFERSIZE = 2
  MAXRN = 4
  BUFSIZ = 2
INVARIANTS
  CompiledRunsAsWritten
  RefusesOnlyIllegalGotos
  CodeIsWellFormed
  OpenUpvaluesAreLive
  AbsencesAreTrue
  LibraryAnswersAsMeant
  RoundTrips
  SortsSafely
CHECK_DEADLOCK FALSE
