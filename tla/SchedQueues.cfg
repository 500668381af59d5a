SPECIFICATION Spec
CONSTANTS
  NPROC = 3
  NInit = 2
  NCPU = 2
  NoProc = NoProc
  MAXTICKET = 200
  Portions = {20, 60}
  Quantum <- MixedQuanta
  Allotment <- TickAllotments
  BoostTicks = 1
  StrideQuantum = 0
  MaxTick = 3
  MaxPass = 3
  PassLimit = 3
  Env = {"fork", "yield"}
INVARIANTS
  QueueConsistent
  ShareConserved
  EntryOwned
CHECK_DEADLOCK FALSE
