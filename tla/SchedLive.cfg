SPECIFICATION FairSpec
CONSTANTS
  NPROC = 3
  NInit = 3
  NCPU = 1
  NoProc = NoProc
  MAXTICKET = 200
  Portions = {}
  Quantum <- Quanta
  Allotment <- ShortAllotments
  BoostTicks = 2
  StrideQuantum = 1
  MaxTick = 7
  MaxPass = 20
  PassLimit = 20
  Env = {"sleep"}
PROPERTIES
  NoStarvation
