SPECIFICATION FairSpec
CONSTANTS
  Procs = {p1, p2, p3}
  Syncers = {}
  Blocks = {b1, b2, b3, b4}
  NoBlock = NoBlock
  Value = {v1}
  MAXOPBLOCKS = 3
  OpBlocks = 1
  LOGSIZE = 6
  NLog = 6
INVARIANTS
  ReservationKept
  NoPanic
PROPERTY
  WaitsOnlyForOthers
