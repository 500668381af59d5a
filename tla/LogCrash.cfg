SPECIFICATION Spec
CONSTANTS
  Procs = {p1, p2}
  Syncers = {p1, p2}
  Blocks = {b1, b2, b3}
  NoBlock = NoBlock
  Value = {v1, v2}
  MAXOPBLOCKS = 2
  OpBlocks = 2
  LOGSIZE = 4
  NLog = 4
SYMMETRY LogSymmetry
ACTION_CONSTRAINT Undisturbed
PROPERTIES
  CrashAtomic
  SyncDurable
