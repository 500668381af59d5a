SPECIFICATION Spec
CONSTANTS
  Procs = {p1, p2}
  Files = {f1, f2}
  Fds = {d1, d2}
  W = 2
  NDIRECT = 1
  NBLOCKS = 43
  MAXOPBLOCKS = 10
  WriteSizes = {3, 17}
  PwriteSizes = {4, 8}
  Offsets = {13}
  ReadSizes = {30}
  MaxCalls = 3
SYMMETRY Symmetric
CHECK_DEADLOCK FALSE
INVARIANTS
  ReadsBack
  BitmapExact
  WriteLands
