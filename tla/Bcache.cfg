SPECIFICATION Spec
CONSTANTS
  Procs = {p1, p2}
  Nobody = nobody
  Bufs = {c1, c2, c3}
  Outer = {b1, b2}
  Inner = {b3, b4}
  Blocks <- BlocksDef
  Rank <- RankDef
  NoBlock = noblock
  Value = {v1, v2}
SYMMETRY CacheSymmetry
CHECK_DEADLOCK FALSE
INVARIANTS
  ReadsLatest
  SleepersAreAwaited
