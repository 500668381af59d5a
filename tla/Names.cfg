SPECIFICATION Spec
CONSTANTS
  Procs = {p1, p2}
  Nobody = nobody
  NINODES = 4
  NINODE = 3
  Name = {"a", "b"}
  Paths <- SomePaths
  NewPaths <- SomeNewPaths
  Calls = {"open", "create", "mkdir", "mknod", "link", "unlink", "chdir", "close"}
  MaxCalls = 3
  Starts <- SmallStarts
SYMMETRY ProcSymmetry
CHECK_DEADLOCK FALSE
INVARIANTS
  RefsArePointers
  NoUseAfterFree
  CacheAgrees
  LinksCounted
