CONSTANTS
  NPROC = 4
  NTHRE = 2
  NPAGES = 14
  KERNBASE = 6
  MaxHeap = 2
  InitSize = 1
  Masters = {2, 3, 4}
  Programs = {}
SPECIFICATION Spec
INVARIANTS
  PagesUsedOnce
  SpaceMatchesSize
  ParentCanWait
  SleepersHaveCause
  RetvalKept
