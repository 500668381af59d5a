SPECIFICATION Spec
CONSTANTS
  CPUs = {c0, c1}
  Boot = c0
  Threads = {t1, t2}
  None = none
SYMMETRY ThreadSymmetry
INVARIANTS
  NoPanic
  UserInterruptible
  OneStack
  SleepLockExcludes
  NoLostWakeup
