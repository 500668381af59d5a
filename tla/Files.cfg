SPECIFICATION Spec
CONSTANTS
  Procs = {p1, p2}
  Root = p1
  Pipes = {q1}
  NOFILE = 2
  NFILE = 3
  PIPESIZE = 2
  UINT = 4
  ReadSizes = {2}
  Payloads <- OneWrite
INVARIANTS
  RefCounts
  PipeLives
  SleepsForAReason
PROPERTIES
  KilledStaysAwake
  PipeIsStream
CHECK_DEADLOCK FALSE
