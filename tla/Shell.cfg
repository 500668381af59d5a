CONSTANTS
  INPUT_BUF = 4
  UINT = 8
  Keys <- Characters
  MAXARGS = 3
  Scripts <- Typed
  nbuf = 7
  ReadSize = 2
SPECIFICATION Spec
INVARIANTS AwakeForInput ParseRight Wired InSequence
PROPERTIES LinesInOrder PromptReturns
CHECK_DEADLOCK FALSE
