SPECIFICATION Spec
CONSTANTS
  BufWords = 12
  ImageWords = 9
  MinBlockWords = 1
  MaxBlockWords = 3
  OpenBlockWords = 3
  MaxWords = 15
  IsrTimely = FALSE
INVARIANTS MemorySafe
PROPERTIES NeverDoneEarly
CHECK_DEADLOCK FALSE
