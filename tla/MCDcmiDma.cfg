SPECIFICATION Spec
CONSTANTS
  BufWords = 12
  ImageWords = 10
  MinBlockWords = 1
  MaxBlockWords = 4
  OpenBlockWords = 6
  MaxWords = 16
  IsrTimely = TRUE
INVARIANTS TypeOK Contiguous BlockInTransfer
PROPERTIES StopCoversFrame
CHECK_DEADLOCK FALSE
