SPECIFICATION Spec
CONSTANTS
  BufWords = 8
  ImageWords = 6
  MinBlockWords = 1
  MaxBlockWords = 3
  OpenBlockWords = 2
  MaxWords = 20
  IsrTimely = TRUE
  Commands = {"cam_init", "image"}
  MaxJpegWords = 6
  MaxFrames = 2
  HwErrors = TRUE
  Overruns = TRUE
INVARIANTS TypeOK WholeFrame HaltMeansError
PROPERTIES DmaContract SnapshotEnds
CHECK_DEADLOCK FALSE
