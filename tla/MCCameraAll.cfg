SPECIFICATION Spec
CONSTANTS
  BufWords = 5
  ImageWords = 5
  MinBlockWords = 1
  MaxBlockWords = 2
  OpenBlockWords = 2
  MaxWords = 8
  IsrTimely = TRUE
  Commands = {"cam_init", "image", "image_rgb"}
  MaxJpegWords = 2
  MaxFrames = 2
  HwErrors = FALSE
  Overruns = TRUE
INVARIANTS WholeFrame
PROPERTIES StoresInBuffer BufferStable SnapshotEnds
CHECK_DEADLOCK FALSE
