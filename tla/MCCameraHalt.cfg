SPECIFICATION Spec
CONSTANTS
  BufWords = 9
  ImageWords = 4
  MinBlockWords = 1
  MaxBlockWords = 2
  OpenBlockWords = 3
  MaxWords = 12
  IsrTimely = TRUE
  Commands = {"cam_init", "image", "image_rgb"}
  MaxJpegWords = 3
  MaxFrames = 2
  HwErrors = FALSE
  Overruns = FALSE
INVARIANTS HaltMeansError
CHECK_DEADLOCK FALSE
