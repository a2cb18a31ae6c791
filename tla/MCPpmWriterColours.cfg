SPECIFICATION Spec
CONSTANTS
  OV5640_MAXX = 1
  OV5640_MAXY = 1
  Pixels <- SomePixels
INVARIANTS ColoursKept
CHECK_DEADLOCK FALSE
