SPECIFICATION Spec
CONSTANTS
  OV5640_MAXX = 2
  OV5640_MAXY = 2
  Pixels <- SomePixels
INVARIANTS PrefixOfImage
PROPERTIES ClosedIsWhole WriteEnds
CHECK_DEADLOCK FALSE
