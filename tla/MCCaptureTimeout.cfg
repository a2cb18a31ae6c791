SPECIFICATION Spec
CONSTANTS
  ClockModulus = 24
  WaitTicks = 5
  MaxSleep = 3
  Modes = {"rgb", "jpeg"}
INVARIANTS TimesOutInTime CapturedMeansFinished
PROPERTIES WaitEnds
CHECK_DEADLOCK FALSE
