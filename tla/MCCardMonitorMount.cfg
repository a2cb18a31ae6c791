SPECIFICATION Spec
CONSTANTS
  POLLING_INTERVAL = 10
  CardFails = FALSE
INVARIANTS MountIsExclusive
CHECK_DEADLOCK FALSE
