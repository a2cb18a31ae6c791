SPECIFICATION Spec
CONSTANTS
  POLLING_INTERVAL = 10
  CardFails = TRUE
INVARIANTS TypeOK FsReadyMeansConnected SettledAgrees
PROPERTIES CardIsFollowed ShellRespawns
CHECK_DEADLOCK FALSE
