SPECIFICATION Spec
CONSTANTS
  NClusters = 3
  FatPerSector = 2
  NRootDir = 2
  DirPerSector = 1
  IndexLimit = 1
  MaxShots = 3
  MaxLength = 2
INVARIANTS TypeOK OneDirtySector ChainsWhole FreeNotUnderstated NoGaps
PROPERTIES ImplementsAlbum LosesByFailureOnly WriteEnds
CHECK_DEADLOCK FALSE
