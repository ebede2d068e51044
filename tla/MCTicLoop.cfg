SPECIFICATION FairSpec
CONSTANTS
  BACKUPTICS = 4
  TICRATE = 1
  Second = 2
  IntMax = 127
  MaxTime = 14
INVARIANTS
  TypeOK
  RunsOwnCommand
  NoSyncError
PROPERTIES
  TicsAreBuilt
  BuiltIsRun
CHECK_DEADLOCK FALSE
