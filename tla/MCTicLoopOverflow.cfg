SPECIFICATION Spec
CONSTANTS
  BACKUPTICS = 4
  TICRATE = 1
  Second = 2
  IntMax = 7
  MaxTime = 14
PROPERTY
  TicsAreBuilt
CHECK_DEADLOCK FALSE
