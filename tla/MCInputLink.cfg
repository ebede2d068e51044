SPECIFICATION LinkSpec
CONSTANTS
  NumKeys = 2
  NumWeapons = 0
  KEY_QUEUE_SIZE = 6
  MAXEVENTS = 8
  MaxChanges = 3
  MaxInFlight = 2
PROPERTY
  EngineCatchesUp
CHECK_DEADLOCK FALSE
