SPECIFICATION Spec
CONSTANTS
  NumKeys = 2
  NumWeapons = 2
  KEY_QUEUE_SIZE = 4
  MAXEVENTS = 4
INVARIANT WeaponFollowsSelection
