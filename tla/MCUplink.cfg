SPECIFICATION Spec
CONSTANTS
  NumKeys = 2
  NumWeapons = 1
  KEY_QUEUE_SIZE = 3
  MAXEVENTS = 3
INVARIANTS
  TypeOK
  EngineFollowsPackets
  NoStuckKeyUnlessLost
  IInv
PROPERTIES
  EventsAreChanges
