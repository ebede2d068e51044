SPECIFICATION FairSpec
CONSTANT MaxFrames = 4
INVARIANTS
  TypeOK
  ResourcesMatchThreads
  StopsWithinAFrame
PROPERTY
  EncoderStops
CHECK_DEADLOCK FALSE
