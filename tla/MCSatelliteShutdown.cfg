SPECIFICATION FairSpec
CONSTANT MaxFrames = 1
PROPERTY
  ShutdownCompletes
CHECK_DEADLOCK FALSE
