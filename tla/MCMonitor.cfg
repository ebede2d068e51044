SPECIFICATION FairSpec
CONSTANT MaxPackets = 4
INVARIANTS
  TypeOK
  EveryPacketInOneInterval
  PointsAddUp
  FinalIsComplete
PROPERTY
  StopsOnCtrlC
CHECK_DEADLOCK FALSE
