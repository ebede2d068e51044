SPECIFICATION FairSpec
CONSTANT SocketBuffer = 2
INVARIANTS
  TypeOK
  ClosesWhatItOpens
  StopsWithinARound
PROPERTY
  StopsWhenTold
CHECK_DEADLOCK FALSE
