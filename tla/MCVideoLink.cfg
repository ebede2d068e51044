SPECIFICATION FairSpec
CONSTANTS
  MAX_PAYLOAD_SIZE = 4
  SeqMod = 4
  AccessUnits <- MCAccessUnits
  MaxFrames = 3
  MaxInFlight = 1
  Faults = {"loss", "reorder", "duplicate", "sendto"}
INVARIANTS
  TypeOK
  DecoderGetsNals
  PacketsAreNumbered
  NothingLeftOver
  LossEndsAtKeyFrame
  ScreenIsCurrent
PROPERTIES
  RefinesNalPipe
  NewestIsShown
CHECK_DEADLOCK FALSE
