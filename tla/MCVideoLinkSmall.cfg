SPECIFICATION Spec
CONSTANTS
  MAX_PAYLOAD_SIZE = 4
  SeqMod = 4
  AccessUnits <- MCAccessUnits
  MaxFrames = 2
  MaxInFlight = 6
  Faults = {}
INVARIANT SmallNalsAreDecoded
CHECK_DEADLOCK FALSE
