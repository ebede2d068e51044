SPECIFICATION FairSpec
CONSTANTS
  gray = gray
  playpal = playpal
  N = 3
  Parts = 2
  CounterMod = 4
  Palette <- MCPalette
  Grayscale = gray
  MaxCalls = 6
INVARIANTS
  TypeOK
  SlotExclusion
  ReadInOrder
  DropOnlyWhenFull
  PollFindsFrame
  IInv
PROPERTIES
  PublishedIsRead
  RefinesFrameQueue
CHECK_DEADLOCK FALSE
