SPECIFICATION Spec
CONSTANTS
  Width = 3
  Pack = 2
  Shift = 1
  PipeDepth = 1
  Table <- Lists
  Inputs <- SomeFlits
  MaxFlits = 4
\* It stops when no more flits arrive.
CHECK_DEADLOCK FALSE
PROPERTIES
  ExpandsPackets
  EveryPacketEnds
