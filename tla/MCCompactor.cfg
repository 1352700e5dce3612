SPECIFICATION Spec
CONSTANTS
  FanOut = 2
  Group = 4
  PipeDepth = 1
  MaxFlits = 2
  Fills <- SomeFills
\* It stops when no more flits arrive.
CHECK_DEADLOCK FALSE
PROPERTIES
  CompactsPackets
  EveryPacketLeaves
