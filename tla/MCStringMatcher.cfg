SPECIFICATION Spec
CONSTANTS
  A = A
  B = B
  Z = Z
  Blank = Blank
  Bytes = {A, B, Z, Blank}
  Width = 3
  FlitBytes = 3
  Patterns <- Rules
  Hash <- FirstByte
  HashTag <- CountOfA
  Flits <- SomeFlits
  MaxFlits = 3
  Depth = 1
  SameFlow = FALSE
\* It stops when no more flits arrive.
CHECK_DEADLOCK FALSE
INVARIANT
  MatchesPackets
PROPERTY
  EveryPacketMatched
