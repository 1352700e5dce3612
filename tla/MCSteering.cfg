SPECIFICATION Spec
CONSTANTS
  Packets = 3
  MaxFlits = 3
  MatcherDepth = 1
  MetaDepth = 1
  ForwardDepth = 2
  SteerDepth = 1
  OutDepth = 1
\* It stops when every packet has left; that this is the only place, AllSteered says.
CHECK_DEADLOCK FALSE
INVARIANTS
  RightPath
  CountsAll
PROPERTIES
  PacketsWhole
  ResultsInStep
  AllSteered
