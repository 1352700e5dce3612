SPECIFICATION Spec
CONSTANTS
  Lanes = {1, 2}
  Rids = {1, 2}
  RuleFp <- Fingerprints
  LaneDepth = 1
  MetaDepth = 1
  Packets = 2
  MaxFlits = 3
\* It stops when no more packets arrive.
CHECK_DEADLOCK FALSE
INVARIANTS
  OwnFingerprint
PROPERTIES
  EveryPacketAnswered
