SPECIFICATION Spec
CONSTANTS
  Capacity = 5
  OverflowCapacity = 2
  CreditDepth = 1
  Threshold = 3
  CreditModulus = 16
  MaxFlits = 2
  Packets = 5
INVARIANTS
  TypeOK
  CreditsConserved
  NoFlitLost
  WholePackets
  CountsAgree
PROPERTIES
  CreditsReturn
