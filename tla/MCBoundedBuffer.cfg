SPECIFICATION Spec
CONSTANTS
  N = 3
  Items = 7
INVARIANTS
  TypeOK
  FlagsExact
  SlotExclusion
  ReadsWholeAndInOrder
  NoLostWakeup
PROPERTIES
  AllDelivered
  ImplementsQueue
