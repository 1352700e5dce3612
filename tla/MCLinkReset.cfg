SPECIFICATION Spec
CONSTANTS
  Down <- Sender
\* The bring-up ends.
CHECK_DEADLOCK FALSE
INVARIANTS
  BothHalvesUp
