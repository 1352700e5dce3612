SPECIFICATION Spec
CONSTANTS
  FlitsOf <- Lengths
  PipeDepth = 1
  MaxPacks = 2
  Fragile = {2}
\* The run is over when the host has left its loop.
CHECK_DEADLOCK FALSE
INVARIANTS
  CollectedWhole
  StopsAreFinal
  DoneMeansAll
  ResultsWritten
PROPERTIES
  HostEnds
