SPECIFICATION Spec
CONSTANTS
  N = 3
  NumThreads = 2
  BufferSize = 6
  PackWidth = 1
  LinePacks <- Lines
  MaxChunk = 4
INVARIANTS
  EventsWhole
  OnceInOrder
  
PROPERTIES
  AllEnd
