SPECIFICATION Spec
CONSTANTS
  Word = 3
  Words = 3
  Burst = 1
  Newlines <- LoaderNewlines
  Depth = 1
  FrameFlits = 2
  Period = 3
  Throttles = {0, 1, 3}
INVARIANTS
  CountsLines
PROPERTIES
  LinesInOrder
  BufferArrives
