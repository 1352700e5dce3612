SPECIFICATION Spec
CONSTANTS
  Quote = Quote
  Blank = Blank
  Wild = Wild
  A = A
  B = B
  X = X
  Colon = Colon
  Space = Space
  Word = 5
  Fields <- ThreeFields
  Separators = {Space}
  Inputs <- StringLines
  Depth = 1
  StaleEop = {FALSE}
\* It stops when every word has come out.
CHECK_DEADLOCK FALSE
INVARIANTS
  NoMissedTag
  NoStrayTag
