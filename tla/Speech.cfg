SPECIFICATION Spec
CONSTANTS
  Open <- MCOpen
  Close <- MCClose
  Chars = {"<", "/", "t", ".", "n", "_"}
  Terminators = {"."}
  Newline = "n"
  Blanks = {"n", "_"}
  MinChars = 2
  MaxPiece = 4
  MaxText = 6
  FragmentSize = 2
  Indexes = {0, 1}
  Ids = {i, j}
  NoId = NoId
  Args = {a, b}
INVARIANTS
  DeltasAreParsed
  SpokenAsShown
  CallsAreWhole
CHECK_DEADLOCK FALSE
