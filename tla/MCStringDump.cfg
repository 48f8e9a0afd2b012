SPECIFICATION Spec
CONSTANTS
  NUL = NUL
  Blank = Blank
  Offs = {0, 64}
  Sizes = {0, 1, 3, 4, 5}
  Chars = {NUL, Blank, letter}
  IntMax = 3
  Truncated = TRUE
INVARIANTS
  TypeOK
  PlacedAsInFile
PROPERTIES
  EndsWhole
CHECK_DEADLOCK FALSE
