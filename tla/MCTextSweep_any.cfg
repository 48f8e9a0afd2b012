SPECIFICATION Spec
CONSTANTS
  TextOffs = {0, 64}
  Sizes = {0, 2, 3, 4}
  Units <- AnyLength
  RiscvLens = {64}
  WellFormedOnly = FALSE
  Truncated = TRUE
  Slack = 2
INVARIANTS
  TypeOK
  Consecutive
  NeverStrays
  ReturnsOnlyIfParsed
  WordsFromFile
CHECK_DEADLOCK FALSE
