SPECIFICATION Spec
CONSTANTS
  TextOffs = {0, 64}
  Sizes = {0, 2, 4, 6, 8}
  Units <- ShortUnits
  RiscvLens = {32, 64}
  WellFormedOnly = TRUE
  Truncated = FALSE
  Slack = 3
INVARIANTS
  OverreadAtMostTwo
PROPERTIES
  Completes
  ImplementsListing
CHECK_DEADLOCK FALSE
