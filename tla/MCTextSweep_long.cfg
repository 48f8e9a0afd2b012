SPECIFICATION Spec
CONSTANTS
  TextOffs = {64}
  Sizes = {6, 8}
  Units <- SixByte
  RiscvLens = {64}
  WellFormedOnly = FALSE
  Truncated = FALSE
  Slack = 3
PROPERTIES
  LongUnitsSupported
CHECK_DEADLOCK FALSE
