SPECIFICATION Spec
CONSTANTS
  Headers <- ThreeHeaders
  Numbers = {2}
  Indices = {0}
  EntrySizes = {64}
  NameAt <- InFile
  LongNames = {}
  StackRoom = 3
  FlagSlots = 4
  Truncated = FALSE
INVARIANTS
  RowsShowOwnFlags
CHECK_DEADLOCK FALSE
