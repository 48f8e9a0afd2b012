SPECIFICATION Spec
CONSTANTS
  Headers <- ThreeHeaders
  Numbers = {0, 1, 3}
  Indices = {0, 1, 2}
  EntrySizes = {32, 64}
  NameAt <- InFile
  LongNames = {201}
  StackRoom = 3
  FlagSlots = 3
  Truncated = TRUE
INVARIANTS
  TypeOK
  LastNamesake
  DirectoryOfFile
CHECK_DEADLOCK FALSE
