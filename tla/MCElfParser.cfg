SPECIFICATION Spec
CONSTANTS
  Disks <- AllDisks
  Headers <- AllHeaders
  StaleBytes = {2}
  Units = {0, 31, 32, 147}
  NameAt <- SectionNames
  LongNames = {205}
  StackRoom = 4
  FlagSlots = 3
  IntMax = 4
  Slack = 0
INVARIANTS
  TypeOK
  PairsAsShown
  LinesByClass
  LeftOpen
PROPERTIES
  ImplementsReport
  EndsUnlessStuck
CHECK_DEADLOCK FALSE
