SPECIFICATION Spec
CONSTANTS
  Files <- AllFiles
  StaleBytes = {0, 1, 2}
INVARIANTS
  TypeOK
  LenMatchesClass
  IdentLinesFromFile
  GlobalsFromFile
  OnlyRiscvGoesOn
CHECK_DEADLOCK FALSE
