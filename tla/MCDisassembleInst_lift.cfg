SPECIFICATION Spec
CONSTANTS
  Inputs <- LiftInputs
  BufLen = 80
  Tab = 32
INVARIANTS
  LiftKeepsMeaning
CHECK_DEADLOCK FALSE
