SPECIFICATION Spec
CONSTANTS
  Inputs <- AllInputs
  BufLen = 80
  Tab = 32
INVARIANTS
  TypeOK
  LineReassembles
  FitsUnlessFarTarget
  MnemonicSeparated
CHECK_DEADLOCK FALSE
