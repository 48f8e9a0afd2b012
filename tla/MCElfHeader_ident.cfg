SPECIFICATION Spec
CONSTANTS
  Files <- OnlyElf64
  StaleBytes = {0, 1, 2}
INVARIANTS
  IdentShown
CHECK_DEADLOCK FALSE
