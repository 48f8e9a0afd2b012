SPECIFICATION Spec
CONSTANTS
  Files <- OnlyElf32
  StaleBytes = {0, 1, 2}
INVARIANTS
  Elf32Understood
CHECK_DEADLOCK FALSE
