SPECIFICATION Spec
CONSTANTS
  Chunks = 3
  Window = 2
  Tries = 3
PROPERTY OnlyPartialIsDeleted
CHECK_DEADLOCK FALSE
