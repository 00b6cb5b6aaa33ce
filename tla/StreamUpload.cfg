SPECIFICATION Spec
CONSTANTS
  Chunks = 3
  Window = 2
  Tries = 3
INVARIANT
  NothingIsLeftBehind
PROPERTIES
  UnknownIsKept
  Implements
  FinishEnds
CHECK_DEADLOCK FALSE
