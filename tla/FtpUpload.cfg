SPECIFICATION Spec
CONSTANTS
  Chunks = 4
  Window = 2
INVARIANT
  AnsweredAbortTellsTruth
PROPERTIES
  Implements
  UploadEnds
CHECK_DEADLOCK FALSE
