\* Four parts (1 + 1 + 2 + 2) hold the image exactly.
SPECIFICATION Spec
CONSTANTS
  Chunks = 6
  FirstSize = 1
  GrowEvery = 2
  MaxSize = 2
  PartLimit = 4
  Tries = 3
  MaxHiccups = 4
INVARIANTS
  TypeOK
  AcknowledgedIsStored
  HiccupsDoNotKill
  WithinLimit
PROPERTIES
  Implements
CHECK_DEADLOCK FALSE
