\* Every mode on every host, a known and an unknown size, two kinds of faults.
SPECIFICATION Spec
CONSTANTS
  DiskSize = 4
  BlockSize = 2
  Window = 1
  Sizes = {0, 4}
  Shells = {"pipefail", "plain", "strict"}
  MaxFaults = 2
INVARIANTS
  TypeOK
  OkIsCleanExit
  HealthySucceeds
  CancelledIsError
PROPERTIES
  Implements
  TransferEnds
CHECK_DEADLOCK FALSE
