\* Two callers of IsConnected.
SPECIFICATION Spec
CONSTANTS
  DiskSize = 3
  BlockSize = 2
  Window = 1
  Sizes = {3}
  Shells = {"pipefail"}
  MaxFaults = 0
INVARIANTS
  LostIsLost
CHECK_DEADLOCK FALSE
