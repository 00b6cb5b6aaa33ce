\* One partition with an installed system is enough.
SPECIFICATION FindSpec
CONSTANTS
  Devices = {d1}
  MaxStuck = 0
INVARIANTS
  RootIsFound
CHECK_DEADLOCK FALSE
