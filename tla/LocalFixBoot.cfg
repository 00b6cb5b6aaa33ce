\* Three devices of every kind, two umounts that give up.
SPECIFICATION FindSpec
CONSTANTS
  Devices = {d1, d2, d3}
  MaxStuck = 2
INVARIANTS
  OnlyTargetIsMounted
  OneStuckIsUnmounted
CHECK_DEADLOCK FALSE
