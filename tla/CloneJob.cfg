\* The job with every failure but a failing LVM probe; it stops when it is done.
SPECIFICATION Spec
CONSTANTS
  boot = boot
  root = root
  stacked = stacked
  Parts = {boot, root, stacked}
  Lvs = {root}
  Hidden = {stacked}
  ProbeMayFail = FALSE
  SigtermMayBeLost = TRUE
  LinkMayDrop = TRUE
  MaxPresses = 3
INVARIANTS
  SourceQuiet
  FillsOnlyOffline
  CancelledFillStops
  ReturnThaws
PROPERTY
  JobEnds
CHECK_DEADLOCK FALSE
