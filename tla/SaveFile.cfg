\* Three runs over one name, every call failing, every crash.
SPECIFICATION Spec
CONSTANTS
  MaxRuns = 3
  CanCrash = TRUE
  CallsFail = TRUE
INVARIANTS
  NoTornBackup
  SavedIsDescribed
PROPERTIES
  OldStaysUntilNewIsWhole
  KeepsOneWhole
CHECK_DEADLOCK FALSE
