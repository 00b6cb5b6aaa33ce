SPECIFICATION Spec
CONSTANTS
  Sizes = {1, 5}
  Lengths = {1, 3}
  Wrap = 4
  Ratio = 2
  Window = 1
  MaxFaults = 2
INVARIANTS
  QuestionsAreAsked
  OkIsWhole
  GoodImageRestores
PROPERTY
  RestoreEnds
CHECK_DEADLOCK FALSE
