SPECIFICATION Spec
CONSTANTS
  Remote = {r1, r2}
  Local = {large, small}
  Small = {small}
  NoDisk = NoDisk
  MaxOps = 2
  MaxConns = 2
  MaxReplugs = 1
INVARIANTS
  OverwritesAreConfirmed
  UnsafeIsAccepted
  
  FailureIsContained
PROPERTY EofEnds
CHECK_DEADLOCK FALSE
