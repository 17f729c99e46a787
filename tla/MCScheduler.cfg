SPECIFICATION Spec
CONSTANT MaxProcs = 5
INVARIANTS
  OneRunning
  NoneLost
  MaskedUntilEOI
CHECK_DEADLOCK FALSE
