CONSTANTS
  Q = 8380417
  QBits = 23
  D = 13
  GAMMA2 = 261888
  Inputs <- MCInputs
SPECIFICATION Spec
INVARIANT ReducedInRange
CHECK_DEADLOCK FALSE
