CONSTANTS
  B = 32
  Top = 16
  N = 3
  W = 65536
  C = 3
  n = 4
  Radix <- MCRadix
  Start <- MCStart
  MaxOps = 2
SPECIFICATION Spec
INVARIANTS FieldValue PackIsCanonical
CHECK_DEADLOCK FALSE
