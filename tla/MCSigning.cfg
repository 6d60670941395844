CONSTANTS
  Q = 113
  QBits = 7
  D = 4
  GAMMA2 = 7
  N = 2
  K = 2
  L = 2
  ETA = 1
  TAU = 2
  GAMMA1 = 8
  OMEGA = 2
  Word = 4
  Material <- MCMaterial
  MaskCoeffs <- MCMask
  Mus = {m1, m2}
  MaxAttempts = 3
SPECIFICATION Spec
INVARIANTS SignatureVerifies ResponseHidesSecret MasksAreFresh
CHECK_DEADLOCK FALSE
