CONSTANTS
  p = 109
  d = 11
  sqrtm1 = 76
  magic = 3
  Prime = 13
  Gen <- MCGen
  Strings <- MCStrings
  Zs = {1, 5}
  MaxOps = 1
  Bytes = 2
  Scalars = {7, 32775, 53503, 65535, 13048, 21840}
  Received = {0, 2, 3, 127}
  Parties = {1, 2}
SPECIFICATION GroupSpec
INVARIANTS PointsAreMultiples PackIsCanonical UnpackInvertsPack LadderIsPrefix WindowsAddUp SecretsAgree
CHECK_DEADLOCK FALSE
