SPECIFICATION Spec
CONSTANTS
  Regions <- MCRegions
  Data <- MCData
  MaxCalls = 3
INVARIANTS RoundsAgree BytesAgree
CHECK_DEADLOCK FALSE
