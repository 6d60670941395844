CONSTANTS
  Period = 16
  Base = 2
  Latency = 3
  Pass = 5
  MaxTime = 70
  Half = 2
  MaxLen = 6
  MaxBytes = 28
  MaxDrawn = 3
  Top = 9
  Frame = 1
  Pushed = 2
  HeapStart = {1, 2}
  MaxPushes = 2
SPECIFICATION BoardSpec
INVARIANTS ReturnsTrueTime RetriesAtMostOnce OutputIsStream StackMeasured
PROPERTY CallReturns
CHECK_DEADLOCK FALSE
