CONSTANTS
  Capacity = 8
  HighWater = 6
  LowWater = 2
  ReadMax = 4
  ReadSizes = {1, 4}
  Decisions = {"Forward"}
  DelayCap = 16
  MaxBytes = 14
  Blank = Blank
SPECIFICATION Spec
INVARIANT StreamInOrder
CHECK_DEADLOCK FALSE
