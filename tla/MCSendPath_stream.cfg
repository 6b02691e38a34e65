CONSTANTS
  Capacity = 4
  HighWater = 3
  LowWater = 1
  ReadMax = 2
  ReadSizes = {1, 2}
  Decisions = {"Forward", "Delay", "Drop", "HalfClose", "Stall"}
  DelayCap = 3
  MaxBytes = 6
  Blank = Blank
SPECIFICATION Spec
INVARIANT TypeOK
INVARIANT InOrderUnlessMoved
INVARIANT UnpausedBelowHigh
INVARIANT BytesConserved
INVARIANT WindowQueued
CHECK_DEADLOCK FALSE
