CONSTANTS
  Capacity = 3
  HighWater = 2
  LowWater = 1
  DelayCap = 3
  ReadSizes = {1, 2}
  MaxPackets <- NoPackets
  Decisions = {"Forward"}
SPECIFICATION Spec
INVARIANT NoUncaughtException
CHECK_DEADLOCK FALSE
