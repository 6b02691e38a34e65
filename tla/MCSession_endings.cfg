CONSTANTS
  Capacity = 3
  HighWater = 2
  LowWater = 1
  DelayCap = 3
  ReadSizes = {1, 2}
  MaxPackets <- OneWayOne
  Decisions = {"Forward", "Delay"}
SPECIFICATION FairSpec
INVARIANT PausedReadHasWaker
PROPERTY Released
PROPERTY ConnectResolves
PROPERTY BusyHalfCloseRelayed
CHECK_DEADLOCK FALSE
