CONSTANTS
  Capacity = 3
  HighWater = 2
  LowWater = 1
  DelayCap = 3
  ReadSizes = {1, 2}
  MaxPackets <- OneWayTwo
  Decisions = {"Forward", "Delay", "Drop", "HalfClose", "Stall"}
SPECIFICATION Spec
INVARIANT TypeOK
INVARIANT NoLostWrite
INVARIANT ReaderArmed
INVARIANT ResetIsFinal
INVARIANT NoStrandedDelay
PROPERTY Lifecycle
CHECK_DEADLOCK FALSE
