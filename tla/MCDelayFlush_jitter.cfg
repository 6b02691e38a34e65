CONSTANTS
  TicksPerMs = 2
  Delays <- Jitter
  MinDelay = 1
  MaxDelay = 3
  DelayCap = 3
  Sizes = {1, 2}
  Latency = 1
  Ids = {p1, p2, p3}
SPECIFICATION Spec
SYMMETRY PacketIds
INVARIANT WithinCap
INVARIANT LatenessBounded
INVARIANT TimerIsForAPacket
CHECK_DEADLOCK FALSE
