CONSTANTS
  Knob = {"latency", "jitter", "drop", "stall"}
  Convenient = {"latency", "drop"}
  NaN = NaN
  KnobLimit <- Limits
  Bodies <- SomeBodies
  Name = {"default", "other"}
  Session = {s1, s2}
  UpdateLimit = 2
  Second = 3
  LastVersion = 2
  Hash = {0, 1, 2, 3, 4, 5, 6}
  MaxRate = 2
  HalfWord = 8
  MaxPackets = 2
SPECIFICATION FaultSpec
SYMMETRY Symmetric
INVARIANT FaultTypeOK
INVARIANT VersionIdentifiesProfile
INVARIANT UpdatesBounded
INVARIANT DrawsAreFresh
INVARIANT FateAsPostedAtStart
INVARIANT FaultsAsConfigured
CHECK_DEADLOCK FALSE
