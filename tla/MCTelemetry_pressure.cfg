CONSTANTS
  LiveMax = 3
  BlackBoxSize = 2
  MaxEntries = 5
  BucketCount = 2
  Bound <- TwoBounds
  Latencies = {1, 2}
  MaxDelays = 2
SPECIFICATION TelemetrySpec
INVARIANT TelemetryTypeOK
INVARIANT BlackBoxIsLatest
INVARIANT SevereStays
PROPERTY SilentOnlyWhenStuck
INVARIANT FailuresAreWarned
INVARIANT LinesInOrder
INVARIANT OfItsRendering
CHECK_DEADLOCK FALSE
