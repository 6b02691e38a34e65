CONSTANTS
  MaxTimers = 5
  ConnectTimeout = 2
  IdleTimeout = 2
SPECIFICATION FairSpec
INVARIANT TypeOK
INVARIANT IdleMeansIdle
INVARIANT FailuresExplained
PROPERTY AsInSession
PROPERTY MapDrains
CHECK_DEADLOCK FALSE
