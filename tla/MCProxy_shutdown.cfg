CONSTANTS
  Session = {s1, s2, s3}
  MaxSessions = 2
  SoftLimit = 1
SPECIFICATION FairSpec
INVARIANT SessionBound
INVARIANT AcceptLoopAlive
INVARIANT AtMostOneMissed
PROPERTY Exits
CHECK_DEADLOCK FALSE
