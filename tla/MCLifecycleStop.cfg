SPECIFICATION LifeFairSpec
CONSTANTS
  MaxMsg = 1
  MaxRetries = 1
  RetryCap = 1
  MaxCrashes = 0
  Request = {r1}
PROPERTY ShutdownEnds
CHECK_DEADLOCK FALSE
