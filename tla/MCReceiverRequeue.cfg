SPECIFICATION FairSpec
CONSTANTS
  MaxMsg = 2
  MaxRetries = 2
  RetryCap = 1
  MaxCrashes = 0
PROPERTY RequeueEnds
CHECK_DEADLOCK FALSE
