SPECIFICATION LifeFairSpec
CONSTANTS
  MaxMsg = 2
  MaxRetries = 1
  RetryCap = 1
  MaxCrashes = 1
  Request = {r1}
INVARIANTS LifeTypeOK RetryQueueSound Accounted CleanExit ReaderOutlivesLoop
PROPERTIES ExitsUnlessStuck Settles
CHECK_DEADLOCK FALSE
