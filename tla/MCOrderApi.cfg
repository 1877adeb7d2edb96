SPECIFICATION Spec
CONSTANTS
  UidMax = 2
  IntMax = 200
  Orders <- MCOrders
  Ids <- MCIds
  Others <- MCOthers
INVARIANTS
  TypeOK IdArrives RoutersAgree AnswerIsTrue ServedIsDecodable MissingReported ChecksNeverFire
CHECK_DEADLOCK FALSE
