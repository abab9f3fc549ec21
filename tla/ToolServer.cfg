SPECIFICATION ClientsSpec
CONSTANTS
  Workers = {w1, w2}
  Queries = {"q1", "q2"}
  Urls = {"u"}
  Calls <- AllCalls
  L1Sizes = {1}
  SearchTTL = 2
  VisitTTL = 1
  FailTTL = 1
  SearchPermits = 1
  VisitPermits = 1
  Deadline = 1
  SearchAttempts = 1
  VisitAttempts = 2
  MaxRequests = 2
  MaxTime = 1
  MaxFaults = 1
INVARIANTS Consistent AnswersOwn NegativeRecent FileWhole
PROPERTY Answered
CHECK_DEADLOCK FALSE
