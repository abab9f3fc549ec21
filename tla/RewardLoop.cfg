SPECIFICATION FairSpec
CONSTANTS
  Items = {i1, i2, i3}
  HasRpm = TRUE
  HasTpm = TRUE
  MaxTokens <- Holds
  Needs <- Takes
  MaxConcurrent = 1
  Timeout = 1
  Threads = 2
  Urls = {u1, u2}
  MaxAttempts = 2
INVARIANTS Consistent Conforms
PROPERTIES LeastLoaded AllRewarded
