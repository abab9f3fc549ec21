SPECIFICATION FairSpec
CONSTANTS
  Consumers = {c1, c2}
  MaxQueueSize = 2
  MaxPuts = 4
  MaxSyncs = 1
INVARIANTS Consistent Conservation Fifo NoLostWakeup
PROPERTIES ShutdownReleases
CHECK_DEADLOCK FALSE
