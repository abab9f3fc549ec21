SPECIFICATION Spec
CONSTANTS
  DataSize = 4
  MaxEpochs = 2
  Total = 4
  Warmup = 2
  TestFreq = 2
  SaveFreq = 3
  MaxStarts = 2
  MaxFaults = 1
INVARIANTS Consistent NothingLost Staleness Synchronous PolicyAge Accounted
PROPERTIES ImplementsPipeline
