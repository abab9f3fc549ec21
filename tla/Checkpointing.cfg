SPECIFICATION Spec
CONSTANTS
  DataSize = 2
  Epochs = 2
  Total = 4
  Required = 1
  Trigger = 2
  MaxInFlight = 2
  SaveFreq = 2
  TestFreq = 3
  Keeps = {1, 2}
  MaxCrashes = 2
  MaxLosses = 1
INVARIANTS Restartable Accounted Consistent
PROPERTY Ends
CHECK_DEADLOCK FALSE
