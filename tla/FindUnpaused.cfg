SPECIFICATION Spec
CONSTANTS
  TotalSteps = 4
  RequiredSamples = 1
  TriggerSteps = 1
  StaleNum = 2
  StaleDen = 1
  ServerSlots = 1
  PendingSize = 2
  PartialRollout = FALSE
  MaxFailures = 0
  TestFreq = 1
  SaveFreq = 2
INVARIANTS TransferQuiet
