SPECIFICATION FairSpec
CONSTANTS
  TotalSteps = 4
  RequiredSamples = 1
  TriggerSteps = 1
  StaleNum = 1
  StaleDen = 1
  ServerSlots = 2
  PendingSize = 1
  PartialRollout = TRUE
  MaxFailures = 1
  TestFreq = 2
  SaveFreq = 0
INVARIANTS TransferQuiet NoOverrun
PROPERTIES Termination
