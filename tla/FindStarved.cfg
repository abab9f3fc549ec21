SPECIFICATION FairSpec
CONSTANTS
  TotalSteps = 4
  RequiredSamples = 1
  TriggerSteps = 1
  StaleNum = 1
  StaleDen = 1
  ServerSlots = 2
  PendingSize = 2
  PartialRollout = TRUE
  MaxFailures = 0
  TestFreq = 2
  SaveFreq = 0
PROPERTIES Finishes
