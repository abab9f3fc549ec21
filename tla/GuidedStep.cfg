SPECIFICATION StepSpec
CONSTANTS
  Samples = {1, 2, 3}
  Actions <- MixedBatch
  MaxLength = 4
  MaxProbeSteps = 2
  ProbeRollouts = 2
  Offset = 1
  N = 2
  Rewards <- ZeroOne
  HardThreshold = 0
  SuccessThreshold = 0
  TeacherN = 2
  Margin = 0
  FixedK = 3
  RatioNum = 1
  RatioDen = 2
  WorldSize = 2
  MaxTokenLen = 4
  MiniSize = 2
  Settings <- AllModes
INVARIANTS TypeOK Justified Optimal RowsAligned GroupsWhole HintsPay Balanced UpdateFair
