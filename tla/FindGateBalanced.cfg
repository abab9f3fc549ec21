SPECIFICATION StepSpec
CONSTANTS
  Samples = {1, 2, 3}
  Actions <- MixedBatch
  MaxLength = 4
  MaxProbeSteps = 0
  ProbeRollouts = 1
  Offset = 0
  FixedK = 3
  RatioNum = 0
  RatioDen = 1
  N = 2
  Rewards <- ZeroOne
  HardThreshold = 0
  SuccessThreshold = 0
  TeacherN = 1
  Margin = 0
  WorldSize = 2
  MaxTokenLen = 4
  MiniSize = 3
  Settings <- GateBalanced
INVARIANTS GatePerPrompt
