SPECIFICATION FairSpec
CONSTANTS
  a1 = a1
  a2 = a2
  Agents = {a1, a2}
  Scripts <- AllScripts
  ToolLength = 1
  ResponseLength = 7
  MaxAssistantTurns = 0
  MaxUserTurns = 2
  MaxSyncs = 2
INVARIANTS SameAsUninterrupted TransferQuiet Consistent
PROPERTY AllTerminate
