SPECIFICATION Spec
CONSTANTS
  a1 = a1
  a2 = a2
  Agents = {a1}
  Scripts <- LongCall
  ToolLength = 1
  ResponseLength = 20
  MaxAssistantTurns = 0
  MaxUserTurns = 0
  MaxSyncs = 2
INVARIANT SameAsUninterrupted
