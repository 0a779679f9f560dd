SPECIFICATION Spec
CONSTANTS
  MaxTexts = 3
  MaxSteps = 7
  Configs <- MCContext
INVARIANTS ChunkContext
CHECK_DEADLOCK FALSE
