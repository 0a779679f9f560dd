SPECIFICATION Spec
CONSTANTS
  MaxTexts = 3
  MaxSteps = 7
  Configs <- MCConfigs
INVARIANTS TypeOK WindowIsLatest TrainedOnPrompt LogProbsOfAnswer RowReadable
CHECK_DEADLOCK FALSE
