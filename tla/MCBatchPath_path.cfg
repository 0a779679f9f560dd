SPECIFICATION Spec
CONSTANTS
  World = 2
  Cap = 4
  MaxRows = 5
  MaxLen = 3
  Configs <- MCConfigs
INVARIANTS CollectivesMatch FailsOnlyIfRefused LogProbsAligned StepsWhole PaddingInert
