SPECIFICATION Spec
CONSTANTS
  w1 = w1
  w2 = w2
  None = None
  NumTasks = 3
  Workers <- MCWorkers1
  Variants <- Both
  MaxKills = 0
PROPERTIES StopReturns
CHECK_DEADLOCK FALSE
