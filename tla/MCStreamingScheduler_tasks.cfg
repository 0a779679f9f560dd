SPECIFICATION Spec
CONSTANTS
  w1 = w1
  w2 = w2
  None = None
  NumTasks = 4
  Workers <- MCWorkers2
  Variants <- Both
  MaxKills = 2
INVARIANTS Accounted ReturnedComplete AtMostOnce
PROPERTIES SmallRunReturns
CHECK_DEADLOCK FALSE
