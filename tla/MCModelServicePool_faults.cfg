SPECIFICATION Spec
CONSTANTS
  c0 = c0
  c1 = c1
  t1 = t1
  t2 = t2
  t3 = t3
  NoTask = NoTask
  N = 2
  Replicas = 2
  Ckpt <- MCCkpt
  FirstCkpt = c0
  Task <- MCTask3
  Routes <- AllRoutes
  SerialReloads = TRUE
  Faults <- AllFaults
  MaxFaults = 1
  MaxCalls = 2
  MaxInst = 6
INVARIANTS SingleOwner OldOnlyInTodo MonitorPaused
PROPERTIES PolicyServed
SYMMETRY Symmetry
CHECK_DEADLOCK FALSE
