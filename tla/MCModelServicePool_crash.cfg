SPECIFICATION FairSpec
CONSTANTS
  c0 = c0
  c1 = c1
  t1 = t1
  t2 = t2
  t3 = t3
  NoTask = NoTask
  N = 3
  Replicas = 2
  Ckpt <- MCCkpt
  FirstCkpt = c0
  Task <- MCTask3
  Routes <- NoRoutes
  SerialReloads = TRUE
  Faults <- CrashOrSlow
  MaxFaults = 1
  MaxCalls = 0
  MaxInst = 9
PROPERTIES PoolSettles
CHECK_DEADLOCK FALSE
