SPECIFICATION FairServingSpec
CONSTANTS
  c0 = c0
  c1 = c1
  t1 = t1
  t2 = t2
  r1 = r1
  r2 = r2
  NoTask = NoTask
  N = 2
  Replicas = 2
  Ckpt <- MCCkpt
  FirstCkpt = c0
  Task <- MCTask
  Client <- MCClient
  Routes <- ReloadRoute
  SerialReloads = TRUE
  Faults <- NoFaults
  MaxFaults = 0
  MaxCalls = 2
  MaxInst = 6
INVARIANTS InFlightMatches EndpointServesCkpt NoOrphan
PROPERTIES RefusedOnlyByFullBatch FailsOnlyIfRemoved NeverOverwritten PoolSettles
CHECK_DEADLOCK FALSE
