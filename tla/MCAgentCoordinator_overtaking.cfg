SPECIFICATION Spec
CONSTANTS
  a = a
  b = b
  e1 = e1
  e2 = e2
  r1 = r1
  r2 = r2
  r3 = r3
  NoRunner = NoRunner
  Lost = Lost
  NoEnv = NoEnv
  Task <- MCTask
  Runner <- MCRunner3
  Env <- MCEnv2
  rollout_n = 1
  max_concurrent_envs = 2
  max_task_queue_size = 1
  Resume = FALSE
  Overtaking = TRUE
  Faults <- NoFaults
  MaxFaults = 0
PROPERTIES CleanupOnlyOrphans
