SPECIFICATION Spec
CONSTANTS
  a = a
  b = b
  e1 = e1
  e2 = e2
  r1 = r1
  r2 = r2
  r3 = r3
  NoRunner = NoRunner
  Lost = Lost
  NoEnv = NoEnv
  Task <- MCTask1
  Runner <- MCRunner3
  Env <- MCEnv2
  rollout_n = 2
  max_concurrent_envs = 2
  max_task_queue_size = 2
  Resume = TRUE
  Overtaking = FALSE
  Faults <- AnyFault
  MaxFaults = 2
INVARIANTS EnvHeld
PROPERTIES LeasesKept
SYMMETRY Symmetry
