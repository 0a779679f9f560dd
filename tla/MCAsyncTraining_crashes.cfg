SPECIFICATION Spec
CONSTANTS
  t1 = t1
  w1 = w1
  NoTask = NoTask
  NoModel = NoModel
  Task <- MCTask
  Worker <- MCWorker
  Reward <- MCRewards
  rollout_n = 2
  Full = 2
  acc_max = 2
  top_mvs_n = 2
  batch_min = 1
  batch_max = 1
  rotate_task_groups = TRUE
  max_wait_num = 1
  save_freq = 1
  total_training_steps = 3
  max_ckpt_to_keep = 2
  Faults <- AllFaults
  MaxFaults = 1
  MaxRows = 4
INVARIANTS TrainedOnce BoundedStaleness ServedOnPolicy VersionsInOrder LatestOnDisk
PROPERTIES Contrastive
CHECK_DEADLOCK FALSE
