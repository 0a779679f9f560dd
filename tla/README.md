# Verification of the decoupled GUI-agent RL system

DART-GUI trains a GUI agent with asynchronous reinforcement learning. Four parts
run beside each other and never wait for one another more than they must:
environments (remote desktops), rollout workers, a pool of vLLM processes that
serves the policy, and a trainer. They meet in an environment server, in Ray
reports, in two HTTP routes and in two MySQL tables. This directory holds TLA+
modules of these parts, TLC configurations that check them on small instances,
and theorems about them with proofs checked by TLAPS.

Paths below are relative to the repository; line numbers are those of the commit
modelled. `PROJECT.json` names for every definition the lines it translates.

## 1. Inventory

### The parts and how they interact

```
 task file -> task_loader -> agent_coordinator --starts--> runner actors (Ray)
                 ^                |  ^                       |   |      |
   reward.txt    |        cleaner |  | reports: result, id   |   |      | /generate
                 |                v  |                       v   |      v
                 |          environment server <---lock/release  |  model service pool
                 |                                               |  (vLLM per GPU)
                 +----------- storage_actor <--------------------+      ^
                                                                 |      | /reload
                                             mysql_writer <------+      |
                                                 |                      |
                     rollout_run, checkpoint (MySQL) <--- ray_trainer_async
                                                 |                ^
                                                 +--> dataset iterator
```

| Part | Source | State | Operations |
|---|---|---|---|
| Model service pool, lifecycle | `validation/model_service.py` | `service_instances` (GPU id to instance), the monitor handle, checkpoint paths; one vLLM process per instance | initialize, replica monitor (probe, remove, restore), `/reload` (rolling, in batches), `/add_service_by_id`, `/remove_service_by_id`, `/shutdown` |
| Model service pool, requests | same, 736-796 | `requests_in_flight` per instance | route to the least loaded instance, forward, release |
| Agent coordinator | `validation/agent_coordinator.py`, `run.py` | task queue, poll count, `active_tasks`, `task_to_service_map`, `active_service_ids` | clean up orphans, fill the queue, start tasks, exit test; two coroutines per task follow its result and its environment id |
| Trajectory runner | `validation/trajectory_runner.py` | its environment, the dialogue, the event `env_ready` | run_episode (lock, steps, reward, store, close), get_service_id |
| Environment client | `validation/env_k8s.py` | the id it has locked | lock with retries, step, release, list, release all |
| Task loader | `validation/task_loader.py` | none but the files | read the tasks, skip those with a reward (`resume`) |
| Storage actor | `validation/storage_actor.py` | files of an episode | save_task_config, save_frame, save_reward, ... |
| MySQL writer | `validation/mysql_writer.py` | `rollout_run` rows, group table | insert a trajectory with its chunks (upsert), rebuild the trainable groups |
| Tables | `verl/utils/database/mysql.py` | `rollout_run`, `checkpoint` | insert and read checkpoints, read rollouts, count uses |
| Training dataset | `verl/utils/dataset/osworld_dataset_iter.py`, `trainable_filter.py` | wait counters, position in the task groups | poll, choose rollouts by model version and accuracy, rotate groups |
| Asynchronous trainer | `verl/trainer/ppo/ray_trainer_async.py`, `rollouter_reload_model.py` | global step | fit: batch, update, save checkpoint, insert its row, `/reload` |
| Storage splitter | `validation/trajectory_splitter.py` | none | cut an episode into chunks |
| Trainer's splitter | `verl/trainer/ppo/trajectory_splitter.py` | none | one training row per answer, with the log-probabilities that belong to it |
| Path of a batch | `ray_trainer_async.py` (`_up_sample`), `verl/protocol.py`, `decorator.py`, `dp_actor.py`, `seqlen_balancing.py` | the rows of one step, what each rank still has to run | bring the batch to a divisible size, dispatch, cut into mini- and micro-batches, join the results |
| Streaming task scheduler | `verl/workers/rollout/osworld_env/streaming_task_scheduler.py` | task queue, worker tasks, `running` | add, work, stop, drive |
| Smart data manager | `verl/utils/dataset/smart_data_manager.py` | use counters | choose and count |

The training library under `verl/` (fork of verl), agent prompts, evaluation
examples, data files and plotting scripts hold numeric code or no state at all.

### What is hard here

* **One event loop, several coroutines.** The pool and the coordinator are asyncio
  programs. What interleaves are the coroutines at the awaits that really suspend:
  the pool's monitor against a rolling reload, two reloads, a shutdown against a
  restore; the coordinator's main loop against the reports of its runners.
* **Identity by a reusable name.** The pool addresses instances by GPU id and asks
  their health of a port. The coordinator keeps environment ids that the server
  hands out again. Everything that is late acts on the next user of the name.
* **What is known to one coroutine only.** Between its launch and its
  registration a process is in no table; a cancellation or an exception there loses
  it. The same holds for an environment whose lock was answered too late.
* **Failures in the middle.** A dead process, a failed launch, a slow start, a
  health probe that times out; a dead runner, a failed release, a lost answer, a
  failed reading, a restart of the whole job.
* **Settling.** The pool must come back to its size, the loop must end, an
  environment that was lost must be found.
* **Limits kept in two places.** The runner trims its dialogue as it goes; the trainer
  and the storage splitter rebuild what the model saw from the whole conversation, with
  limits of their own.
* **Ranks that must meet.** Each rank cuts its rows by itself; every forward pass of a
  sharded model is a meeting of all ranks.
* **Versions.** A rollout is stored under one model version while the pool may be
  between two, and the checkpoint row is written before the reload.

`PROJECT.json` lists each hazard at its line with the properties that would catch
it, or the reason why none does yet.

### What makes each part correct

* Pool: every live process has exactly one owner; a rolling reload leaves no old
  model behind and keeps the rest in service; no monitor works beside it; what an
  entry says is what its port serves; the pool returns to its size.
* Requests: the counters are exact; a request fails or is refused only when an
  instance really is taken away.
* Coordinator and runners: an environment belongs to one episode; the cleaner takes
  none from an episode and finds every lost one; every task is started as often as
  asked; the loop ends.
* Data pipeline: a batch holds what GRPO can compare; a failed rollout is trained on
  once and only while its model is recent enough; the pool produces such rollouts;
  versions follow the steps and a restart finds its checkpoint.
* Episode: the dialogue is the latest part of the conversation; a row in the database
  can be read back from disk; the trainer's rows are the prompts the model was given.
* Path of a batch: no rank waits alone; every row is trained on once with its own
  log-probabilities and the right weight; rows that fill the batch up do not weigh on
  the others.
* Streaming scheduler: no task is lost, none executed twice, `stop()` returns.

## 2. Modules

| Module | What it is |
|---|---|
| `ModelServicePool` | lifecycle of the pool, with the vLLM processes |
| `ModelServing` | the pool composed with its requests (extends the former) |
| `AgentCoordinator` | coordinator, runners, environment server, cleaner, restart |
| `PolicyService` | what the pool promises: which checkpoints may come into service; implemented by `ModelServicePool`, used by `AsyncTraining` |
| `EnvLease` | what an episode may expect of its environment: a lease nobody else touches; implemented by `AgentCoordinator` |
| `TrainableFilter` | `filter_fn`, the choice of trainable rollouts, as a pure operator |
| `AsyncTraining` | the training loop: rollout workers, `PolicyService`, tables, dataset, trainer and its checkpoints (extends `TrainableFilter`) |
| `TrajectorySplits` | conversations, and the two ways they are cut up, as pure operators |
| `Episode` | one episode: the runner's dialogue window, its files and its row (extends `TrajectorySplits`) |
| `SeqlenBalancing` | the Karmarkar-Karp split of a batch by length, as pure operators |
| `BatchPath` | one training step from the rows to the optimizer steps, over a group of ranks (extends `SeqlenBalancing`) |
| `StreamingScheduler` | the scheduler of tasks inside the trainer, its driver and workers |
| modules named `...Proofs` | theorems and proofs about the module before the suffix |
| modules named `MC...` | small instances for TLC |

Definitions keep the names of the code where they are the same thing
(`task_to_service_map`, `requests_in_flight`, `default_ckpt_path`). A definition
whose comment starts with "Mutant:" is not part of the model: it is a plausible
wrong version of the definition after it, used to see that a property can fail.

### ModelServicePool

A step is what a coroutine does between two awaits that suspend. `job[t]` is
coroutine `t` with the local variables that survive an await (the batch of a
reload, the GPUs chosen, the instances it waits for). The start-up, the monitor, a
reload, and the add, remove and shutdown routes share the steps `Select` (ask the
GPUs), `Launch` (ports probed, processes started), `Enter` (all ports answer,
register), `ReadyTimeout` and `Drained`, as they share `_add_n_service_instance`,
`_remove_service_instance` and `wait_for_model_pool_ready` in the code. The three
asyncio locks of the class guard no suspending await and are never contended.

A process (external) is `starting`, `up`, `stopping` or `dead`; it holds GPU memory
and port while up or stopping. Readiness and health are asked of the PORT, as in the
code, whoever answers there. The availability flag of a GPU is overwritten by
every reader, so the probe stands for it. `cancel()` of the monitor takes effect at
the await it is suspended in; what it had launched goes on running.

`Raised` is what an exception does: the monitor logs it and sleeps on, a reload
ends. After an exception in one of several launches nobody waits for the rest.

### ModelServing

A request holds the instance OBJECT it was routed to, which outlives its pool entry;
choice and increment are one step, because no await separates them; the release is
the `finally` of the context manager. vLLM answers a request for the model it serves
and refuses any other, so a request to a port that another checkpoint now serves
fails.

### AgentCoordinator

`pc` is the place in `start_rollout`. Its callbacks can run only at the places where
the loop suspends; the cleaner makes blocking calls, so nothing of the coordinator
runs beside it, though the runners, which are other processes, do. Each runner has
its own `run[r]` and reports through `mail`: its result, and the id of its
environment once it has one. With `Overtaking = FALSE` reports are handled in the
order they were made; with TRUE those of different actors may overtake each other,
as nothing in the code orders them.
`Close` releases the environment and makes the runner's report in one step. In the code
the next user can lock the environment, and report it, in between; that its report then
comes first is one of the orders `Overtaking = TRUE` allows, and "in order" excludes.

* The queue is the number of copies of each task in it: no property looks at their
  order, and `Start` may take any.
* The server locks a free environment; release frees it whoever asks, as
  `/server/release` takes only an id.
* `Lost` is the holder of an environment that nobody will release: its runner died,
  its release failed or its answer was lost. Only the cleaner or a restart frees it.
* `Age` says when an environment is older than `env_cleanup_timeout` (300 s). It
  assumes that the id of an environment in use has long been reported by then;
  without this the cleaner would be wrong in an uninteresting way (an id that takes
  five minutes to travel).
* `finished` is `reward.txt` on disk: it survives a `Restart`, which loses everything
  else and calls `release_env` first.
* The graceful exit is left out, as nothing in the repository raises the exception
  that would ask for it. So are the counters that only feed the log. The 180 s limit
  of `wait_for_env_ready` cannot expire before the event is set, because
  `_init_env` blocks the loop that would notice.

### PolicyService

The abstract specification of the pool. All that is left of it are the two paths it
keeps and the set of checkpoints whose instances requests can be routed to. A reload
switches the paths; instances leave and enter at any time and in any number, but what
enters runs the default. `ModelServicePool` maps `serving` to the checkpoints of the
registered instances (`ServingCkpts`) and implements it when reloads are serial
(`PolicyServed`, checked in `pool_faults`, proved as `PoolImplementsService`): a monitor
that has launched an instance of the old checkpoint is cancelled before it could
register it. With overlapping reloads an earlier default can come into service late.

### EnvLease

The abstract specification of the environments. All that is left are the leases, one
environment per episode at most, and the environments that are locked for nobody. A lease
ends with its episode or with the whole job, never by a release that somebody else asks
for. `AgentCoordinator` maps `lease` to the environment of each busy runner (`LeaseOf`) and
`leaked` to what the server has locked for `Lost` (`LostEnvs`). It implements the leases as
long as reports arrive in order (`LeasesKept`, checked in `coordinator_faults`, proved as
`RolloutImplementsLeases`). In finding 1 the cleaner frees an environment in use, and the
server may lease it twice.

### TrainableFilter

`filter_fn` denotes the set of its possible results, because the code samples at random.
A row is known by its position in the table, which is the order of `(create_at, id)`.
The reward column is a double, -1 where there is none; here it is an integer in units of
1/`Full`, so that half a success is a value of its own. The code tells rewards apart as
positive, zero and none, and forms a mean: `Positive`, `Negative` and `Total` are these.
`rollout_n >= 2`: with one row per task the code keeps two where there are both kinds.

A group of partial successes alone passes the filter: its mean is above zero, so it is not
repaired, and below `acc_max`, and it has no failure, although the docstring of `filter_fn`
speaks of at least one negative. `Contrastive` says what does hold: in
every task a batch has `rollout_n` rows and a positive one, and a zero one if the
unused rows of the task have one, as they must where its episodes fail or succeed
entirely.

### AsyncTraining

A model is named by the global step of its checkpoint; 0 is the model the pool starts
with. A worker's episode is the model of its last answer (`model_path`); of which task it
was is chosen when it is stored. `Store` is the transaction of the MySQL writer. The
trainer (`pc`) goes `poll`, `train`, and when a save is due `save`, `insert`, `reload`:
the three steps of fit that other components see, between any two of which it may die.
`Select` is the body of `__iter__` behind the wait loop: `filter_fn` over the rows of the
latest `top_mvs_n` versions, rotation, truncation to `batch_max` tasks and one use mark per
row. One mark may fail (the exception is only logged), and the trainer may die among
the marks. `Start` is fit up to its loop, with the checkpoint the tracker file names. A
death loses what the process knows: the batch, the rotation, the wait counter and the
list of saved paths; the tables, the files and the pool stay.

* A reload that is lost, refused or skipped (the pool skips it when no instance is
  registered) is the fault `reload`.
* `wait_num` stops at `max_wait_num`, as only the comparison with it is used.
* `trained` and `faults` are histories.
* A failing read of the tables ends the iterator like a death.
* The pool is taken as it is with serial reloads; nothing checked here depends on that,
  since the filter looks at the version that is stored with a row.

### Episode and TrajectorySplits

A message is a role, the number of its text and its images; frames are numbered by the
step after which they were taken, answers in the order they were given. `win` is what the
runner keeps (`prompt_dialogue`, `save_dialogue`, `image_refs`, and the frame in
`base_messages[1]`), `full` is `save_dialogue_full`, `served` a history of the prompts the
model has answered, `disk` the files. A step is what happens between two calls of another
actor; each of them may raise or the actor may be killed there. Locking and releasing the
environment are in `AgentCoordinator`.

* `Trim` is the loop of `_trim`, whose body runs at most once, because it is called after
  each message.
* With `max_steps = 1` the start time of the step is never taken and the line that logs it
  raises after the partial trajectory is stored. With a prelaunched model and
  `write_to_mysql` the name `model_path` is unbound: no row is inserted. Both are in the
  model.
* `base_messages_for_save`, which is used once the first frame has been trimmed or not,
  drops the text of the plan that some prompts carry; texts are not told apart here.
* The trainer's limits (`limit_images`, `limit_messages`, repeated in its launch script) are
  taken to be the runner's, and `max_images <= max_texts`; otherwise `TrainedOnPrompt` fails.
  The repository's examples give the runner 30 texts and the trainer 35.
* `usable` in `RowsWithLogProbs` are the answers whose log-probabilities and token ids the
  trainer's splitter can use: it leaves a row out when the file is missing, cannot be read or
  does not match. The property quantifies over every such set. Nothing in `src/` writes
  these files.
* `ChunkContext` (finding 3) is stated for windows of `max_images` turns, as the configurations
  have them. `ChunkContextButOldest`, which is proved, is what a chunk shows instead. A last
  window that is not full gives no chunk.
* Tokenisation, masks and the thread pool of the trainer's splitter (threads over
  different trajectories) are left out.

### BatchPath and SeqlenBalancing

A row is the number of the splitter's row it is a copy of, and whether it only fills the
batch up. `stage` is the driver's place in fit; `at[r]` what rank `r` does; `pieces[r]` the
mini-batches still to cut, `micros[r]` the micro-batches still to run. `Rearrange` (the
`all_reduce` of the number of micro-batches), `Forward` and `OptimizerStep` are collectives:
they are enabled when all ranks have come to them. A rank that raises makes the driver's
`ray.get` raise; one that waits alone would be a deadlock of the model.

* `mini` is the mini-batch size as the workers have normalised it (fsdp_workers.py:154-166),
  which is what `get_config` returns to the driver, so that `n_mod` is right.
* The set of states on the heap of `karmarkar_karp` is popped in the order of `State.__lt__`;
  ties of spread and first set are impossible, as first sets differ.
* Rows of a batch are padded to one `width`, of which `lens` counts the tokens. With a dynamic
  size `JoinReduce` raises when a row is wider than `max_token_len`, as
  `rearrange_micro_batches` asserts before the ranks agree; the width is the same for all ranks.
* With padding, fit multiplies all advantages by `target_size / orig_size` (`SampleRatio`, kept in
  parts of `orig_size`). `PaddingInert` weighs a row by it in the mean over all rows that the
  optimizer steps took: this is the policy loss with sequence means, over the batch as a
  whole, not step by step, as the filling rows are not spread evenly. It says nothing of terms
  that do not contain the advantage: `update_policy` selects `padding_mask` and never uses it,
  so the KL and entropy terms count filling rows, and with token means so does the denominator
  of the policy loss.
* `max_token_len` is only a target: three rows of three tokens and a limit of five give two
  micro-batches, one of six tokens, though the docstring of `rearrange_micro_batches`
  (seqlen_balancing.py:251) speaks of a maximum. Nothing relies on it.
* The `except` of the padding variant only prints and returns the batch as far as it got; it
  is left out. Passes of a reference policy and of a critic are cut in the same way and are
  left out too. One epoch per batch, no sequence parallelism. `equal_size` and
  `_balance_batch` are not used by the asynchronous trainer.
* No liveness formula: its evaluation over the partitions is beyond TLC. That nothing hangs
  is the deadlock check, with `CollectivesMatch`.

### StreamingScheduler

All coroutines run on one event loop; in the blocking variant an episode blocks it, in the
other (`..._with_service.py`) it runs in a thread. The driver puts every task before it
first suspends: the queue is unbounded and the number of free slots is computed from
`active_tasks`, which is still empty (so the promise of `M // rollout_n` concurrent tasks
rests on the number of workers alone). All workers wait in `get()` before the first of
them takes a task, as `asyncio.wait_for` of Python 3.10 makes a task of its own
(validation/pyproject.toml:14, environment.yml:39). The loop runs what is ready in the
order in which it became ready: all workers have called `get()` before the first answer reaches
one (`Called`), and those that have an answer go on with their task before the driver, or a
second `get()`, that one of them makes ready (`Entered`). `dirs` is what a kill leaves. At least one worker: with
`total_envs < rollout_n` there is none and the driver polls for ever.

## 3. Runs

Each run has the fault set, the number of faults and the number of calls as named
constants. All of them finish in less than three minutes.

| Run | Instance | Shows |
|---|---|---|
| `pool_faults` | 2 GPUs, 2 replicas, 2 checkpoints, all routes, any fault; 1 fault, 2 calls, 3 coroutines, 6 processes | `SingleOwner`, `OldOnlyInTodo`, `MonitorPaused`, and the refinement `PolicyServed` |
| `pool_crash` | 3 GPUs, 2 replicas, one crash, failed start, slow start or late probe | `PoolSettles`: with a GPU to spare, the monitor restores the pool |
| `serving_reload` | 2 GPUs, 2 callers, 2 reloads, no faults | requests and pool together: exact counters, no orphan, entries tell the truth, requests fail or are refused only for a stated reason, nothing is overwritten, the pool settles |
| `coordinator_faults` | 1 task started twice per reading, 3 runners, 2 environments, 2 readings, resume, any two faults, reports in order | `EnvHeld`, `LeasesKept` |
| `coordinator_leaks` | 1 task started twice per reading, 2 runners, 2 environments, one crash, failed release or lost answer | `AllLooped`, `NothingHeldAtExit`, and the liveness `WorkEnds`, `LeakReleased` |
| `coordinator_overtaking` (violation) | reports may overtake each other | finding 1 |
| `training_crashes` | 1 task, 4 rows with no, half or full reward, 3 steps with a save each; one death of the trainer, one lost mark, one lost reload, one failed model call | `TrainedOnce`, `BoundedStaleness`, `ServedOnPolicy`, `VersionsInOrder`, `LatestOnDisk`, `Contrastive` |
| `episode_window` | windows of 1 to 3 images and texts, chunks of 1 to 3 turns, episodes of 1 and of up to 7 steps; a failure or a kill at any call | `TypeOK` with the references of the window, `WindowIsLatest`, `TrainedOnPrompt`, `LogProbsOfAnswer`, `RowReadable` |
| `episode_context` (violation) | 2 images, 3 texts, windows of 2 turns that do not overlap, up to 7 steps | finding 3 |
| `batch_path` | 2 ranks, up to 5 rows of up to 3 tokens (8 rows for parts of four), mini-batches of 1 to 4 rows, every combination of padding, images and dynamic size, a cap of 4, rows as wide as a micro-batch may be, narrower, or wider | `CollectivesMatch`, `FailsOnlyIfRefused`, `LogProbsAligned`, `StepsWhole`, `PaddingInert`; no deadlock |
| `streaming_tasks` | 4 tasks, 2 workers, both variants, 2 kills | `Accounted`, `ReturnedComplete`, `AtMostOnce`, and the liveness `SmallRunReturns` |
| `streaming_stop` (violation) | 3 tasks, 1 worker, both variants, no kill | finding 2 |

The types of the pool, the coordinator, the training loop and the scheduler are theorems, and
no run repeats them. `CleanupOnlyOrphans`, refuted with overtaking reports, is a theorem with
reports in order; the release of an environment in use breaks `EnvHeld` in the same step,
so `coordinator_faults` checks that alone. `RotationMovesOn` only says something of several
tasks to choose from, and is a theorem.

### Why the bounds are enough

*Pool.* The interesting cases need a batch smaller than the pool, a coroutine that
resumes after another one has changed the table, and a GPU that changes hands: two
GPUs, two checkpoints and three coroutines (monitor, reload, one route) give all
three. `MaxInst = 6` allows the start-up, a full reload and a restore. A third GPU
matters only for the restore of an instance whose dead process still holds its GPU,
which `pool_crash` has. One fault together with two calls reaches every combination
of a reload with a failing launch, a slow start or a dying process.
The safety results hold for all values by the theorems below.

*Coordinator.* Three runners over two environments let one episode end, a second
take its environment and a third wait for one, while the reports of the first are
still in the mail: the shortest case in which a name is reused before its
bookkeeping is done. Two readings let a task be in the queue, running and finished
at once. Two faults give a restart after a crash or after a lost answer. `max_concurrent_envs = 2` is below the number of runners, which bounds the
number of settled runners whose late reports can still arrive.

*Training.* With two rows per task and rewards of none, half and one, four rows give groups
that must be repaired, groups that must be trimmed, groups of partial successes alone, and
a second batch of the task. Three steps
with a window of two versions make a version leave the window; two checkpoints
kept make the third save remove the first. Faults are counted per kind, and the bounds
of `TrainedOnce`, `BoundedStaleness` and `ServedOnPolicy` are stated in those
counts, so that one fault of each kind shows both sides of them. Rows without a reward
and several tasks are in the theorems, not in the run.

*Episode.* Seven steps push the first frame and, with windows of three, the first texts out
of the dialogue, and with them both kinds of removals around references that must move.
Chunks and rows of every shape the splitters know (first, middle, last, none) appear.

*Batch.* Two ranks whose rows differ in length show every disagreement two ranks can have;
with three rows per rank a split into two micro-batches has a choice, with four the method
merges sets of several rows. Cap and sizes are chosen so that some divide and some do not.

*Scheduler.* One task more than twice the number of workers is the least number at which `stop()`
hangs; `streaming_tasks` has twice the number, at which it does not, and two kills give a
restart after a restart.

Symmetry is used only in runs without liveness, over coroutines (no definition
chooses one), and over runners and environments.

Runs of the pool set `CHECK_DEADLOCK FALSE`: without a call and with the bounded
number of processes used up, the model stops, as the real pool idles.
The coordinator's runs check deadlock; a returned loop stutters (`Over`). The training
runs set it too: the table is full at `MaxRows`, and training is over when it is done.
So do the episode's and the scheduler's: they end. `batch_path` checks it (`Ended` stutters).

### Fairness

*Pool* (`FairSpec`): weak fairness of each coroutine's steps, because the event loop runs
every ready coroutine and every await has a timeout; weak fairness of loading,
clashing and stopping of a process, because a start ends and a kill follows an ignored
SIGTERM. Nothing is assumed of callers or faults.

*Coordinator* (`Fairness`): weak fairness of the main loop and of each runner (every
step of an episode has a timeout or a bounded number of attempts). Strong fairness of
the callbacks: the main loop suspends again and again, and asyncio runs what is due when
it does; they are not continuously enabled because the loop is not always suspended. Weak
fairness of ageing: time passes. Strong fairness of `Clean`: the loop, which wakes at
least every second, comes by after `env_cleanup_interval` again and again, and could
otherwise choose `SkipCleaning` for ever.

*Streaming scheduler*: weak fairness of the driver's steps and of each worker, because the
event loop runs every coroutine that is ready and episodes end (a limit of steps, timeouts
of requests). Kills are not fair.

## 4. Findings

1. **Completion overtaken by the next registration** (`coordinator_overtaking`).
   `active_service_ids` is a set: handling the completion of the previous user of an
   environment late removes the id of the present one (agent_coordinator.py:448), and
   the cleaner then releases an environment in use.
2. **`stop()` waits for a queue its workers have left** (`streaming_stop`). `running` is
   cleared (streaming_task_scheduler.py:256) before `join()` (259); a worker leaves its loop
   after the task in hand, and a task that is still queued is never marked as done. The
   driver calls `stop()` as soon as it wakes up with no task active. Each worker has its first
   task before the driver can wake, and asks for a second one before the driver finds
   none active: a run with more than twice as many tasks as workers need not return, a smaller
   one does (`SmallRunReturns`).
3. **Chunks show one text fewer than the prompt** (`episode_context`). A comment of the storage
   splitter says that the texts it keeps are "consistent with the rollout"
   (validation/trajectory_splitter.py:131). It keeps, before a window of `max_images` turns,
   `max_texts - max_images` answers (storage_actor.py:17); the window has
   `max_images - 1` more before its last one. Once the runner's window of texts is full, the
   prompt of that answer had one text more. In the run the fourth prompt shows texts 1 to 3, the
   chunk that ends with the fourth answer 2 and 3. The trainer does not read chunks (section 6).

Behaviours the models have because the code has them, stated by no run:

* **Overlapping reloads.** `/reload` starts a task and answers. A second one that comes
  while the first has its batch out of the pool finds no old instance and starts a monitor
  (model_service.py:888) beside the reload that was meant to run alone (873). The results
  about reloads therefore assume serial ones.
* **A reused port hides a dead instance.** The health check asks the port (589). If an
  instance dies while another is being restored, the new process takes the dead one's port,
  both entries look healthy for good, and the pool stays one short.
* **Shutdown, or a reload, during a restore.** Processes launched and not yet registered are in
  no dictionary; `_shutdown_all_services` does not see them (434).
* **A resumed job that has nothing left does not end.** An empty reading is not counted as a
  poll (agent_coordinator.py:279, 304), so the exit test (372) is never true, though run.py:75
  speaks of leaving the loop when all tasks are done.
* `/add_service_by_id` never registers the instance it starts; a launch or readiness failure of
  one of several instances leaves the healthy ones running and unregistered; a reload
  that fails leaves the pool without a monitor until the next reload.
* An exception in `start_rollout` ends it with the value of a completed run and tasks left
  (383-392); a runner that gets no environment reports success; a task whose actor Ray
  cannot create is not put back (313).
* The dataset's message about not enough data (osworld_dataset_iter.py:308) comes only when
  there is enough after a long wait (the comparison is behind the `continue` of the
  other case), so that an empty table is polled for ever.
* An episode that dies after `reward.txt` and before its row is taken as done by resume and never
  seen by the trainer; a task of the streaming scheduler that is killed is skipped by the
  next run, because its directory exists.
* A batch that is already divisible makes `_up_sample_with_padding` return a batch where its
  caller unpacks a pair (ray_trainer_async.py:586, 177); one of more than 768 rows is cut to 768
  whether `n_mod` divides that or not (523); multi-modal rows need a part that
  `log_prob_micro_batch_size` divides (dp_actor.py:335); with a dynamic size rows must not be
  padded wider than `max_token_len` (seqlen_balancing.py:263). These are the four exceptions
  of `FailsOnlyIfRefused`. With images and a dynamic size the weight of a micro-batch is the number
  of keys of a dict (dp_actor.py:565), which `StepsWhole` excepts.

## 5. Theorems

Proved for every value of the constants allowed by the assumptions of each module.

| Theorem | Says | Argument |
|---|---|---|
| `PoolTypeCorrect` | `Spec => []TypeOK` | by action; `Launch` needs that the position of a GPU in the chosen set is below the set's size (`RankBelowSize`), which keeps new instances within `Inst` |
| `PoolSingleOwner` | `Spec => []SingleOwner`, also with overlapping reloads | `SingleOwner` with `Created`: what anyone refers to has been created, so a launch is fresh. Steps that neither launch nor register are `Quiet` (owners only shrink); `Launch` and `Enter` are proved on their own |
| `ReloadReplacesOld` | with serial reloads `[]OldOnlyInTodo` | `ReloadInv`: which awaits a coroutine can be in (`JobShape`), only the monitor the handle names is alive and the start-up runs alone (`Handle`), so that a reload is exclusive (`Exclusive`). Without it a monitor could register an instance of the old checkpoint late |
| `ReloadPausesMonitor` | with serial reloads `[]MonitorPaused` | the same invariant; with overlapping reloads it is false (section 4) |
| `InFlightExact` | `ServingSpec => []InFlightMatches`, whatever happens to the pool | the number of holders of an instance changes by one with the counter (cardinalities of the set of holders) |
| `NothingOrphaned` | in a calm pool `[]NoOrphan` | `CalmInv`, below |
| `EndpointsServe` | in a calm pool `[]EndpointServesCkpt` | `CalmInv`: no two processes share a port (`Apart`) |
| `NothingOverwritten` | in a calm pool `NeverOverwritten` | `CalmInv`: what is registered was waited for, and its GPU was free when it was launched |
| `OnlyFullBatchRefuses` | in a calm pool `ServingSpec => RefusedOnlyByFullBatch` | `CalmInv`: what the pool lacks is what the coroutine at work owes it, at most one batch |
| `OnlyRemovalFails` | in a calm pool `ServingSpec => FailsOnlyIfRemoved` | `CalmInv` with the types of the requests: a registered instance is up and serves its model name |
| `CoordinatorTypeCorrect` | `Spec => []TypeOK` | by action; `Taken` leaves a sequence of reports (`TakenType`) |
| `EveryTaskLooped` | if every reading succeeds and every actor can be created, `[]AllLooped`, under all other faults, restarts and orders of reports | `Accounted`: for a task that resume does not skip, copies in the queue plus starts are `rollout_n` times the readings. `AllLooped` alone says nothing before the end. The two excluded faults do break it: a failed reading ends the loop, and a task whose actor cannot be created is not put back |
| `PoolImplementsService` | with serial reloads `Spec => PolicyServed`, the refinement | `Current`: whoever waits and will register has launched with the present default. It needs `ReloadInv`: when a reload changes the default, the monitor is cancelled, the start-up is over and no other reload runs. `add_service_by_id` is excepted, as it never registers |
| `TrainingTypeCorrect` | `Spec => []TypeOK` | by action; what `filter_fn` returns are rows of the table (`SelectionRows`), a removal leaves a part of the list of saved paths (`KeptProperties`) |
| `VersionsNeverRepeat` | `[]VersionsInOrder` | `RegisteredInv` with `StepsInv`: the tracker file is ahead of every registered version, and strictly so until the step just saved is registered. The order of save and registration is what makes it inductive |
| `RestartPossible` | `[]LatestOnDisk` | `SavedInv`: the saved paths are increasing and end with the step of the tracker file, so that the removed ones, a proper prefix, do not contain it |
| `FailuresTrainedOnce` | `[]TrainedOnce` | `UsesInv`: uses, the batch in training included, against the use mark; a row that is not a success is selected only unmarked, because the repair brings in successes only (`RepairedRows`) |
| `PoolServesWindow` | `[]ServedOnPolicy` | `FollowsInv`: the pool's checkpoint is a registered one, and the registrations after it are at most the reloads that were lost, are still to be sent, or died with the trainer. `ServedOnPolicy` alone does not say which version is served once too many are missed, so a later step could not be proved from it |
| `StalenessBounded` | `[]BoundedStaleness` | `PaceInv`: saves are at most `save_freq` steps apart, and the i-th last registered version is at most i saves back, deaths added; with it the oldest version of the window is bounded, and `BatchInv` carries the bound through training, where the step does not change |
| `BatchesContrast` | `Contrastive`, for any rewards between 0 and 1 | `RepairedContrasts`: a group that is repaired has no positive row, so that what it gets was not in it and the number stays; it keeps a zero row of the two or more it had. A group of full successes and failures only has a failure, as its mean is below `acc_max` (`TotalOfFull`), and trimming keeps both kinds. That the oldest and the newest row exist needs the least element of a finite set (`SmallestOf`, from the well-foundedness of the subset ordering) |
| `RotationGoesOn` | `RotationMovesOn` | the task last used has the turn -1 modulo the number of tasks, which is the last (`LastIsLast`); a batch that does not take all tasks leaves it out |
| `HeldByNobodyAtExit` | if every reading succeeds, `[]NothingHeldAtExit`, under all other faults and orders of reports | `HeldInv`: what the server has locked for a runner is what that runner works with; `LifeInv`: a runner has an environment exactly while it is busy, and has ended exactly while its result is in the mail. The loop returns only with no task active. A failed reading ends the loop with episodes running |
| `DesktopsNotShared` | with reports in order `[]EnvHeld` | `SafeInv`, below |
| `CleanerSparesEpisodes` | with reports in order `CleanupOnlyOrphans` | the same invariant; `SnapshotLost` is what the release needs |
| `RolloutImplementsLeases` | with reports in order `Spec => LeasesKept`, the refinement | `SafeInv` with `HeldInv`: what the server has locked for a runner is that runner's lease, so what it locks next is leased to nobody, and what the cleaner releases is `Lost` (`SnapshotLost`). Without `SafeInv` a release could end a lease from outside, which no step of `EnvLease` does |
| `TypeCorrect` (scheduler) | `Spec => []TypeOK` | by action |
| `TasksAccounted` | `[]Accounted` | inductive with `TypeOK`: a task leaves the queue for one worker, and each put and `task_done` moves the counter with it |
| `ReturnsAllResults` | `[]ReturnedComplete` | `stop()` returns only when `join()` does, that is when the counter of `Accounted` is zero; `OnceInv` keeps queue and workers empty from then on |
| `ExecutedOnce` | `[]AtMostOnce` | `OnceInv`: a task was executed once exactly if it has a directory, and nothing queued or in hand has one |
| `RowsReadable` | `[]RowReadable` | `EpisodeInv`: a frame is on disk before it is part of the conversation (`FramesStored`), and what is on disk at each place of the coroutine (`Stored`). `RowReadable` says nothing of the steps before the row is there |
| `EpisodeTypes` | `[]TypeOK` | `DialogueInv`, below: the references in `image_refs` are the first frame's and those of the images of the window, in order (`RefsOfWindow`), and stay so when a message is removed and the indices behind it move |
| `WindowLatest` | `[]WindowIsLatest` | `DialogueInv` with `Latest`: the positions, in the whole conversation, of what the window shows. The body of `_trim` removes the smallest of them |
| `PromptsTrainedOn` | with `max_images <= max_texts`, `[]TrainedOnPrompt` | `FinalInv`: a stored conversation is over (`Finished`) and is what was said (`Told`). The row of an answer, cut and stripped of early images, is the messages at the positions of its prompt, moved by the two of the head |
| `LogProbsMatched` | with `max_images <= max_texts`, `[]LogProbsOfAnswer`, whichever answers are usable | the same, and the number, among the answers, of the last one a row contains (`LastOfRow`) |
| `ChunksInContext` | with `max_images <= max_texts`, `[]ChunkContextButOldest`: finding 3 is all that a chunk lacks | the answers before the window of a chunk and the window are the prompt of its last answer for a limit of one text fewer (`ChunkTold`), and that is the prompt without its oldest text (`PromptWithout`) |
| `CollectivesAgree` | `[]CollectivesMatch` | `BatchInvariant`, below: two ranks cut parts of one size into pieces of the same sizes, agree on the number of micro-batches, and run them together |
| `OnlyRefusedFails` | `[]FailsOnlyIfRefused` | `BatchInvariant` with `RaisesRefused`: a batch that divides is cut into parts that divide (`EvenParts`, `EvenPieces`), and the partitions pass the assertions (`PartitionsAreValid`); rows that are too wide are so on every rank |
| `LogProbsInPlace` | `[]LogProbsAligned` | `BatchInvariant`: the places a rank has run and still has to run are dealt out (`Deals`), at the end they are a permutation and `ReverseIdx` undoes it (`BackInOrder`); the parts of the ranks joined are the batch (`JoinedParts`) |
| `StepsTakeBatch` | `[]StepsWhole` | `BatchInvariant`: each step was taken with one mini-batch of the rank in some order, and all of them were taken (`AllRun`); joined they are the rank's part (`WholeSteps`) |
| `PaddingIsInert` | `[]PaddingInert` | the first rows of a padded batch are the splitter's, the rest padding (`Padded`), and the padding's uid is none of a task's (`PaddingApart`); the steps of all ranks together took every row of the batch (`AllUpdated`, from `StepsAtEnd` and the parts of the ranks), so that the factor is what the mean over them needs |
| `KarmarkarKarpPartitions` | what `KarmarkarKarp(len, k)` is, for all lengths and every k up to the number of rows | a heap of states that share no row (`GoodHeap`) stays one when its two first are merged; while a state has an empty set none of its sets has more than one row, so that no set is empty in the end (`FoldsHeap`, `StatePartitions`) |
| `BatchInvariant` | `[]BatchInv` | by action |

The invariant behind `NothingOrphaned` and the four theorems after it. The pool is `Calm` when
nothing fails, reloads come one after the other, and no other route changes the pool. Then
one coroutine is at work at any time (`Alone`), and every process is accounted for by the
pool or by that coroutine (`Accounted`). Neither fact is inductive by itself: the monitor
launches what the pool lacks, so one must know that it lacks nothing whenever the
monitor counts, that is that start-up and reload owe the pool exactly what it lacks (`Room`:
registered plus missing instances are `replicas`, over each launch, wait, registration and batch).
A launch takes the first free GPUs and ports; that it finds enough of them, all different, is
counted with the rank of a GPU among the free ones (`RankStrict`, `RankInjective`, `FirstOfSize`).
The hypothesis is needed, not convenient: with faults a dead instance's port is taken by
the next one and its entry looks healthy (section 4), and a monitor that is cancelled while it
restores an instance leaves it to nobody. TLC checked `CalmInv` on the configuration of
`serving_reload` and on a larger one before it was proved.

The invariant behind `DesktopsNotShared`. An environment in use could only be released by
someone else if the cleaner took it for an orphan, that is if its id were missing from
`active_service_ids`. It is entered when the runner's id is handled, and removed with the
result of whatever runner is filed under that id. So `InUse` (a handled id of an
environment in use is in the set) is kept only if a runner that used the environment
before is heard of before: `InOrder` says that its result is in the mail in front of the
present user's id, or that this id is still to be sent. Reports in order keep this;
finding 1 is the run in which they are not. `AgedInv` brings in that the id of an
environment old enough for the cleaner has been handled, and `SnapshotLost` that the list
the cleaner holds while it releases cannot go stale: nobody will ever work with these
environments again. TLC agreed that the conjunction is an invariant before it was proved.

The invariant behind the theorems of an episode after `RowsReadable`. Conversations are
compared by positions. `Alternates` says where the n-th answer and the n-th frame are;
`Latest` is the set of positions within the limits of the window; the window shows the
messages at these positions, in order, and `served[k]` is the same for the conversation
before the k-th answer (`PromptOf`). All of it is `DialogueInv`; `FinalInv` adds the
stored files. That two ways of cutting give the same messages becomes that two sets of
positions are equal, and removing a message that a set loses its least member
(`Nth`, the n-th smallest, is read off an increasing enumeration of the set). The hypothesis
`max_images <= max_texts` is what the configurations obey (section 2): without it the
trainer's cut removes a frame the prompt had.

The invariant behind the theorems of a batch. `CollectivesMatch` looks at two ranks that
run, and says nothing of how they got there: that the ranks are at the same piece is clear
only if pieces were cut from parts of the same size, which was done in steps of their own,
one rank at a time, and so on back to the batch. `RankOK` says what one rank holds at each
place: its remaining pieces are the last ones of its part (`InPart`), what it has run of the
piece in hand and what it has still to run are together the whole piece (`Running`: in order
with a fixed size, in any order with balanced partitions), what has come out is that of the
places it has run (`Result`), and each step it took was taken with one mini-batch (`Taken`).
`PairOK` says how far two ranks may be apart. `PieceTotal` and `PieceLen` do not name the
rank: the pieces of all ranks are alike, so that a rank raises where each other one does,
or none. The induction over the rows a rank has run is one over steps of the model;
the operators it starts from (`Cut`, `KarmarkarKarp`, `FlattenSeq`) are recursive functions,
reasoned about by the least argument where a statement fails (`Least`). TLC checked
`BatchInv` on five small configurations, one of them with three ranks, before it was proved.

Assumptions: only those named in the modules (`PoolAssumption`, `CoordinatorAssumption` and
so on), and the hypotheses the table states: a calm pool, serial reloads, no failed reading,
reports in order (`~Overtaking`), `max_images <= max_texts`.

Only model-checked: liveness (`PoolSettles`, `WorkEnds`, `LeakReleased`,
`SmallRunReturns`), which is out of the prover's reach. Every safety invariant and action
property of a passing run is stated by a theorem.

## 6. Not modelled

* `ModelServicePool.reload` (no route), `_wait_for_service_ready`,
  `_get_available_gpus`, `_maybe_refresh_dataset_bak`, `RemoteDesktopEnv.reset`,
  `AgentCoordinator.shutdown`: no caller.
* What the operating system does with a process that survives SIGKILL.
* The text of prompts and the parsing of answers; the waiting times between retries.
* The chunk table (written, never read) and the table of trainable groups (read by the
  older `osworld_dataset.py` only), deletions and metrics queries of the tables, dataset
  workers (`dataloader_num_workers` is 0 by default: the iterator runs inside fit).
* Logging, statistics, file formats.
* `get_status`, `get_stats` and the dataset worker index of the streaming scheduler.
* `verl/utils/dataset/smart_data_manager.py`: reads and writes the use counters of a table the
  asynchronous trainer does not use.
* The rest of the training library (a vendored copy of verl, most of the lines of this
  repository): model sharding, megatron, sglang and vllm rollouts, reward models, losses,
  optimisers and recipes. It is numeric code on tensors, or alternatives this repository
  does not launch.
* Agents, prompts, evaluation examples, data files, plots and the scripts that start a job.

## 7. Plan

Done, in this order: the pool, its requests, the coordinator with its runners, the
training loop over tables and checkpoints, the pool's abstract specification and its
refinement, the leases of environments and theirs, the episode with its window, files and
splitters, the path of a batch through the workers, the streaming scheduler, the theorems
of section 5. Left:

1. **The other passes of a step**: the reference policy, several epochs over a batch.
2. **Smart data manager**, once something launches it.
