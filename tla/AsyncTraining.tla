---------------------------- MODULE AsyncTraining ----------------------------
(***************************************************************************)
(* The asynchronous training loop.  Rollout workers play episodes with     *)
(* whatever checkpoint the model pool answers with and store them in the   *)
(* table rollout_run (trajectory_runner.py, mysql_writer.py).  The trainer *)
(* (fit of ray_trainer_async.py) draws batches from the table through      *)
(* OSWorldAsyncDataset.__iter__, and after a step saves a checkpoint,      *)
(* registers it in the table checkpoint and asks the pool to reload.  It   *)
(* may die anywhere and is started again from what is on disk.  A model is *)
(* named by the global step of its checkpoint; 0 is the initial model.     *)
(***************************************************************************)
EXTENDS TrainableFilter

CONSTANTS
  Task, Worker, NoTask, NoModel,
  Reward,                   \* rewards an episode can get, -1 if it has no result
  top_mvs_n,                \* checkpoints whose rollouts may be trained on
  batch_min, batch_max,     \* train_batch_size_min and _max: tasks of a batch
  rotate_task_groups,
  max_wait_num,
  save_freq, total_training_steps,
  max_ckpt_to_keep,
  Faults,                   \* what may go wrong
  MaxFaults, MaxRows        \* bounds: faults of each kind, rows of the table

Kinds == {"trainer", "reload", "mark"}

ASSUME TrainingAssumption ==
  /\ NoTask \notin Task /\ NoModel \notin Nat
  /\ Reward \subseteq {-1} \cup 0..Full
  /\ {top_mvs_n, batch_min, batch_max, max_wait_num, save_freq,
      total_training_steps, max_ckpt_to_keep} \subseteq Nat \ {0}
  /\ batch_min <= batch_max
  /\ rotate_task_groups \in BOOLEAN
  /\ Faults \subseteq Kinds
  /\ {MaxFaults, MaxRows} \subseteq Nat

VARIABLES
  rollout_run,   \* table: the stored episodes in the order of create_at
  checkpoint,    \* table: paths in the order of their versions v0, v1, ...
  model_path,    \* of a worker's episode: the model of its last answer, or NoModel
  default_ckpt,  \* pool: the checkpoint new instances load
  last_ckpt,     \* pool: the one before
  serving,       \* pool: the checkpoints its instances have loaded
  pc,            \* trainer: what it does next
  global_steps,
  batch,         \* rows of the batch in training
  last_used_task_id,
  wait_num,
  saved,         \* previous_saved_paths of the checkpoint manager
  disk,          \* checkpoints that are on disk
  latest,        \* latest_checkpointed_iteration.txt, 0 if there is none
  trained,       \* history: how often a row without success has been trained on
  faults         \* faults so far, by kind

poolVars    == <<default_ckpt, last_ckpt, serving>>
datasetVars == <<batch, last_used_task_id, wait_num>>
diskVars    == <<saved, disk, latest>>
trainerVars == <<pc, global_steps>>
vars == <<rollout_run, checkpoint, model_path, poolVars, datasetVars, diskVars,
          trainerVars, trained, faults>>

Row == [task_id : Task, model_version : Nat, reward : Reward, used : Nat]

Phase == {"down", "poll", "train", "save", "insert", "reload", "done", "failed"}

TypeOK ==
  /\ rollout_run \in Seq(Row) /\ Len(rollout_run) <= MaxRows
  /\ checkpoint \in Seq(Nat)
  /\ model_path \in [Worker -> Nat \cup {NoModel}]
  /\ default_ckpt \in Nat /\ last_ckpt \in Nat /\ serving \subseteq Nat
  /\ pc \in Phase /\ global_steps \in Nat
  /\ batch \subseteq DOMAIN rollout_run
  /\ last_used_task_id \in Task \cup {NoTask}
  /\ wait_num \in 0..max_wait_num
  /\ saved \in Seq(Nat) /\ disk \subseteq Nat /\ latest \in Nat
  /\ trained \in [1..MaxRows -> Nat]
  /\ faults \in [Kinds -> 0..MaxFaults]

\* What the rollout workers and the trainer rely on of the model pool.
Service == INSTANCE PolicyService WITH Ckpt <- Nat, FirstCkpt <- 0

Init ==
  /\ rollout_run = <<>> /\ checkpoint = <<>>
  /\ model_path = [w \in Worker |-> NoModel]
  /\ Service!Init
  /\ pc = "down" /\ global_steps = 0
  /\ batch = {} /\ last_used_task_id = NoTask /\ wait_num = 0
  /\ saved = <<>> /\ disk = {} /\ latest = 0
  /\ trained = [i \in 1..MaxRows |-> 0]
  /\ faults = [k \in Kinds |-> 0]

Fault(kind) ==
  /\ kind \in Faults
  /\ faults[kind] < MaxFaults
  /\ faults' = [faults EXCEPT ![kind] = @ + 1]

-----------------------------------------------------------------------------
(* Rollout workers.                                                        *)

\* A step of an episode: an instance of the pool answers.
Answer(w) ==
  /\ \E c \in serving : model_path' = [model_path EXCEPT ![w] = c]
  /\ UNCHANGED <<rollout_run, checkpoint, poolVars, datasetVars, diskVars,
                 trainerVars, trained, faults>>

\* All attempts fail: the step counts for the checkpoint before the current one.
NoAnswer(w) ==
  /\ model_path' = [model_path EXCEPT ![w] = last_ckpt]
  /\ UNCHANGED <<rollout_run, checkpoint, poolVars, datasetVars, diskVars,
                 trainerVars, trained, faults>>

\* The end of an episode: evaluation, and the row under the model of the last step.
\* Of which task the episode was is told here only.
Store(w) ==
  /\ model_path[w] # NoModel
  /\ Len(rollout_run) < MaxRows
  /\ \E t \in Task, r \in Reward :
       rollout_run' = Append(rollout_run,
         [task_id |-> t, model_version |-> model_path[w], reward |-> r, used |-> 0])
  /\ model_path' = [model_path EXCEPT ![w] = NoModel]
  /\ UNCHANGED <<checkpoint, poolVars, datasetVars, diskVars, trainerVars, trained, faults>>

-----------------------------------------------------------------------------
(* The model pool: what ModelServicePool promises, which is what it does   *)
(* while a reload ends before the next one begins.                         *)

\* Instances leave and enter: a reload replaces them in batches, the monitor restores them.
PoolStep ==
  /\ Service!Turnover
  /\ UNCHANGED <<rollout_run, checkpoint, model_path, datasetVars, diskVars, trainerVars,
                 trained, faults>>

-----------------------------------------------------------------------------
(* The dataset.                                                            *)

\* Mutant: one version more.
top_mvs_wide == {checkpoint[i] : i \in {j \in DOMAIN checkpoint : j >= Len(checkpoint) - top_mvs_n}}

\* get_latest_n_checkpoint_paths
top_mvs == {checkpoint[i] : i \in {j \in DOMAIN checkpoint : j > Len(checkpoint) - top_mvs_n}}

\* len(datasets) >= min_needed: every task of a selection has rollout_n rows.
Enough == Cardinality(Trainable(rollout_run, top_mvs)) >= batch_min

\* The place of a task in a selection: by its first row, whatever its version.
Place(sel, t) == Cardinality({u \in DOMAIN sel : \E i \in sel[u] : \A j \in sel[t] : i < j})

\* With rotation the tasks follow the last one of the batch before.
Turn(sel, t) ==
  IF rotate_task_groups /\ last_used_task_id \in DOMAIN sel
  THEN (Place(sel, t) - Place(sel, last_used_task_id) - 1) % Cardinality(DOMAIN sel)
  ELSE Place(sel, t)
\* update_rollout_used for the rows of M
Mark(M) ==
  rollout_run' = [i \in DOMAIN rollout_run |->
                    IF i \in M THEN [rollout_run[i] EXCEPT !.used = @ + 1]
                    ELSE rollout_run[i]]

Wait ==
  /\ pc = "poll" /\ ~Enough
  /\ wait_num' = IF wait_num < max_wait_num THEN wait_num + 1 ELSE wait_num
  /\ UNCHANGED <<rollout_run, checkpoint, model_path, poolVars, batch, last_used_task_id,
                 diskVars, trainerVars, trained, faults>>

\* RuntimeError("... but still not enough data ...")
GiveUp ==
  /\ pc = "poll" /\ Enough
  /\ wait_num >= max_wait_num
  /\ pc' = "failed"
  /\ UNCHANGED <<rollout_run, checkpoint, model_path, poolVars, datasetVars, diskVars,
                 global_steps, trained, faults>>

\* The batch, and its rows marked as used: one may stay unmarked (the exception is
\* swallowed), and the trainer may die in the middle.
Select ==
  /\ pc = "poll" /\ Enough
  /\ wait_num < max_wait_num
  /\ \E sel \in filter_fn(rollout_run, top_mvs) :
       LET taken == {t \in DOMAIN sel : Turn(sel, t) < batch_max}
           rows  == UNION {sel[t] : t \in taken}
       IN
       \/ /\ \/ Mark(rows) /\ UNCHANGED faults
             \/ Fault("mark") /\ \E i \in rows : Mark(rows \ {i})
          /\ pc' = "train" /\ batch' = rows /\ wait_num' = 0
          /\ IF rotate_task_groups
             THEN \E t \in taken : /\ \A u \in taken : Turn(sel, u) <= Turn(sel, t)
                                   /\ last_used_task_id' = t
             ELSE UNCHANGED last_used_task_id
          /\ UNCHANGED saved
       \/ /\ Fault("trainer") /\ \E M \in SUBSET rows : Mark(M)
          /\ pc' = "down" /\ batch' = {} /\ wait_num' = 0
          /\ last_used_task_id' = NoTask /\ saved' = <<>>
  /\ UNCHANGED <<checkpoint, model_path, poolVars, disk, latest, global_steps, trained>>

-----------------------------------------------------------------------------
(* The trainer.                                                            *)

is_last_step == global_steps >= total_training_steps

SaveDue == is_last_step \/ global_steps % save_freq = 0

\* The end of a pass through the loop of fit.
Advance ==
  /\ global_steps' = global_steps + 1
  /\ pc' = IF is_last_step THEN "done" ELSE "poll"

\* update_actor
Train ==
  /\ pc = "train"
  /\ trained' = [i \in 1..MaxRows |-> IF i \in batch \ Positive(rollout_run)
                                      THEN trained[i] + 1 ELSE trained[i]]
  /\ batch' = {}
  /\ IF SaveDue THEN pc' = "save" /\ UNCHANGED global_steps ELSE Advance
  /\ UNCHANGED <<rollout_run, checkpoint, model_path, poolVars, last_used_task_id, wait_num,
                 diskVars, faults>>

\* Mutant: one checkpoint too many is removed.
SurplusOffByOne ==
  IF Len(saved) >= max_ckpt_to_keep THEN Len(saved) - max_ckpt_to_keep + 2 ELSE 0

\* keep_start: how many of the oldest checkpoints are removed.
Surplus == IF Len(saved) >= max_ckpt_to_keep THEN Len(saved) - max_ckpt_to_keep + 1 ELSE 0

Removed == {saved[i] : i \in 1..Surplus}

Kept == SubSeq(saved, Surplus + 1, Len(saved))

\* _save_checkpoint: old checkpoints go first, the tracker file is written last.
Save ==
  /\ pc = "save" /\ pc' = "insert"
  /\ disk' = (disk \ Removed) \cup {global_steps}
  /\ saved' = Append(Kept, global_steps)
  /\ latest' = global_steps
  /\ UNCHANGED <<rollout_run, checkpoint, model_path, poolVars, datasetVars, global_steps,
                 trained, faults>>

\* insert_checkpoint: the next version of the run.
Insert ==
  /\ pc = "insert" /\ pc' = "reload"
  /\ checkpoint' = Append(checkpoint, global_steps)
  /\ UNCHANGED <<rollout_run, model_path, poolVars, datasetVars, diskVars, global_steps,
                 trained, faults>>

\* Mutant: the pool is sent the checkpoint registered before.
ReloadPrevious ==
  /\ pc = "reload"
  /\ Service!Switch(checkpoint[Len(checkpoint) - 1])
  /\ Advance
  /\ UNCHANGED <<rollout_run, checkpoint, model_path, datasetVars, diskVars, trained, faults>>

\* reload_model; its result is printed.
Reload ==
  /\ pc = "reload"
  /\ \/ Service!Switch(global_steps) /\ UNCHANGED faults
     \/ Fault("reload") /\ UNCHANGED poolVars
  /\ Advance
  /\ UNCHANGED <<rollout_run, checkpoint, model_path, datasetVars, diskVars, trained>>

\* The trainer dies; in a save some of the files may be gone or written already.
Crash ==
  /\ pc \in {"poll", "train", "save", "insert", "reload"}
  /\ Fault("trainer")
  /\ pc' = "down"
  /\ batch' = {} /\ last_used_task_id' = NoTask /\ wait_num' = 0 /\ saved' = <<>>
  /\ disk' \in IF pc = "save"
               THEN {disk, disk \ Removed, (disk \ Removed) \cup {global_steps}}
               ELSE {disk}
  /\ UNCHANGED <<rollout_run, checkpoint, model_path, poolVars, latest, global_steps, trained>>

\* Mutant: a restart forgets the step it has saved.
StartFromScratch ==
  /\ pc \in {"down", "failed"}
  /\ latest \in disk \cup {0}
  /\ pc' = "poll" /\ global_steps' = 1
  /\ checkpoint' = IF checkpoint = <<>> THEN <<0>> ELSE checkpoint
  /\ batch' = {} /\ last_used_task_id' = NoTask /\ wait_num' = 0 /\ saved' = <<>>
  /\ UNCHANGED <<rollout_run, model_path, poolVars, disk, latest, trained, faults>>

\* fit up to its loop: v0 is inserted once, the latest checkpoint is loaded.
Start ==
  /\ pc \in {"down", "failed"}
  /\ latest \in disk \cup {0}
  /\ pc' = "poll" /\ global_steps' = latest + 1
  /\ checkpoint' = IF checkpoint = <<>> THEN <<0>> ELSE checkpoint
  /\ batch' = {} /\ last_used_task_id' = NoTask /\ wait_num' = 0 /\ saved' = <<>>
  /\ UNCHANGED <<rollout_run, model_path, poolVars, disk, latest, trained, faults>>

-----------------------------------------------------------------------------
RolloutStep == \E w \in Worker : Answer(w) \/ NoAnswer(w) \/ Store(w)
DatasetStep == Wait \/ GiveUp \/ Select
TrainerStep == Start \/ Train \/ Save \/ Insert \/ Reload \/ Crash

Next == RolloutStep \/ PoolStep \/ DatasetStep \/ TrainerStep

Spec == Init /\ [][Next]_vars
-----------------------------------------------------------------------------
(* Properties.                                                             *)

\* What the rows a batch has of the task t give GRPO to compare: rollout_n rows, a success,
\* full or partial, and a failure, if the window has one of the task, as it has whenever
\* its episodes fail or succeed entirely.
HasContrast(t, rows) ==
  LET g    == {i \in rows : rollout_run[i].task_id = t}
      pool == Group(rollout_run, top_mvs, t)
  IN  /\ Cardinality(g) = rollout_n
      /\ g \cap Positive(rollout_run) # {}
      /\ (pool \cap Negative(rollout_run) # {}
           \/ \A i \in pool : rollout_run[i].reward \in {0, Full})
         => g \cap Negative(rollout_run) # {}

NewBatchContrasts ==
  pc = "poll" /\ pc' = "train" =>
    \A t \in TasksOf(rollout_run, batch') : HasContrast(t, batch')

\* A batch gives GRPO something to compare in every task (filter_fn's rules, kept through
\* repair and trimming).  A group of partial successes alone has no failure.
Contrastive == [][NewBatchContrasts]_vars

\* A failed rollout is trained on once, though the trainer may die with a batch or
\* between two marks; every further time takes a mark that was lost.  (Rows with a
\* positive reward may come back in the repair of a group.)
TrainedOnce ==
  \A i \in DOMAIN rollout_run :
    rollout_run[i].reward <= 0 => trained[i] <= 1 + faults["mark"]

\* The failures of a batch are the work of a model at most top_mvs_n checkpoints behind
\* the one being trained; each death of the trainer can cost one registration.
BoundedStaleness ==
  \A i \in batch : rollout_run[i].reward = 0 =>
    global_steps - rollout_run[i].model_version
      <= (top_mvs_n + faults["trainer"]) * save_freq

\* The pool produces what the trainer may use: its checkpoint is in the window while
\* fewer than top_mvs_n reloads are lost, refused or still to be sent.
ServedOnPolicy ==
  faults["reload"] + faults["trainer"] + (IF pc = "reload" THEN 1 ELSE 0) < top_mvs_n
  /\ checkpoint # <<>>
  => default_ckpt \in top_mvs

\* Versions are those of ever later steps, through deaths and restarts: a path
\* registered twice would shorten the window of get_latest_n_checkpoint_paths.
VersionsInOrder ==
  \A i, j \in DOMAIN checkpoint : i < j => checkpoint[i] < checkpoint[j]

\* The trainer can be started again: the step the tracker file names is on disk, also
\* while old checkpoints are being removed, unless only one is kept.
LatestOnDisk == max_ckpt_to_keep > 1 => latest \in disk \cup {0}

\* rotate_task_groups: the last task of a batch is not in the next one while there are
\* more tasks than a batch takes.
RotationMovesOn ==
  [][/\ pc = "poll" /\ pc' = "train" /\ rotate_task_groups
     /\ Cardinality(Trainable(rollout_run, top_mvs)) > batch_max
     => last_used_task_id \notin TasksOf(rollout_run, batch')]_vars
=============================================================================
