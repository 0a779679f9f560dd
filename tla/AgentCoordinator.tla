--------------------------- MODULE AgentCoordinator ---------------------------
(***************************************************************************)
(* The rollout side: the main loop of validation/agent_coordinator.py, the *)
(* runner actors it starts (the part of validation/trajectory_runner.py    *)
(* that takes and gives back an environment), the task loader, and the     *)
(* cleaner of orphaned environments.                                       *)
(*                                                                         *)
(* The coordinator is one asyncio event loop.  Its callbacks run only      *)
(* where the main loop really suspends (pc "start" and "wait"); the        *)
(* cleaner makes blocking HTTP calls, so nothing of the coordinator runs   *)
(* beside it.  Runners are processes of their own and interleave with      *)
(* everything; what they report reaches the coordinator through `mail'.    *)
(*                                                                         *)
(* External: the environment server, from the calls of env_k8s.py.  It     *)
(* locks a free environment, and /server/release frees one whoever asks.   *)
(***************************************************************************)
EXTENDS Naturals, Sequences, FiniteSets

CONSTANTS
  Task,                 \* the tasks of the task file
  Runner,               \* identities of runner actors; a settled one is reused
  Env,                  \* environments the server can lock
  NoRunner,             \* a free environment
  Lost,                 \* a locked environment that no runner will release
  NoEnv,
  rollout_n,
  max_concurrent_envs,
  max_task_queue_size,  \* how often the task file is read
  Resume,               \* task_cfg.resume: skip the tasks that have a reward
  Overtaking,           \* TRUE: reports of different runners are not in order
  Faults,               \* which faults may occur
  MaxFaults             \* bound: number of faults in a behaviour

AllFaults == {"crash",    \* a runner process dies
              "close",    \* the release of an environment fails
              "answer",   \* the environment is locked, the answer is lost
              "lock",     \* the server refuses on every attempt
              "config",   \* saving the task config raises
              "actor",    \* Ray cannot create the runner
              "load",     \* the task file cannot be read
              "release",  \* the cleaner's release fails
              "restart"}  \* the whole job dies and is started again

ASSUME CoordinatorAssumption ==
  /\ Task # {}
  /\ {NoRunner, Lost} \cap Runner = {} /\ NoRunner # Lost
  /\ NoEnv \notin Env
  /\ IsFiniteSet(Runner)
  /\ rollout_n \in Nat \ {0}
  /\ max_concurrent_envs \in Nat \ {0}
  /\ max_task_queue_size \in Nat
  /\ Resume \in BOOLEAN
  /\ Overtaking \in BOOLEAN
  /\ Faults \subseteq AllFaults
  /\ MaxFaults \in Nat

VARIABLES
  pc,                   \* where start_rollout is
  snapshot,             \* the cleaner's list: orphans not yet released
  task_queue,           \* copies of each task in the queue, in no order
  poll_count,
  run,                  \* the runners: where run_episode is, its task and env
  track,                \* where the service-id tracker of a runner is
  mail,                 \* reports of the runners not yet handled
  task_to_service_map,
  active_service_ids,
  holder,               \* server: who has locked an environment
  aged,                 \* environments older than env_cleanup_timeout
  finished,             \* tasks with a reward on disk
  started,              \* total_started, by task
  faults                \* number of faults so far

mainVars == <<pc, snapshot, task_queue, poll_count, started>>
bookVars == <<task_to_service_map, active_service_ids>>
envVars  == <<holder, aged>>
vars == <<mainVars, run, track, mail, bookVars, envVars, finished, faults>>

Place == {"top",      \* about to clean up
          "cleaning", \* in the loop over the environments
          "fill",     \* about to fill the queue
          "start",    \* in the loop that starts tasks
          "wait",     \* asleep, or waiting for a task to end
          "returned"} \* start_rollout has returned True

Phase == {"none",     \* no task, or its result has been handled
          "created",  \* has no environment yet
          "running",  \* episode under way
          "closing",  \* episode over, environment not yet released
          "ended"}    \* result reported

Idle == [phase |-> "none", task |-> CHOOSE t \in Task : TRUE, env |-> NoEnv]

\* Members of self.active_tasks: discarded when their result is handled.
active_tasks == {r \in Runner : run[r].phase # "none"}

\* Runners that use their environment.
Busy(r) == run[r].phase \in {"running", "closing"}

Message ==
  [kind : {"id"}, from : Runner, env : Env \cup {NoEnv}, ok : {TRUE}]
    \cup [kind : {"result"}, from : Runner, env : {NoEnv}, ok : BOOLEAN]

Id(r, e)      == [kind |-> "id", from |-> r, env |-> e, ok |-> TRUE]
Result(r, ok) == [kind |-> "result", from |-> r, env |-> NoEnv, ok |-> ok]

TypeOK ==
  /\ pc \in Place
  /\ snapshot \subseteq Env
  /\ task_queue \in [Task -> Nat]
  /\ poll_count \in Nat
  /\ run \in [Runner -> [phase : Phase, task : Task, env : Env \cup {NoEnv}]]
  /\ track \in [Runner -> {"wait", "sent", "done"}]
  /\ mail \in Seq(Message)
  /\ task_to_service_map \in [Runner -> Env \cup {NoEnv}]
  /\ active_service_ids \subseteq Env
  /\ holder \in [Env -> Runner \cup {NoRunner, Lost}]
  /\ aged \subseteq Env
  /\ finished \subseteq Task
  /\ started \in [Task -> Nat]
  /\ faults \in Nat

NoCopies == [t \in Task |-> 0]

Init ==
  /\ pc = "top"
  /\ snapshot = {}
  /\ task_queue = NoCopies
  /\ poll_count = 0
  /\ run = [r \in Runner |-> Idle]
  /\ track = [r \in Runner |-> "done"]
  /\ mail = <<>>
  /\ task_to_service_map = [r \in Runner |-> NoEnv]
  /\ active_service_ids = {}
  /\ holder = [e \in Env |-> NoRunner]
  /\ aged = {}
  /\ finished = {}
  /\ started = NoCopies
  /\ faults = 0

Fault(f) ==
  /\ f \in Faults
  /\ faults < MaxFaults
  /\ faults' = faults + 1

-----------------------------------------------------------------------------
(* The cleaner.                                                            *)

\* Mutant: the ids in use are not consulted.
AllAged == {e \in aged : holder[e] # NoRunner}

\* Listed by the server, in nobody's use, older than env_cleanup_timeout.
Orphans == {e \in aged : holder[e] # NoRunner /\ e \notin active_service_ids}

Clean ==
  /\ pc = "top"
  /\ pc' = "cleaning"
  /\ snapshot' = Orphans
  /\ UNCHANGED <<task_queue, poll_count, started, run, track, mail, bookVars,
                 envVars, finished, faults>>

\* Not env_cleanup_interval since the last time, or the listing failed.
SkipCleaning ==
  /\ pc = "top"
  /\ pc' = "fill"
  /\ UNCHANGED <<snapshot, task_queue, poll_count, started, run, track, mail,
                 bookVars, envVars, finished, faults>>

\* release_single_env for one of the list; a failed one is only counted.
ReleaseOrphan(e) ==
  /\ pc = "cleaning"
  /\ e \in snapshot
  /\ snapshot' = snapshot \ {e}
  /\ \/ /\ holder' = [holder EXCEPT ![e] = NoRunner]
        /\ aged' = aged \ {e}
        /\ task_to_service_map' =
             [r \in Runner |-> IF task_to_service_map[r] = e THEN NoEnv
                               ELSE task_to_service_map[r]]
        /\ UNCHANGED faults
     \/ /\ Fault("release")
        /\ UNCHANGED <<holder, aged, task_to_service_map>>
  /\ UNCHANGED <<pc, task_queue, poll_count, started, run, track, mail,
                 active_service_ids, finished>>

Cleaned ==
  /\ pc = "cleaning"
  /\ snapshot = {}
  /\ pc' = "fill"
  /\ UNCHANGED <<snapshot, task_queue, poll_count, started, run, track, mail,
                 bookVars, envVars, finished, faults>>

-----------------------------------------------------------------------------
(* The main loop.                                                          *)

\* The tasks of a reading of the file (_maybe_refresh_dataset).
Remaining == {t \in Task : ~Resume \/ t \notin finished}

\* Mutant: one copy of a task too few.
CopiesOneShort(t) == IF t \in Remaining THEN rollout_n - 1 ELSE 0

Copies(t) == IF t \in Remaining THEN rollout_n ELSE 0

Fill ==
  /\ pc = "fill"
  /\ task_queue = NoCopies
  /\ poll_count < max_task_queue_size
  /\ IF Remaining = {}  \* an empty reading is not counted, and tried again
     THEN /\ pc' = "wait"
          /\ UNCHANGED <<task_queue, poll_count>>
     ELSE /\ pc' = "start"
          /\ task_queue' = [t \in Task |-> Copies(t)]
          /\ poll_count' = poll_count + 1
  /\ UNCHANGED <<snapshot, started, run, track, mail, bookVars, envVars,
                 finished, faults>>

SkipFill ==
  /\ pc = "fill"
  /\ task_queue # NoCopies \/ poll_count >= max_task_queue_size
  /\ pc' = "start"
  /\ UNCHANGED <<snapshot, task_queue, poll_count, started, run, track, mail,
                 bookVars, envVars, finished, faults>>

\* The exception leaves the main loop, and start_rollout returns True.
LoadFails ==
  /\ pc = "fill"
  /\ task_queue = NoCopies
  /\ poll_count < max_task_queue_size
  /\ Fault("load")
  /\ pc' = "returned"
  /\ UNCHANGED <<snapshot, task_queue, poll_count, started, run, track, mail,
                 bookVars, envVars, finished>>

MayStart ==
  /\ task_queue # NoCopies
  /\ Cardinality(active_tasks) < max_concurrent_envs

\* task_queue.get()
Take(t) ==
  /\ task_queue[t] > 0
  /\ task_queue' = [task_queue EXCEPT ![t] = @ - 1]

\* A runner actor, its run_episode call, and the two coroutines that follow it.
Start(r) ==
  /\ pc = "start"
  /\ MayStart
  /\ run[r].phase = "none" /\ track[r] = "done"
  /\ \E t \in Task :
       /\ Take(t)
       /\ run' = [run EXCEPT ![r] = [phase |-> "created", task |-> t, env |-> NoEnv]]
       /\ started' = [started EXCEPT ![t] = @ + 1]
  /\ track' = [track EXCEPT ![r] = "wait"]
  /\ UNCHANGED <<pc, snapshot, poll_count, mail, bookVars, envVars, finished, faults>>

\* The task has left the queue and is not put back.
StartFails ==
  /\ pc = "start"
  /\ MayStart
  /\ Fault("actor")
  /\ \E t \in Task : Take(t)
  /\ UNCHANGED <<pc, snapshot, poll_count, started, run, track, mail, bookVars,
                 envVars, finished>>

\* Mutant: one more reading of the task file is waited for.
AllDoneLater ==
  /\ active_tasks = {}
  /\ task_queue = NoCopies
  /\ poll_count > max_task_queue_size

AllDone ==
  /\ active_tasks = {}
  /\ task_queue = NoCopies
  /\ poll_count >= max_task_queue_size

StartDone ==
  /\ pc = "start"
  /\ ~MayStart
  /\ pc' = IF AllDone THEN "returned" ELSE "wait"
  /\ UNCHANGED <<snapshot, task_queue, poll_count, started, run, track, mail,
                 bookVars, envVars, finished, faults>>

\* The first task has ended, or the timeout of the wait or the sleep is over.
Wake ==
  /\ pc = "wait"
  /\ pc' = "top"
  /\ UNCHANGED <<snapshot, task_queue, poll_count, started, run, track, mail,
                 bookVars, envVars, finished, faults>>

-----------------------------------------------------------------------------
(* The reports of the runners.                                             *)

\* The event loop of the coordinator can run a callback.
Suspended == pc \in {"start", "wait"}

Arrived(i) ==
  /\ Suspended
  /\ i \in 1 .. Len(mail)
  /\ Overtaking \/ i = 1

Taken(i) == [j \in 1 .. Len(mail) - 1 |-> IF j < i THEN mail[j] ELSE mail[j + 1]]

\* Mutant: the id stays in the set of the ids in use.
ForgetTask(r) ==
  /\ task_to_service_map' = [task_to_service_map EXCEPT ![r] = NoEnv]
  /\ UNCHANGED active_service_ids

\* The finally clause of _track_task_completion.
Forget(r) ==
  /\ task_to_service_map' = [task_to_service_map EXCEPT ![r] = NoEnv]
  /\ active_service_ids' = active_service_ids \ {task_to_service_map[r]}

\* _track_task_completion.  A failed actor is killed, which ends its tracker.
Complete(i) ==
  /\ Arrived(i)
  /\ mail[i].kind = "result"
  /\ LET r == mail[i].from IN
       /\ run' = [run EXCEPT ![r] = Idle]
       /\ track' = [track EXCEPT ![r] = IF ~mail[i].ok /\ @ = "wait" THEN "done" ELSE @]
       /\ Forget(r)
  /\ mail' = Taken(i)
  /\ UNCHANGED <<mainVars, envVars, finished, faults>>

\* Mutant: the id is filed under its task only.
RecordTask(r, e) ==
  /\ task_to_service_map' = [task_to_service_map EXCEPT ![r] = e]
  /\ UNCHANGED active_service_ids

\* The entry of a task that is over already is never read again.
Record(r, e) ==
  /\ task_to_service_map' = [task_to_service_map EXCEPT
                               ![r] = IF r \in active_tasks THEN e ELSE @]
  /\ active_service_ids' = active_service_ids \cup {e}
\* The end of _track_service_id.
Register(i) ==
  /\ Arrived(i)
  /\ mail[i].kind = "id"
  /\ track' = [track EXCEPT ![mail[i].from] = "done"]
  /\ IF mail[i].env = NoEnv THEN UNCHANGED bookVars
     ELSE Record(mail[i].from, mail[i].env)
  /\ mail' = Taken(i)
  /\ UNCHANGED <<mainVars, run, envVars, finished, faults>>

-----------------------------------------------------------------------------
(* The runners: run_episode and the calls of env_k8s.py.                   *)

\* getAvailableAndLock, answered.
Lock(r) ==
  /\ run[r].phase = "created"
  /\ \E e \in Env :
       /\ holder[e] = NoRunner
       /\ holder' = [holder EXCEPT ![e] = r]
       /\ run' = [run EXCEPT ![r] = [@ EXCEPT !.phase = "running", !.env = e]]
  /\ UNCHANGED <<mainVars, track, mail, bookVars, aged, finished, faults>>

\* The answer is late or has no id; _init_env tries again.
AnswerLost(r) ==
  /\ run[r].phase = "created"
  /\ Fault("answer")
  /\ \E e \in Env :
       /\ holder[e] = NoRunner
       /\ holder' = [holder EXCEPT ![e] = Lost]
  /\ UNCHANGED <<mainVars, run, track, mail, bookVars, aged, finished>>

\* run_episode is over; it reports success unless it could not be entered.
Ended(r) ==
  run' = [run EXCEPT ![r] = [@ EXCEPT !.phase = "ended", !.env = NoEnv]]

Report(r, ok) == mail' = Append(mail, Result(r, ok))

\* Every attempt has failed.  run_episode swallows its own exception.
LockFails(r) ==
  /\ run[r].phase = "created"
  /\ \/ /\ \A e \in Env : holder[e] # NoRunner
        /\ UNCHANGED faults
     \/ Fault("lock")
  /\ Ended(r)
  /\ Report(r, TRUE)
  /\ track' = [track EXCEPT ![r] = "done"]
  /\ UNCHANGED <<mainVars, bookVars, envVars, finished>>

\* save_task_config raises, outside the try of run_episode.
ConfigFails(r) ==
  /\ run[r].phase = "created"
  /\ Fault("config")
  /\ Ended(r)
  /\ Report(r, FALSE)
  /\ UNCHANGED <<mainVars, track, bookVars, envVars, finished>>

\* get_service_id, served whenever run_episode awaits something.  (The 180s of
\* wait_for_env_ready run on the event loop that _init_env blocks, and the
\* event is set before the loop can look at its clock again.)
AnswerId(r) ==
  /\ track[r] = "wait"
  /\ run[r].phase # "created"
  /\ track' = [track EXCEPT ![r] = "sent"]
  /\ mail' = Append(mail, Id(r, run[r].env))
  /\ UNCHANGED <<mainVars, run, bookVars, envVars, finished, faults>>

\* The last step: evaluate and save_reward.
Finish(r) ==
  /\ run[r].phase = "running"
  /\ run' = [run EXCEPT ![r].phase = "closing"]
  /\ finished' = finished \cup {run[r].task}
  /\ UNCHANGED <<mainVars, track, mail, bookVars, envVars, faults>>

\* Any exception before that.
Abort(r) ==
  /\ run[r].phase = "running"
  /\ run' = [run EXCEPT ![r].phase = "closing"]
  /\ UNCHANGED <<mainVars, track, mail, bookVars, envVars, finished, faults>>

\* Mutant: the environment is only forgotten.
DropEnv(e) == UNCHANGED envVars

\* /server/release frees the environment, whoever holds it by now.
ReleaseEnv(e) ==
  /\ holder' = [holder EXCEPT ![e] = NoRunner]
  /\ aged' = aged \ {e}

\* The finally clause of run_episode and its return.
Close(r) ==
  /\ run[r].phase = "closing"
  /\ ReleaseEnv(run[r].env)
  /\ Ended(r)
  /\ Report(r, TRUE)
  /\ UNCHANGED <<mainVars, track, bookVars, finished, faults>>

\* What a runner leaves locked when it goes.
Leave(r) ==
  holder' = [e \in Env |-> IF holder[e] = r THEN Lost ELSE holder[e]]

CloseFails(r) ==
  /\ run[r].phase = "closing"
  /\ Fault("close")
  /\ Leave(r)
  /\ Ended(r)
  /\ Report(r, TRUE)
  /\ UNCHANGED <<mainVars, track, bookVars, aged, finished>>

Crash(r) ==
  /\ run[r].phase \in {"created", "running", "closing"}
  /\ Fault("crash")
  /\ Leave(r)
  /\ Ended(r)
  /\ Report(r, FALSE)
  /\ UNCHANGED <<mainVars, track, bookVars, aged, finished>>

-----------------------------------------------------------------------------
\* An environment gets older than env_cleanup_timeout (300s): one that no
\* runner uses, or one whose id has long been reported.
Age(e) ==
  /\ holder[e] # NoRunner
  /\ e \notin aged
  /\ holder[e] \in Runner => track[holder[e]] = "done"
  /\ aged' = aged \cup {e}
  /\ UNCHANGED <<mainVars, run, track, mail, bookVars, holder, finished, faults>>

\* The job dies with its runners and is started again: release_env, each
\* release on its own, then a new coordinator.
Restart ==
  /\ Fault("restart")
  /\ \E kept \in SUBSET {e \in Env : holder[e] # NoRunner} :
       /\ kept = {} \/ "release" \in Faults
       /\ holder' = [e \in Env |-> IF e \in kept THEN Lost ELSE NoRunner]
       /\ aged' = aged \cap kept
  /\ pc' = "top"
  /\ snapshot' = {}
  /\ task_queue' = NoCopies
  /\ poll_count' = 0
  /\ run' = [r \in Runner |-> Idle]
  /\ track' = [r \in Runner |-> "done"]
  /\ mail' = <<>>
  /\ task_to_service_map' = [r \in Runner |-> NoEnv]
  /\ active_service_ids' = {}
  /\ started' = NoCopies
  /\ UNCHANGED finished

Main == \/ Clean \/ SkipCleaning \/ Cleaned
        \/ \E e \in Env : ReleaseOrphan(e)
        \/ Fill \/ SkipFill \/ LoadFails
        \/ \E r \in Runner : Start(r)
        \/ StartFails \/ StartDone \/ Wake

Callback == \E i \in 1 .. Len(mail) : Complete(i) \/ Register(i)

Actor(r) ==
  /\ pc # "returned"
  /\ \/ Lock(r) \/ AnswerLost(r) \/ LockFails(r) \/ ConfigFails(r)
     \/ AnswerId(r) \/ Finish(r) \/ Abort(r)
     \/ Close(r) \/ CloseFails(r) \/ Crash(r)

\* start_rollout has returned and run.py ends, the runners with it.
Over == pc = "returned" /\ UNCHANGED vars

Next == \/ Main
        \/ Callback
        \/ \E r \in Runner : Actor(r)
        \/ \E e \in Env : Age(e)
        \/ Restart
        \/ Over

Spec == Init /\ [][Next]_vars

\* The event loop runs the callbacks that are due whenever the main loop
\* suspends, reports arrive, episodes have a bounded number of
\* steps with timeouts, environments get older, and the main loop, which wakes
\* every second, comes by after env_cleanup_interval again and again.
Fairness ==
  /\ WF_vars(Main)
  /\ SF_vars(Callback)
  /\ \A r \in Runner :
       /\ WF_vars(pc # "returned" /\ (Lock(r) \/ LockFails(r)))
       /\ WF_vars(pc # "returned" /\ AnswerId(r))
       /\ WF_vars(pc # "returned" /\ (Finish(r) \/ Abort(r) \/ Close(r)))
  /\ \A e \in Env : WF_vars(Age(e))
  /\ SF_vars(Clean)

FairSpec == Spec /\ Fairness

-----------------------------------------------------------------------------
\* A runner's environment is locked by that runner until it closes it: no two
\* episodes ever share a desktop (trajectory_runner.py:102-249).
EnvHeld ==
  \A r \in Runner : Busy(r) => holder[run[r].env] = r

\* "清理孤立的环境实例" (agent_coordinator.py:84): the cleaner releases
\* orphaned environments, never one that an episode uses, although its list
\* and the ids in use are both older than the release.
CleanupOnlyOrphans ==
  [][\A e \in Env : ReleaseOrphan(e) => holder[e] \notin Runner]_vars

\* What the episodes have of the server, and what nobody will give back.
LeaseOf == [r \in Runner |-> IF Busy(r) THEN run[r].env ELSE NoEnv]
LostEnvs == {e \in Env : holder[e] = Lost}

Leases == INSTANCE EnvLease WITH
            lease  <- LeaseOf,
            leaked <- LostEnvs

\* The rollout side implements EnvLease: an environment passes from one episode to the
\* next only when the first has ended, and one that a crash, a failed release or a lost
\* answer leaves locked only by way of the cleaner or of a restart
\* (trajectory_runner.py:102-249, env_k8s.py:98-140, agent_coordinator.py:83-230).
LeasesKept == Leases!Spec

\* When start_rollout returns, every task has been started rollout_n times for
\* each of the max_task_queue_size readings ("全部任务循环几次",
\* config_singleapp.yaml:35), unless resume skips it for its result
\* (agent_coordinator.py:272-377, task_loader.py:84-126).
AllLooped ==
  pc = "returned" =>
    \A t \in Task :
      \/ started[t] = max_task_queue_size * rollout_n
      \/ Resume /\ t \in finished

\* "无论成功或失败都确保环境被释放" (trajectory_runner.py:241): when the job ends
\* no runner has an environment; what is locked was lost by a fault.
NothingHeldAtExit ==
  pc = "returned" => \A e \in Env : holder[e] \notin Runner

\* An environment left locked by a dead runner or a failed release is released
\* while the job goes on (agent_coordinator.py:83-230).
LeakReleased ==
  \A e \in Env : holder[e] = Lost ~> holder[e] # Lost \/ pc = "returned"

\* The loop returns, or idles for new tasks with every episode over and every
\* task of the file done (agent_coordinator.py:300-304, 372-375).
WorkEnds ==
  <>(pc = "returned" \/ (Remaining = {} /\ task_queue = NoCopies /\ active_tasks = {}))
=============================================================================
