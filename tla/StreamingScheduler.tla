------------------------- MODULE StreamingScheduler -------------------------
(***************************************************************************)
(* The streaming task scheduler: tasks of a dataset run by a fixed number  *)
(* of asyncio workers (streaming_task_scheduler.py and its variant for a   *)
(* model service).  One driver coroutine skips the tasks whose directory   *)
(* exists, puts the others into an unbounded queue, waits for completions  *)
(* and stops the scheduler; the workers take tasks until `running' is      *)
(* cleared.  All of them run on one event loop: an action is what one      *)
(* coroutine does between two suspensions.                                 *)
(*                                                                         *)
(* The process may be killed at any moment and started again: only the     *)
(* directories of the tasks survive.                                       *)
(***************************************************************************)
EXTENDS Naturals, FiniteSets

CONSTANTS
  NumTasks,    \* tasks of the dataset, numbered in its order
  Workers,     \* the max_concurrent_tasks = total_envs // rollout_n workers
  Variants,    \* subset of {"blocking", "executor"}: see LoopFree
  MaxKills,    \* bound: how often the process is killed
  None         \* no task

ASSUME NumTasksAssumption == NumTasks \in Nat
ASSUME WorkersAssumption  == IsFiniteSet(Workers) /\ Workers # {}
ASSUME VariantsAssumption == Variants \subseteq {"blocking", "executor"}
ASSUME MaxKillsAssumption == MaxKills \in Nat
ASSUME NoneAssumption     == None \notin 1..NumTasks

Tasks == 1..NumTasks

VARIABLES
  variant,     \* which of the two files runs
  driver,      \* where run_streaming_task_sampling is
  running,     \* the flag the workers test
  queue,       \* task_queue: filled in dataset order, so its head is the least
  unfinished,  \* the queue's counter of tasks not yet marked as done
  event,       \* task_completion_event
  worker,      \* where each task_worker is
  held,        \* the task each worker has taken
  active,      \* keys of active_tasks
  completed,   \* completed_tasks
  failed,      \* failed_tasks
  dirs,        \* tasks whose data directory exists (on disk)
  prepared,    \* task_iterator of this run
  executions,  \* history: how often a task's episodes were begun, in all runs
  kills        \* number of kills so far

vars == <<variant, driver, running, queue, unfinished, event, worker, held,
          active, completed, failed, dirs, prepared, executions, kills>>

results == <<completed, failed>>
run     == <<variant, prepared, kills>>

(***************************************************************************)
(* States and helpers                                                      *)
(***************************************************************************)
DriverStates == {"starting", "waiting", "joining", "returned"}
WorkerStates == {"created", "entering", "waiting", "holding", "executing", "left"}

Init ==
  /\ variant \in Variants
  /\ driver = "starting"
  /\ running = FALSE
  /\ queue = {}
  /\ unfinished = 0
  /\ event = FALSE
  /\ worker = [w \in Workers |-> "left"]
  /\ held = [w \in Workers |-> None]
  /\ active = {}
  /\ completed = {}
  /\ failed = {}
  /\ dirs = {}
  /\ prepared = {}
  /\ executions = [t \in Tasks |-> 0]
  /\ kills = 0

\* In the blocking variant the episodes of a task run inside the coroutine,
\* and nothing else does; the other hands them to a thread and awaits it.
LoopFree == variant = "blocking" => \A w \in Workers : worker[w] # "executing"

Busy == {w \in Workers : held[w] # None}

\* The loop runs what is ready in the order in which it became ready.  Of the
\* workers created together, each calls get() (a coroutine of its own under
\* wait_for) before the first answer reaches a worker, and each that has its
\* answer goes on with its task before the loop comes to anything that the
\* first of them makes ready: the driver, or the next get() of a worker.
\* Afterwards the timeouts mix the order, and any is allowed.
Called  == \A v \in Workers : worker[v] = "created" => queue = {}
Entered == Called /\ \A v \in Workers : worker[v] # "entering"

\* When a worker goes on with the task get() has handed to it: the first of
\* all workers in the order of their tasks.
MayBegin(w) ==
  \/ /\ worker[w] = "entering" /\ Called
     /\ \A v \in Workers : worker[v] = "entering" => held[w] <= held[v]
  \/ worker[w] = "holding" /\ Entered

\* Mutant: a worker runs one task and ends.
OneRound == "left"

\* Where a worker goes from the test of its loop.
NextRound == IF running THEN "waiting" ELSE "left"

\* Mutant: nothing is skipped.
EveryTask == Tasks

\* "Skip if already processed": a task whose directory exists is left out.
Unprocessed == Tasks \ dirs

\* Mutant: wait until the queue is empty, not until its tasks are done.
QueueEmpty == queue = {}

\* What join() waits for.
Joined == unfinished = 0

\* Mutant: a task is marked as done by the worker and by its execution.
TaskDoneTwice == unfinished' = unfinished - 2

\* task_done()
TaskDone == unfinished' = unfinished - 1

\* The worker drops its task.
DropTask(w) == held' = [held EXCEPT ![w] = None]

(***************************************************************************)
(* The driver                                                              *)
(***************************************************************************)
\* start(), the task iterator, and the first round of the loop.  Nothing
\* suspends before the wait for a completion: the queue is unbounded, and no
\* task is active yet, so there are free slots for every task.  The workers
\* are created next, past the test of `running' and about to call get().
\* Without tasks the loop is not entered and stop() returns at once.
StartRun ==
  /\ driver = "starting"
  /\ prepared' = Unprocessed
  /\ queue' = prepared'
  /\ unfinished' = Cardinality(prepared')
  /\ driver' = IF prepared' = {} THEN "returned" ELSE "waiting"
  /\ running' = (prepared' # {})
  /\ worker' = [w \in Workers |-> IF prepared' = {} THEN "left" ELSE "created"]
  /\ UNCHANGED <<variant, event, held, active, results, dirs, executions, kills>>

\* A completion wakes the driver.  All tasks have been put, so it goes on
\* waiting while some task is active and otherwise calls stop(), which clears
\* `running' and waits for the queue to be joined.  The wait may also time
\* out: then a task is active and the loop goes round without any change.
DriverWakes ==
  /\ driver = "waiting" /\ event /\ LoopFree /\ Entered
  /\ event' = FALSE
  /\ IF active # {}
     THEN UNCHANGED <<driver, running>>
     ELSE driver' = "joining" /\ running' = FALSE
  /\ UNCHANGED <<queue, unfinished, worker, held, active, results, dirs,
                 executions, run>>

\* join() returns; the scheduler task is cancelled, which cancels the workers
\* gathered in it, and close_all_envs() clears what is still active.
JoinReturns ==
  /\ driver = "joining" /\ Joined /\ LoopFree
  /\ driver' = "returned"
  /\ worker' = [w \in Workers |-> "left"]
  /\ active' = {}
  /\ UNCHANGED <<running, queue, unfinished, event, held, results, dirs,
                 executions, run>>

(***************************************************************************)
(* A worker                                                                *)
(***************************************************************************)
\* get() hands over the head of the queue.
Take(w) ==
  /\ LoopFree
  /\ \/ worker[w] = "created" /\ worker' = [worker EXCEPT ![w] = "entering"]
     \/ worker[w] = "waiting" /\ Entered /\ worker' = [worker EXCEPT ![w] = "holding"]
  /\ \E t \in queue :
       /\ \A u \in queue : t <= u
       /\ queue' = queue \ {t}
       /\ held' = [held EXCEPT ![w] = t]
  /\ UNCHANGED <<driver, running, unfinished, event, active, results, dirs,
                 executions, run>>

\* The wait for a task times out: the worker tests its loop again.
GetTimesOut(w) ==
  /\ worker[w] \in {"created", "waiting"} /\ queue = {} /\ ~running /\ LoopFree
  /\ worker' = [worker EXCEPT ![w] = NextRound]
  /\ UNCHANGED <<driver, running, queue, unfinished, event, held, active,
                 results, dirs, executions, run>>

\* execute_single_task up to the episodes: the task becomes active and its
\* directory is made.
Begin(w) ==
  /\ MayBegin(w) /\ LoopFree
  /\ active' = active \cup {held[w]}
  /\ dirs' = dirs \cup {held[w]}
  /\ executions' = [executions EXCEPT ![held[w]] = @ + 1]
  /\ worker' = [worker EXCEPT ![w] = "executing"]
  /\ UNCHANGED <<driver, running, queue, unfinished, event, held, results, run>>

\* The end of execute_single_task and of the worker's round: runners closed,
\* task no longer active, completion signalled, result stored, task marked as
\* done, loop tested.
EndsRound(w) ==
  /\ active' = active \ {held[w]}
  /\ event' = TRUE
  /\ TaskDone
  /\ DropTask(w)
  /\ worker' = [worker EXCEPT ![w] = NextRound]

\* The episodes return or raise.
Finish(w) ==
  /\ worker[w] = "executing"
  /\ \/ completed' = completed \cup {held[w]} /\ UNCHANGED failed
     \/ failed' = failed \cup {held[w]} /\ UNCHANGED completed
  /\ EndsRound(w)
  /\ UNCHANGED <<driver, running, queue, dirs, executions, run>>

\* Creating the runners or the directory raises: nothing has been executed.
FailsEarly(w) ==
  /\ MayBegin(w) /\ LoopFree
  /\ failed' = failed \cup {held[w]}
  /\ EndsRound(w)
  /\ UNCHANGED <<driver, running, queue, completed, dirs, executions, run>>

(***************************************************************************)
(* The process                                                             *)
(***************************************************************************)
\* Everything but the directories is lost, and the script is started again.
Kill ==
  /\ driver \in {"waiting", "joining"} /\ kills < MaxKills
  /\ kills' = kills + 1
  /\ driver' = "starting"
  /\ running' = FALSE
  /\ queue' = {} /\ unfinished' = 0 /\ event' = FALSE
  /\ worker' = [w \in Workers |-> "left"]
  /\ held' = [w \in Workers |-> None]
  /\ active' = {} /\ completed' = {} /\ failed' = {} /\ prepared' = {}
  /\ UNCHANGED <<variant, dirs, executions>>

WorkerStep(w) ==
  Take(w) \/ GetTimesOut(w) \/ Begin(w) \/ Finish(w) \/ FailsEarly(w)

Next ==
  \/ StartRun \/ DriverWakes \/ JoinReturns
  \/ \E w \in Workers : WorkerStep(w)
  \/ Kill

\* The loop runs every coroutine that can go on, and episodes end.
Spec ==
  /\ Init /\ [][Next]_vars
  /\ WF_vars(StartRun) /\ WF_vars(DriverWakes) /\ WF_vars(JoinReturns)
  /\ \A w \in Workers : WF_vars(WorkerStep(w))

(***************************************************************************)
(* Properties                                                              *)
(***************************************************************************)
Results == completed \cup failed

TypeOK ==
  /\ variant \in Variants
  /\ driver \in DriverStates
  /\ running \in BOOLEAN /\ event \in BOOLEAN
  /\ queue \subseteq Tasks /\ unfinished \in Nat
  /\ worker \in [Workers -> WorkerStates]
  /\ held \in [Workers -> Tasks \cup {None}]
  /\ active \subseteq Tasks /\ completed \subseteq Tasks /\ failed \subseteq Tasks
  /\ dirs \subseteq Tasks /\ prepared \subseteq Tasks
  /\ executions \in [Tasks -> Nat]
  /\ kills \in 0..MaxKills

\* Every task that was prepared is in exactly one place: queued, with one
\* worker, or among the results; the queue's counter, which join() trusts and
\* which is kept beside the queue, counts the first two; active_tasks, which
\* the driver trusts, holds exactly the tasks being executed.
Accounted ==
  /\ prepared = queue \cup {held[w] : w \in Busy} \cup Results
  /\ \A w \in Busy : held[w] \notin queue \cup Results
  /\ \A v, w \in Busy : held[v] = held[w] => v = w
  /\ queue \cap Results = {} /\ completed \cap failed = {}
  /\ Busy = {w \in Workers : worker[w] \in {"entering", "holding", "executing"}}
  /\ unfinished = Cardinality(queue) + Cardinality(Busy)
  /\ active = {held[w] : w \in {v \in Workers : worker[v] = "executing"}}

\* When the driver returns from stop(), every task it has prepared has exactly
\* one result and none is still being executed: the result list it returns is
\* complete although the workers were told to leave while tasks were queued.
ReturnedComplete ==
  driver = "returned" =>
    /\ Results = prepared
    /\ completed \cap failed = {}
    /\ active = {} /\ Busy = {}

\* No task is executed twice, whichever worker takes it and however often the
\* process is killed and started again: its directory is made before its
\* episodes begin, and a task with a directory is skipped.
AtMostOnce == \A t \in Tasks : executions[t] <= 1

\* stop() returns when there are at most twice as many tasks as workers: every
\* worker gets a task before the driver can first wake up, and the driver
\* finds no task active only when each of them has tested `running' once more
\* and is in get() again.
SmallRunReturns ==
  (driver = "waiting" /\ Cardinality(prepared) <= 2 * Cardinality(Workers))
    ~> (driver \in {"returned", "starting"})

\* "Stop the scheduler and wait for completion": stop() always returns.  It
\* does not: see the README.
StopReturns == driver = "joining" ~> driver \in {"returned", "starting"}
=============================================================================
