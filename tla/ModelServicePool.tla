--------------------------- MODULE ModelServicePool ---------------------------
(***************************************************************************)
(* The lifecycle half of validation/model_service.py: the pool of vLLM     *)
(* processes, one per GPU, that serves the policy to the rollout workers.  *)
(*                                                                         *)
(* Everything below runs on one asyncio event loop, so a step of the model *)
(* is what a coroutine does between two awaits that really suspend.  The   *)
(* three asyncio locks of the class are never held across such an await,   *)
(* hence never contended, and are not modelled.  What does interleave are  *)
(* the coroutines (`job'): the start-up, the replica monitor, a rolling    *)
(* reload, and the add / remove / shutdown routes.                         *)
(*                                                                         *)
(* External to the repository: the vLLM processes and the GPU memory they  *)
(* take (ProcUp, ProcClash, ProcCrash, ProcStops, FreeGPU).                *)
(***************************************************************************)
EXTENDS Naturals, FiniteSets

CONSTANTS
  N,              \* number of GPUs of the host; their ids are 0 .. N-1
  Replicas,       \* model_cfg.replicas
  Ckpt,           \* checkpoint paths
  FirstCkpt,      \* model_cfg.ckpt_path
  Task,           \* identities for coroutines; a finished one may be reused
  NoTask,         \* monitoring_task is None
  Routes,         \* the HTTP routes clients use, a subset of AllRoutes
  SerialReloads,  \* TRUE: a client posts /reload only when no reload is running
  Faults,         \* which faults of the environment may occur
  MaxFaults,      \* bound: number of faults in a behaviour
  MaxCalls,       \* bound: number of calls to Routes in a behaviour
  MaxInst         \* bound: number of processes launched in a behaviour

AllRoutes == {"reload", "add", "remove", "shutdown"}
AllFaults == {"crash",      \* a serving process dies
              "startfail",  \* a process dies while it loads the model
              "slow",       \* a process is not up within the 600s of the wait
              "spurious",   \* a health probe of a live process times out (5s)
              "launch"}     \* Popen raises OSError

ASSUME PoolAssumption ==
  /\ N \in Nat \ {0}
  /\ Replicas \in Nat \ {0}
  /\ FirstCkpt \in Ckpt
  /\ NoTask \notin Task
  /\ SerialReloads \in BOOLEAN
  /\ Routes \subseteq AllRoutes
  /\ Faults \subseteq AllFaults
  /\ MaxFaults \in Nat
  /\ MaxCalls \in Nat
  /\ MaxInst \in Nat

GPU    == 0 .. N - 1
Inst   == 1 .. MaxInst       \* ServiceInstance objects, in order of creation
Port   == 1 .. MaxInst       \* base_port, base_port + 1, ...
NoInst == 0                  \* no entry for this GPU in service_instances

\* initialize() caps the configured replicas by the number of GPUs.
replicas == IF Replicas < N THEN Replicas ELSE N

VARIABLES
  pool,            \* service_instances: GPU -> instance or NoInst
  inst,            \* the ServiceInstance objects and the state of their process
  nextInst,        \* the next instance to be created
  job,             \* the coroutines
  monitoring_task, \* handle of the newest monitor, whether it still runs or not
  default_ckpt_path,
  last_ckpt_path,
  faults,          \* number of faults so far
  calls            \* number of calls so far

vars == <<pool, inst, nextInst, job, monitoring_task,
          default_ckpt_path, last_ckpt_path, faults, calls>>

ckptVars == <<default_ckpt_path, last_ckpt_path>>

Kind  == {"none", "boot", "monitor", "reload", "add", "remove", "shutdown"}
Phase == {"idle",    \* no coroutine
          "sleep",   \* monitor: asyncio.sleep between two rounds
          "health",  \* monitor: awaiting the health probes of `insts'
          "batch",   \* reload: about to replace the next batch of `todo'
          "drain",   \* awaiting the end of the processes of `insts'
          "select",  \* about to look for free GPUs
          "launch",  \* GPUs chosen, awaiting the port probes
          "ready"}   \* awaiting the readiness of `insts'

\* A coroutine with the local variables that survive an await.
Job == [kind  : Kind,
        phase : Phase,
        todo  : SUBSET GPU,   \* reload: old GPU ids not yet replaced
        batch : Nat,          \* reload: batch_size
        count : Nat,          \* reload: len(batch_gpu_ids) of this round
        gpus  : SUBSET GPU,   \* GPUs to start instances on
        insts : SUBSET Inst]  \* instances it waits for

Idle == [kind |-> "none", phase |-> "idle", todo |-> {}, batch |-> 0,
         count |-> 0, gpus |-> {}, insts |-> {}]

Sleeping == [Idle EXCEPT !.kind = "monitor", !.phase = "sleep"]

Proc == {"none",      \* not created yet
         "starting",  \* launched; holds neither GPU memory nor its port yet
         "up",        \* serving: holds both and answers /health
         "stopping",  \* signalled; still holds both, answers nothing
         "dead"}

NoProc == [gpu |-> 0, port |-> 0, ckpt |-> FirstCkpt, proc |-> "none"]

TypeOK ==
  /\ pool \in [GPU -> Inst \cup {NoInst}]
  /\ inst \in [Inst -> [gpu : GPU, port : Nat, ckpt : Ckpt, proc : Proc]]
  /\ nextInst \in Nat \ {0}
  /\ job \in [Task -> Job]
  /\ monitoring_task \in Task \cup {NoTask}
  /\ default_ckpt_path \in Ckpt
  /\ last_ckpt_path \in Ckpt
  /\ faults \in Nat
  /\ calls \in Nat

Init ==
  /\ pool = [g \in GPU |-> NoInst]
  /\ inst = [i \in Inst |-> NoProc]
  /\ nextInst = 1
  /\ \E t \in Task :
       job = [u \in Task |->
                IF u = t THEN [Idle EXCEPT !.kind = "boot", !.phase = "select"]
                ELSE Idle]
  /\ monitoring_task = NoTask
  /\ default_ckpt_path = FirstCkpt
  /\ last_ckpt_path = FirstCkpt
  /\ faults = 0
  /\ calls = 0

-----------------------------------------------------------------------------
(* What the code reads from its environment.                               *)

Held == {"up", "stopping"}

\* Mutant: the GPUs are not asked for their free memory.
AnyGPU(g) == TRUE

\* check_and_set_availability: enough free memory on the GPU.  The flag it
\* sets is overwritten by every reader, so the probe stands for it.
FreeGPU(g) == \A i \in Inst : inst[i].gpu = g => inst[i].proc \notin Held

\* Mutant: base_port is taken without a probe.
AnyPort(p) == TRUE

\* _check_port_bind: nothing is bound to the port right now.
FreePort(p) == \A i \in Inst : inst[i].port = p => inst[i].proc \notin Held

\* _check_service_health: somebody answers on that port.
Healthy(p) == \E i \in Inst : inst[i].port = p /\ inst[i].proc = "up"

Rank(x, S) == Cardinality({y \in S : y < x})

\* list[:k] of an ascending list.
FirstOf(k, S) == {x \in S : Rank(x, S) < k}

Active == {g \in GPU : pool[g] # NoInst}

Fault(f) == f \in Faults /\ faults < MaxFaults
SpendIf(b) == faults' = IF b THEN faults + 1 ELSE faults

-----------------------------------------------------------------------------
(* Steps the coroutines share.                                             *)

\* Mutant: the entry is dropped, its process is not terminated.
PopOnly(gs) ==
  /\ pool' = [g \in GPU |-> IF g \in gs THEN NoInst ELSE pool[g]]
  /\ UNCHANGED inst

\* _remove_service_instance, up to its first await, for every GPU of gs: pop
\* whatever is registered there and signal its process.
Pop(gs) ==
  /\ pool' = [g \in GPU |-> IF g \in gs THEN NoInst ELSE pool[g]]
  /\ inst' = [i \in Inst |->
                IF /\ \E g \in gs : pool[g] = i
                   /\ inst[i].proc \in {"starting", "up"}
                THEN [inst[i] EXCEPT !.proc = "stopping"]
                ELSE inst[i]]
Popped(gs) == {pool[g] : g \in gs} \ {NoInst}

\* The coroutine ends by an exception: the monitor logs it and sleeps, every
\* other coroutine is over.  Processes it has launched keep running.
Raised(t) == IF job[t].kind = "monitor" THEN Sleeping ELSE Idle

\* Mutant: the reload ends with its first batch.
AfterFirst(t) ==
  CASE job[t].kind = "monitor" -> Sleeping
    [] job[t].kind = "boot"    -> Idle
    [] OTHER -> [job[t] EXCEPT !.phase = "batch", !.todo = {}, !.insts = {}]

\* Where a coroutine goes on once there is nothing (more) to add.  The start-up
\* fails: wait_for_model_pool_ready of no instance is False.
AfterAdd(t) ==
  CASE job[t].kind = "monitor" -> Sleeping
    [] job[t].kind = "boot"    -> Idle
    [] OTHER -> [job[t] EXCEPT !.phase = "batch", !.gpus = {}, !.insts = {}, !.count = 0]

\* Mutant: the reload starts one instance fewer than it has removed.
WantedLess(t) ==
  CASE job[t].kind = "boot"    -> replicas
    [] job[t].kind = "monitor" -> replicas - Cardinality(Active)
    [] OTHER                   -> job[t].count - 1

\* Number of instances to add: _start_initial_services starts `replicas',
\* _ensure_replicas what is missing, a reload as many as it has removed.
Wanted(t) ==
  CASE job[t].kind = "boot"    -> replicas
    [] job[t].kind = "monitor" -> replicas - Cardinality(Active)
    [] OTHER                   -> job[t].count

\* Mutant: off by one.
NearlyComplete(t) ==
  job[t].kind = "monitor" /\ Cardinality(Active) + 1 >= replicas

Complete(t) == job[t].kind = "monitor" /\ Cardinality(Active) >= replicas

\* Choice of the GPUs, from their free memory.
Select(t) ==
  /\ job[t].phase = "select"
  /\ LET free == {g \in GPU : FreeGPU(g)} IN
       job' = IF Complete(t) \/ free = {}
              THEN [job EXCEPT ![t] = AfterAdd(t)]
              ELSE [job EXCEPT ![t].phase = "launch",
                               ![t].gpus  = FirstOf(Wanted(t), free)]
  /\ UNCHANGED <<pool, inst, nextInst, monitoring_task, ckptVars, faults, calls>>

\* The port probes are back: start one process per GPU, on the lowest free
\* ports in order.  When some Popen fails, gather() raises and nobody waits for
\* the processes that did start.
Launch(t) ==
  LET gs    == job[t].gpus
      free  == {p \in Port : FreePort(p)}
      Id(g) == nextInst + Rank(g, gs)
  IN
  /\ job[t].phase = "launch"
  /\ nextInst + Cardinality(gs) <= MaxInst + 1
  /\ \E bad \in SUBSET gs, port \in [gs -> free] :
       /\ \A g \in gs : Rank(port[g], free) = Rank(g, gs)
       /\ bad # {} => Fault("launch")
       /\ SpendIf(bad # {})
       /\ inst' = [i \in Inst |->
                     IF \E g \in gs \ bad : i = Id(g)
                     THEN LET g == CHOOSE h \in gs \ bad : i = Id(h) IN
                          [gpu |-> g, port |-> port[g],
                           ckpt |-> default_ckpt_path, proc |-> "starting"]
                     ELSE inst[i]]
       /\ job' = [job EXCEPT ![t] =
                    IF bad # {} THEN Raised(t)
                    ELSE [@ EXCEPT !.phase = "ready",
                                   !.gpus  = {},
                                   !.insts = {Id(g) : g \in gs}]]
  /\ nextInst' = nextInst + Cardinality(gs)
  /\ UNCHANGED <<pool, monitoring_task, ckptVars, calls>>

\* wait_for_model_pool_ready looks at the ports only, not at the processes.
AllReady(t) == \A i \in job[t].insts : Healthy(inst[i].port)

\* Mutant: keyed by the position in the list instead of the GPU id.
RegisterByIndex(t) ==
  pool' = [g \in GPU |->
             IF \E i \in job[t].insts : Rank(i, job[t].insts) = g
             THEN CHOOSE i \in job[t].insts : Rank(i, job[t].insts) = g
             ELSE pool[g]]

Register(t) ==
  pool' = [g \in GPU |->
             IF \E i \in job[t].insts : inst[i].gpu = g
             THEN CHOOSE i \in job[t].insts : inst[i].gpu = g
             ELSE pool[g]]

\* All ports answer.  add_service_by_id returns without registering anything;
\* the start-up registers the instances and starts the monitor.
Enter(t) ==
  /\ job[t].phase = "ready"
  /\ AllReady(t)
  /\ IF job[t].kind = "add" THEN UNCHANGED pool ELSE Register(t)
  /\ job' = [job EXCEPT ![t] = IF job[t].kind = "add" THEN Idle
                               ELSE IF job[t].kind = "boot" THEN Sleeping
                               ELSE AfterAdd(t)]
  /\ monitoring_task' = IF job[t].kind = "boot" THEN t ELSE monitoring_task
  /\ UNCHANGED <<inst, nextInst, ckptVars, faults, calls>>

\* Some port did not answer in time: because its process is dead, or merely
\* because it is slow.
ReadyTimeout(t) ==
  LET lost == \E i \in job[t].insts :
                 inst[i].proc = "dead" /\ ~Healthy(inst[i].port)
  IN
  /\ job[t].phase = "ready"
  /\ ~AllReady(t)
  /\ lost \/ Fault("slow")
  /\ SpendIf(~lost)
  /\ job' = [job EXCEPT ![t] = Raised(t)]
  /\ UNCHANGED <<pool, inst, nextInst, monitoring_task, ckptVars, calls>>

\* The removed processes have ended.
Drained(t) ==
  /\ job[t].phase = "drain"
  /\ \A i \in job[t].insts : inst[i].proc = "dead"
  /\ job' = [job EXCEPT ![t] =
               IF job[t].kind \in {"monitor", "reload"}
               THEN [@ EXCEPT !.phase = "select", !.insts = {}]
               ELSE Idle]
  /\ pool' = IF job[t].kind = "shutdown" THEN [g \in GPU |-> NoInst] ELSE pool
  /\ UNCHANGED <<inst, nextInst, monitoring_task, ckptVars, faults, calls>>

-----------------------------------------------------------------------------
(* The replica monitor.                                                    *)

\* _check_all_service_health: snapshot of the instances, probes sent.
Probe(t) ==
  /\ job[t].kind = "monitor" /\ job[t].phase = "sleep"
  /\ job' = [job EXCEPT ![t].phase = IF Active = {} THEN "select" ELSE "health",
                        ![t].insts = Popped(GPU)]
  /\ UNCHANGED <<pool, inst, nextInst, monitoring_task, ckptVars, faults, calls>>

\* The probes are back: remove the unhealthy instances, by the id of their GPU.
Probed(t) ==
  /\ job[t].kind = "monitor" /\ job[t].phase = "health"
  /\ \E late \in SUBSET {i \in job[t].insts : Healthy(inst[i].port)} :
       LET sick == {i \in job[t].insts : ~Healthy(inst[i].port)} \cup late
           gs   == {inst[i].gpu : i \in sick}
       IN
       /\ late # {} => Fault("spurious")
       /\ SpendIf(late # {})
       /\ Pop(gs)
       /\ job' = [job EXCEPT ![t].phase = "drain", ![t].insts = Popped(gs)]
  /\ UNCHANGED <<nextInst, monitoring_task, ckptVars, calls>>

-----------------------------------------------------------------------------
(* The routes.                                                             *)

\* The lifespan hook lets requests in only after a successful initialize().
Serving == monitoring_task # NoTask

\* Mutant: the monitor is left running.
NotCancelled == job

\* monitoring_task.cancel(): the monitor resumes with CancelledError at the
\* await it is suspended in and leaves its loop, whatever it had started.
Cancelled == [u \in Task |-> IF u = monitoring_task /\ job[u].kind = "monitor"
                             THEN Idle ELSE job[u]]

Reloading == \E t \in Task : job[t].kind = "reload"

\* A client calls the route.
Call(r) ==
  /\ r \in Routes /\ Serving
  /\ calls < MaxCalls
  /\ calls' = calls + 1

\* roll_reload up to its loop.
Reload(t, c, b) ==
  LET old == {g \in Active : inst[pool[g]].ckpt # c} IN
  /\ Call("reload")
  /\ job[t] = Idle
  /\ SerialReloads => ~Reloading
  /\ IF old = {}
     THEN /\ job' = [Cancelled EXCEPT ![t] = Sleeping]
          /\ monitoring_task' = t
          /\ UNCHANGED ckptVars
     ELSE /\ job' = [Cancelled EXCEPT
                       ![t] = [Idle EXCEPT !.kind  = "reload", !.phase = "batch",
                                           !.todo  = old,      !.batch = b]]
          /\ last_ckpt_path' = default_ckpt_path
          /\ default_ckpt_path' = c
          /\ UNCHANGED monitoring_task
  /\ UNCHANGED <<pool, inst, nextInst, faults>>

\* One round of the loop: _shutdown_n_services of the next batch of GPU ids.
Batch(t) ==
  /\ job[t].phase = "batch" /\ job[t].todo # {}
  /\ \E gs \in SUBSET job[t].todo :
       /\ \/ Cardinality(gs) = job[t].batch
          \/ gs = job[t].todo /\ Cardinality(gs) < job[t].batch
       /\ Pop(gs)
       /\ job' = [job EXCEPT ![t].phase = "drain",
                             ![t].todo  = @ \ gs,
                             ![t].count = Cardinality(gs),
                             ![t].insts = Popped(gs)]
  /\ UNCHANGED <<nextInst, monitoring_task, ckptVars, faults, calls>>

\* The loop is over: a new monitor is started.
ReloadDone(t) ==
  /\ job[t].phase = "batch" /\ job[t].todo = {}
  /\ job' = [job EXCEPT ![t] = Sleeping]
  /\ monitoring_task' = t
  /\ UNCHANGED <<pool, inst, nextInst, ckptVars, faults, calls>>

\* POST /add_service_by_id
AddById(t, g) ==
  /\ Call("add")
  /\ job[t] = Idle
  /\ job' = [job EXCEPT ![t] = [Idle EXCEPT !.kind = "add", !.phase = "launch",
                                            !.gpus = {g}]]
  /\ UNCHANGED <<pool, inst, nextInst, monitoring_task, ckptVars, faults>>

\* POST /remove_service_by_id; without an instance there it only logs.
RemoveById(t, g) ==
  /\ Call("remove")
  /\ job[t] = Idle /\ pool[g] # NoInst
  /\ Pop({g})
  /\ job' = [job EXCEPT ![t] = [Idle EXCEPT !.kind = "remove", !.phase = "drain",
                                            !.insts = Popped({g})]]
  /\ UNCHANGED <<nextInst, monitoring_task, ckptVars, faults>>

\* GET /shutdown
Shutdown(t) ==
  /\ Call("shutdown")
  /\ job[t] = Idle
  /\ Pop(GPU)
  /\ job' = [Cancelled EXCEPT ![t] = [Idle EXCEPT !.kind  = "shutdown",
                                                  !.phase = "drain",
                                                  !.insts = Popped(GPU)]]
  /\ UNCHANGED <<nextInst, monitoring_task, ckptVars, faults>>

-----------------------------------------------------------------------------
(* The vLLM processes.                                                     *)

SetProc(i, s) ==
  /\ inst' = [inst EXCEPT ![i].proc = s]
  /\ UNCHANGED <<pool, nextInst, job, monitoring_task, ckptVars, calls>>

\* The model is loaded and the port bound.
ProcUp(i) ==
  /\ inst[i].proc = "starting"
  /\ FreeGPU(inst[i].gpu) /\ FreePort(inst[i].port)
  /\ SetProc(i, "up")
  /\ UNCHANGED faults

\* No memory or no port left: the process exits.
ProcClash(i) ==
  /\ inst[i].proc = "starting"
  /\ ~FreeGPU(inst[i].gpu) \/ ~FreePort(inst[i].port)
  /\ SetProc(i, "dead")
  /\ UNCHANGED faults

ProcCrash(i) ==
  /\ \/ inst[i].proc = "up" /\ Fault("crash")
     \/ inst[i].proc = "starting" /\ Fault("startfail")
  /\ SetProc(i, "dead")
  /\ faults' = faults + 1

\* SIGTERM obeyed, or SIGKILL after ten seconds.
ProcStops(i) ==
  /\ inst[i].proc = "stopping"
  /\ SetProc(i, "dead")
  /\ UNCHANGED faults

-----------------------------------------------------------------------------
Step(t) ==
  \/ Select(t) \/ Launch(t) \/ Enter(t) \/ ReadyTimeout(t) \/ Drained(t)
  \/ Probe(t) \/ Probed(t)
  \/ Batch(t) \/ ReloadDone(t)

Route(t) ==
  \/ \E c \in Ckpt, b \in 1 .. N : Reload(t, c, b)
  \/ \E g \in GPU : AddById(t, g) \/ RemoveById(t, g)
  \/ Shutdown(t)

Process(i) == ProcUp(i) \/ ProcClash(i) \/ ProcCrash(i) \/ ProcStops(i)

Next ==
  \/ \E t \in Task : Step(t) \/ Route(t)
  \/ \E i \in Inst : Process(i)

Spec == Init /\ [][Next]_vars

\* The event loop runs every ready coroutine and every await ends (each has a
\* timeout); a process ends up serving or dead.
FairSpec ==
  /\ Spec
  /\ \A t \in Task : WF_vars(Step(t))
  /\ \A i \in Inst : WF_vars(ProcUp(i) \/ ProcClash(i) \/ ProcStops(i))
-----------------------------------------------------------------------------
(* Properties.                                                             *)

Monitors == {t \in Task : job[t].kind = "monitor"}
Alive(i) == inst[i].proc \in {"starting", "up"}
\* A process is owned by the pool entry of its GPU or by the coroutine that
\* waits for it; an entry sits under the GPU its process runs on, and no
\* process has two owners.  Removal, registration and the monitor all address
\* instances by GPU id, so a double owner would be stopped by one and used by
\* the other (model_service.py:319-573).
SingleOwner ==
  /\ \A g \in Active : inst[pool[g]].gpu = g
  /\ \A t \in Task : job[t].phase = "ready" =>
       \A i \in job[t].insts : \A g \in GPU : pool[g] # i
  /\ \A t, u \in Task :
       /\ t # u
       /\ job[t].phase = "ready" /\ job[u].phase = "ready"
       => job[t].insts \cap job[u].insts = {}

\* While a rolling reload runs, an instance of another checkpoint can only be
\* one the reload has still to replace, and whatever the reload waits for runs
\* the new checkpoint (roll_reload, model_service.py:866-918).  The monitor it
\* has cancelled would break this by registering an old instance late.
OldOnlyInTodo ==
  \A t \in Task : job[t].kind = "reload" =>
    /\ \A g \in Active : inst[pool[g]].ckpt # default_ckpt_path => g \in job[t].todo
    /\ job[t].phase = "ready" =>
         \A i \in job[t].insts : inst[i].ckpt = default_ckpt_path

\* "暂停后台监控，防止其干扰更新过程" (model_service.py:873): no monitor is alive
\* while a rolling reload replaces instances, and there is never a second one.
MonitorPaused ==
  /\ Reloading => Monitors = {}
  /\ \A t, u \in Monitors : t = u

\* No process is left running that neither the pool nor a coroutine knows of:
\* it would hold its GPU for ever (model_service.py:382-427, 565-572).
NoOrphan ==
  \A i \in Inst : Alive(i) =>
    \/ pool[inst[i].gpu] = i
    \/ \E t \in Task : job[t].phase = "ready" /\ i \in job[t].insts

\* A registered port is served by a process with the entry's checkpoint: the
\* entry's path is the model name generate() posts to that port
\* (model_service.py:776-777), and the readiness check asks the port only.
EndpointServesCkpt ==
  \A g \in Active : \A i \in Inst :
    /\ inst[i].proc = "up"
    /\ inst[i].port = inst[pool[g]].port
    => inst[i].ckpt = inst[pool[g]].ckpt

\* An instance whose process lives is never overwritten in the pool: it is
\* popped, and its process signalled, first (model_service.py:504-506, 570-572).
\* (A dead one is: its GPU is free, and the next instance may start there
\* before the monitor has noticed.)
NeverOverwritten ==
  [][\A g \in Active : Alive(pool[g]) => pool'[g] \in {pool[g], NoInst}]_vars

\* "定期检查并维持副本数量" (model_service.py:511): the pool returns again and
\* again to its full number of instances, all of them serving the checkpoint
\* last asked for.
Settled ==
  /\ Cardinality(Active) = replicas
  /\ \A g \in Active : /\ inst[pool[g]].proc = "up"
                       /\ inst[pool[g]].ckpt = default_ckpt_path

PoolSettles == []<>(Serving => Settled)
-----------------------------------------------------------------------------
(* The inductive invariant behind OldOnlyInTodo and MonitorPaused.         *)

\* Which awaits a coroutine of each kind can be suspended in.
PhasesOf(k) ==
  CASE k = "none"     -> {"idle"}
    [] k = "boot"     -> {"select", "launch", "ready"}
    [] k = "monitor"  -> {"sleep", "health", "drain", "select", "launch", "ready"}
    [] k = "reload"   -> {"batch", "drain", "select", "launch", "ready"}
    [] k = "add"      -> {"launch", "ready"}
    [] OTHER          -> {"drain"}

JobShape == \A t \in Task : job[t].phase \in PhasesOf(job[t].kind)

\* The start-up runs alone, and only monitors that the handle names are alive:
\* this is why cancelling the handle pauses the monitoring.
Handle ==
  \A t \in Task :
    /\ job[t].kind = "boot" => /\ ~Serving
                               /\ \A u \in Task : job[u].kind = "boot" => u = t
    /\ job[t].kind = "monitor" => monitoring_task = t
    /\ job[t].kind = "reload" => Serving

Exclusive ==
  \A t \in Task : job[t].kind = "reload" =>
    \A u \in Task : job[u].kind \in {"reload", "monitor"} => u = t

\* Instances the pool or a coroutine refers to have been created.
Created ==
  /\ \A g \in GPU : pool[g] < nextInst
  /\ \A t \in Task : job[t].phase = "ready" => \A i \in job[t].insts : i < nextInst

\* What the coroutines keep true of each other when reloads are serial.
ReloadInv ==
  /\ JobShape
  /\ Handle
  /\ Exclusive
  /\ Created
  /\ OldOnlyInTodo

-----------------------------------------------------------------------------
(* The inductive invariant behind NoOrphan, EndpointServesCkpt and           *)
(* NeverOverwritten: without faults and with serial reloads as the only      *)
(* route, one coroutine works on the pool at a time, nothing it starts or    *)
(* stops escapes it, and the monitor never finds an instance missing.        *)

Calm == Faults = {} /\ Routes \subseteq {"reload"} /\ SerialReloads

\* Has the memory of its GPU and its port, or is about to take them.
Live(i) == inst[i].proc \in {"starting", "up", "stopping"}

Awaits(t) == IF job[t].phase = "ready" THEN job[t].insts ELSE {}
Drains(t) == IF job[t].phase = "drain" THEN job[t].insts ELSE {}

\* Nobody but t is at work; a monitor only looks.
Alone(t) ==
  /\ job[t].kind \in {"boot", "monitor", "reload"}
  /\ job[t].phase \in PhasesOf(job[t].kind)
  /\ job[t].kind = "monitor" => /\ monitoring_task = t
                                /\ job[t].phase \in {"sleep", "health", "drain", "select"}
  /\ Serving <=> job[t].kind # "boot"
  /\ \A u \in Task \ {t} : job[u] = Idle

\* Every process is accounted for: in the pool, or by t.
Accounted(t) ==
  /\ \A g \in Active : inst[pool[g]].proc = "up" /\ inst[pool[g]].gpu = g
  /\ \A i \in Inst :
       /\ inst[i].proc = "up" => pool[inst[i].gpu] = i \/ i \in Awaits(t)
       /\ inst[i].proc = "starting" => i \in Awaits(t)
       /\ inst[i].proc = "stopping" => i \in Drains(t)
       /\ i \in Awaits(t) => Alive(i) /\ pool[inst[i].gpu] # i
       /\ Live(i) => i < nextInst

\* No two processes compete for a GPU or a port.
Apart ==
  \A i, j \in Inst : i # j /\ Live(i) /\ Live(j) =>
    inst[i].gpu # inst[j].gpu /\ inst[i].port # inst[j].port

\* The instances t owes the pool.
Missing(t) == IF job[t].kind = "boot" THEN replicas ELSE job[t].count

\* t owes exactly what the pool lacks, and there is room for it.
Room(t) ==
  /\ Cardinality(Active) + Missing(t) = replicas
  /\ job[t].phase = "launch" => /\ \A g \in job[t].gpus : FreeGPU(g)
                                /\ Cardinality(job[t].gpus) = Missing(t)
  /\ job[t].phase = "ready" =>
       Cardinality({inst[i].gpu : i \in job[t].insts}) = Missing(t)
  /\ job[t].kind = "monitor" =>
       /\ job[t].count = 0
       /\ job[t].phase = "health" => job[t].insts \subseteq Popped(GPU)
       /\ job[t].phase = "drain" => job[t].insts = {}
  /\ job[t].kind = "reload" => /\ job[t].todo \subseteq Active
                               /\ job[t].count <= job[t].batch
                               /\ job[t].phase = "batch" => job[t].count = 0

CalmInv ==
  /\ Apart
  /\ \E t \in Task : Alone(t) /\ Accounted(t) /\ Room(t)

-----------------------------------------------------------------------------
(* What the pool promises.                                                 *)

\* The checkpoints of the instances that requests are routed to.
ServingCkpts == {inst[pool[g]].ckpt : g \in Active}

Service == INSTANCE PolicyService WITH
             default_ckpt <- default_ckpt_path,
             last_ckpt    <- last_ckpt_path,
             serving      <- ServingCkpts

\* With serial reloads the pool implements PolicyService: an instance that is registered
\* runs the checkpoint last asked for, however long ago and by whom it was launched, and
\* the checkpoint before is remembered with each change (model_service.py:866-918).
PolicyServed == Service!Spec
=============================================================================
