-------------------------- MODULE PolicyServiceProofs --------------------------
(***************************************************************************)
(* ModelServicePool implements PolicyService, for every host and under all *)
(* faults and routes, when reloads are serial.                             *)
(***************************************************************************)
EXTENDS ModelServicePoolProofs

\* A coroutine that will register the instances it waits for has launched them with the
\* checkpoint that is still the default.
Current ==
  \A t \in Task : job[t].phase = "ready" /\ job[t].kind # "add" =>
    \A i \in job[t].insts : inst[i].ckpt = default_ckpt_path

-----------------------------------------------------------------------------
(* Current is inductive.                                                   *)

\* Whoever still waits after a step that launches nothing has waited before it.
LEMMA StepWaits ==
  ASSUME TypeOK, NEW t \in Task, Step(t), ~Launch(t),
         NEW u \in Task, job'[u].phase = "ready"
  PROVE  job'[u] = job[u]
<1>1. PICK j : job' = [job EXCEPT ![t] = j]
  BY DEF Step, Select, Enter, ReadyTimeout, Drained, Probe, Probed, Batch, ReloadDone
<1>2. CASE u # t
  BY <1>1, <1>2 DEF TypeOK
<1>3. CASE u = t
  <2>1. job[t].phase = "ready"
    BY <1>3, StepQuiet, EnterRegisters DEF Quiet
  <2>2. Enter(t) \/ ReadyTimeout(t)
    BY <2>1 DEF Step, Select, Drained, Probe, Probed, Batch, ReloadDone
  <2>3. job'[t].phase # "ready"
    BY <2>2, EnterRegisters, RaisedShape DEF ReadyTimeout, TypeOK
  <2>. QED  BY <1>3, <2>3
<1>. QED  BY <1>2, <1>3

\* The same for the routes.
LEMMA RouteWaits ==
  ASSUME TypeOK, NEW t \in Task, Route(t), NEW u \in Task, job'[u].phase = "ready"
  PROVE  u # t /\ job'[u] = job[u]
<1>1. job[t].phase = "idle"
  <2>1. job[t] = Idle
    BY DEF Route, Reload, AddById, RemoveById, Shutdown
  <2>. QED  BY <2>1 DEF Idle
<1>2. u # t
  BY <1>1, RouteQuiet DEF Quiet
<1>3. PICK j : job' = [job EXCEPT ![t] = j] \/ job' = [Cancelled EXCEPT ![t] = j]
  BY DEF Route, Reload, AddById, RemoveById, Shutdown
<1>4. job'[u] = job[u] \/ job'[u] = Idle
  BY <1>2, <1>3, CancelledType DEF TypeOK, Cancelled
<1>. QED  BY <1>2, <1>4 DEF Idle

\* A reload changes the default when nobody waits who would register.
LEMMA ReloadWaits ==
  ASSUME TypeOK, Control, SerialReloads,
         NEW t \in Task, NEW c \in Ckpt, NEW b \in 1 .. N, Reload(t, c, b),
         NEW u \in Task, job'[u].phase = "ready"
  PROVE  job[u].kind = "add" /\ job'[u] = job[u]
<1>1. Route(t)
  BY DEF Route
<1>2. u # t /\ job'[u] = job[u]
  BY <1>1, RouteWaits
<1>3. job[u].kind \notin {"boot", "reload"}
  BY DEF Reload, Call, Reloading, Control, Handle
<1>4. job[u].kind # "monitor"
  <2>1. PICK j : job' = [Cancelled EXCEPT ![t] = j]
    BY DEF Reload
  <2>2. job'[u] = Cancelled[u]
    BY <1>2, <2>1, CancelledType
  <2>. QED  BY <1>2, <2>2, CancelledMonitors DEF Control
<1>5. job[u].phase \in PhasesOf(job[u].kind) /\ job[u].kind \in Kind
  BY DEF Control, JobShape, TypeOK, Job
<1>. QED  BY <1>2, <1>3, <1>4, <1>5 DEF PhasesOf, Kind

LEMMA InitCurrent == Init => Current
BY DEF Init, Current, Idle

\* A step that launches nothing and leaves the default alone.
LEMMA CurrentKept ==
  ASSUME TypeOK, Current, default_ckpt_path' = default_ckpt_path,
         \A i \in Inst : inst'[i].ckpt = inst[i].ckpt,
         \A u \in Task : job'[u].phase = "ready" => job'[u] = job[u]
  PROVE  Current'
BY DEF Current, TypeOK, Job

LEMMA CurrentInductive ==
  ASSUME SerialReloads
  PROVE  TypeOK /\ ReloadInv /\ Current /\ [Next]_vars => Current'
<1>. SUFFICES ASSUME TypeOK, ReloadInv, Current, [Next]_vars PROVE Current'
  OBVIOUS
<1>1. ASSUME NEW t \in Task, Launch(t) PROVE Current'
  <2>. SUFFICES ASSUME NEW u \in Task, job'[u].phase = "ready", job'[u].kind # "add",
                       NEW i \in job'[u].insts
                PROVE  inst'[i].ckpt = default_ckpt_path'
    BY DEF Current
  <2>1. CASE u = t
    BY <1>1, <2>1, LaunchFresh
  <2>2. CASE u # t
    <3>1. job'[u] = job[u] /\ default_ckpt_path' = default_ckpt_path
      BY <1>1, <2>2, LaunchFresh
    <3>2. i \in Inst /\ i < nextInst
      BY <3>1 DEF ReloadInv, Created, TypeOK, Job
    <3>3. inst'[i] = inst[i]
      BY <1>1, <3>2, LaunchFresh
    <3>. QED  BY <3>1, <3>3 DEF Current
  <2>. QED  BY <2>1, <2>2
<1>2. ASSUME NEW t \in Task, Step(t), ~Launch(t) PROVE Current'
  <2>1. \A u \in Task : job'[u].phase = "ready" => job'[u] = job[u]
    BY <1>2, StepWaits
  <2>2. \A i \in Inst : inst'[i].ckpt = inst[i].ckpt
    BY <1>2, StepQuiet, EnterRegisters DEF Quiet
  <2>3. default_ckpt_path' = default_ckpt_path
    BY <1>2 DEF Step, Select, Enter, ReadyTimeout, Drained, Probe, Probed, Batch, ReloadDone,
                ckptVars
  <2>. QED  BY <2>1, <2>2, <2>3, CurrentKept
<1>3. ASSUME NEW t \in Task, NEW c \in Ckpt, NEW b \in 1 .. N, Reload(t, c, b)
      PROVE  Current'
  BY <1>3, ReloadWaits DEF ReloadInv, Control, Current
<1>4. ASSUME NEW t \in Task, Route(t), default_ckpt_path' = default_ckpt_path
      PROVE  Current'
  <2>1. \A u \in Task : job'[u].phase = "ready" => job'[u] = job[u]
    BY <1>4, RouteWaits
  <2>2. \A i \in Inst : inst'[i].ckpt = inst[i].ckpt
    BY <1>4, RouteQuiet DEF Quiet
  <2>. QED  BY <1>4, <2>1, <2>2, CurrentKept
<1>5. ASSUME NEW t \in Task, NEW g \in GPU, AddById(t, g) \/ RemoveById(t, g) \/ Shutdown(t)
      PROVE  Current'
  BY <1>4, <1>5 DEF Route, AddById, RemoveById, Shutdown, ckptVars
<1>6. ASSUME NEW i \in Inst, Process(i) PROVE Current'
  <2>1. job' = job /\ default_ckpt_path' = default_ckpt_path
    BY <1>6 DEF Process, ProcUp, ProcClash, ProcCrash, ProcStops, SetProc, ckptVars
  <2>. QED  BY <1>6, <2>1, ProcessQuiet, CurrentKept DEF Quiet
<1>7. CASE UNCHANGED vars
  BY <1>7 DEF vars, Current
<1>8. 0 \in GPU
  BY PoolAssumption DEF GPU
<1>. QED  BY <1>1, <1>2, <1>3, <1>5, <1>6, <1>7, <1>8 DEF Next, Route

-----------------------------------------------------------------------------
(* Every step is one of PolicyService or changes nothing there.            *)

\* A step that only takes instances out of the pool.
LEMMA QuietServes ==
  ASSUME TypeOK, Quiet
  PROVE  ServingCkpts' \subseteq ServingCkpts
<1>. SUFFICES ASSUME NEW g \in Active'
              PROVE  inst'[pool'[g]].ckpt \in ServingCkpts
  BY DEF ServingCkpts
<1>1. g \in Active /\ pool'[g] = pool[g] /\ pool[g] \in Inst
  BY DEF Quiet, TypeOK, Active
<1>. QED  BY <1>1 DEF Quiet, ServingCkpts

\* What a launch starts serves nobody yet.
LEMMA LaunchServes ==
  ASSUME TypeOK, Created, NEW t \in Task, Launch(t)
  PROVE  ServingCkpts' \subseteq ServingCkpts
<1>. SUFFICES ASSUME NEW g \in Active'
              PROVE  inst'[pool'[g]].ckpt \in ServingCkpts
  BY DEF ServingCkpts
<1>1. g \in Active /\ pool'[g] = pool[g] /\ pool[g] \in Inst /\ pool[g] < nextInst
  BY LaunchFresh DEF Created, TypeOK, Active
<1>. QED  BY <1>1, LaunchFresh DEF ServingCkpts

\* What is registered runs the default.
LEMMA EnterServes ==
  ASSUME TypeOK, Current, NEW t \in Task, Enter(t)
  PROVE  ServingCkpts' \subseteq ServingCkpts \cup {default_ckpt_path}
<1>. SUFFICES ASSUME NEW g \in Active'
              PROVE  inst'[pool'[g]].ckpt \in ServingCkpts \cup {default_ckpt_path}
  BY DEF ServingCkpts
<1>1. CASE pool'[g] = pool[g]
  BY <1>1, EnterRegisters DEF Active, ServingCkpts
<1>2. CASE pool'[g] # pool[g]
  BY <1>2, EnterRegisters DEF Active, Current
<1>. QED  BY <1>1, <1>2

\* A step that keeps the checkpoint paths, and brings nothing but the default into
\* service, is a step of the service.
LEMMA TurnoverStep ==
  ASSUME UNCHANGED ckptVars, ServingCkpts' \subseteq ServingCkpts \cup {default_ckpt_path}
  PROVE  [Service!Next]_(Service!serviceVars)
BY DEF ckptVars, Service!Next, Service!Turnover, Service!serviceVars

LEMMA ServiceStep ==
  TypeOK /\ ReloadInv /\ Current /\ [Next]_vars => [Service!Next]_(Service!serviceVars)
<1>. SUFFICES ASSUME TypeOK, ReloadInv, Current, [Next]_vars
              PROVE  [Service!Next]_(Service!serviceVars)
  OBVIOUS
<1>1. ASSUME NEW t \in Task, Step(t) PROVE [Service!Next]_(Service!serviceVars)
  <2>1. ServingCkpts' \subseteq ServingCkpts \cup {default_ckpt_path}
    BY <1>1, StepQuiet, QuietServes, LaunchServes, EnterServes DEF ReloadInv
  <2>2. UNCHANGED ckptVars
    BY <1>1 DEF Step, Select, Launch, Enter, ReadyTimeout, Drained, Probe, Probed, Batch,
                ReloadDone
  <2>. QED  BY <2>1, <2>2, TurnoverStep
<1>2. ASSUME NEW t \in Task, NEW c \in Ckpt, NEW b \in 1 .. N, Reload(t, c, b)
      PROVE  [Service!Next]_(Service!serviceVars)
  <2>1. ServingCkpts' = ServingCkpts
    BY <1>2 DEF Reload, ServingCkpts, Active
  <2>2. CASE UNCHANGED ckptVars
    BY <2>1, <2>2, TurnoverStep
  <2>3. CASE last_ckpt_path' = default_ckpt_path /\ default_ckpt_path' = c
    BY <2>1, <2>3 DEF Service!Next, Service!Switch
  <2>. QED  BY <1>2, <2>2, <2>3 DEF Reload
<1>3. ASSUME NEW t \in Task, NEW g \in GPU, AddById(t, g) \/ RemoveById(t, g) \/ Shutdown(t)
      PROVE  [Service!Next]_(Service!serviceVars)
  <2>1. Route(t) /\ UNCHANGED ckptVars
    BY <1>3 DEF Route, AddById, RemoveById, Shutdown
  <2>. QED  BY <2>1, RouteQuiet, QuietServes, TurnoverStep
<1>4. ASSUME NEW i \in Inst, Process(i) PROVE [Service!Next]_(Service!serviceVars)
  <2>1. UNCHANGED ckptVars
    BY <1>4 DEF Process, ProcUp, ProcClash, ProcCrash, ProcStops, SetProc
  <2>. QED  BY <1>4, <2>1, ProcessQuiet, QuietServes, TurnoverStep
<1>5. CASE UNCHANGED vars
  <2>1. UNCHANGED ckptVars /\ ServingCkpts' = ServingCkpts
    BY <1>5 DEF vars, ckptVars, ServingCkpts, Active
  <2>. QED  BY <2>1, TurnoverStep
<1>6. 0 \in GPU
  BY PoolAssumption DEF GPU
<1>. QED  BY <1>1, <1>2, <1>3, <1>4, <1>5, <1>6 DEF Next, Route

\* The pool implements the service: whatever routes and faults do, only the checkpoint
\* asked for last comes into service, as long as no reload begins while another runs.
THEOREM PoolImplementsService == SerialReloads => (Spec => PolicyServed)
<1>. SUFFICES ASSUME SerialReloads PROVE Spec => PolicyServed
  OBVIOUS
<1>1. Init => Service!Init
  BY DEF Init, Service!Init, ServingCkpts, Active
<1>2. TypeOK /\ SingleOwner /\ ReloadInv /\ [Next]_vars => ReloadInv'
  BY ReloadInductive
<1>3. TypeOK /\ ReloadInv /\ Current /\ [Next]_vars => Current'
  BY CurrentInductive
<1>. QED
  BY <1>1, <1>2, <1>3, InitTypeOK, StepTypeOK, PoolSingleOwner, InitReload, InitCurrent,
     ServiceStep, PTL DEF Spec, PolicyServed, Service!Spec
=============================================================================
