------------------------ MODULE ModelServicePoolProofs ------------------------
(***************************************************************************)
(* Theorems about ModelServicePool, for every number of GPUs, replicas,    *)
(* checkpoints, coroutines and faults.                                     *)
(***************************************************************************)
EXTENDS ModelServicePool, TLAPS, FiniteSetTheorems, FunctionTheorems

\* A set of GPU ids is finite, so counting its members gives a number.
LEMMA GPUSetFinite ==
  ASSUME NEW S \in SUBSET GPU
  PROVE  IsFiniteSet(S) /\ Cardinality(S) \in Nat
<1>1. IsFiniteSet(GPU)
  BY PoolAssumption, FS_Interval DEF GPU
<1>. QED  BY <1>1, FS_Subset, FS_CardinalityType

\* The rank of a GPU among a set of GPUs is a number.
LEMMA RankInNat ==
  ASSUME NEW S \in SUBSET GPU, NEW g
  PROVE  Rank(g, S) \in Nat
BY GPUSetFinite, {y \in S : y < g} \in SUBSET GPU DEF Rank

\* A GPU of a set ranks below the size of the set.
LEMMA RankBelowSize ==
  ASSUME NEW S \in SUBSET GPU, NEW g \in S
  PROVE  Rank(g, S) < Cardinality(S)
<1>. DEFINE below == {y \in S : y < g}
<1>1. IsFiniteSet(S) /\ Cardinality(S) \in Nat
  BY GPUSetFinite
<1>2. below \in SUBSET S
  OBVIOUS
<1>3. g \notin below
  BY PoolAssumption DEF GPU
<1>4. below # S
  BY <1>3
<1>5. IsFiniteSet(below) /\ Cardinality(below) \in Nat
  BY GPUSetFinite, below \in SUBSET GPU
<1>. HIDE DEF below
<1>6. Cardinality(below) <= Cardinality(S) /\ Cardinality(S) # Cardinality(below)
  BY <1>1, <1>2, <1>4, FS_Subset
<1>7. Cardinality(below) < Cardinality(S)
  BY <1>1, <1>5, <1>6
<1>. QED  BY <1>7 DEF Rank, below

\* The two records a coroutine is reset to are coroutines.
LEMMA IdleIsJob == Idle \in Job /\ Sleeping \in Job
BY DEF Idle, Sleeping, Job, Kind, Phase

-----------------------------------------------------------------------------
\* The steps two kinds of coroutine share leave the types alone.

\* The instances taken out of the pool are instances.
LEMMA PoppedType ==
  ASSUME TypeOK, NEW gs \in SUBSET GPU
  PROVE  Popped(gs) \in SUBSET Inst
BY DEF TypeOK, Popped, NoInst

\* Taking instances out of the pool keeps the pool and the processes typed.
LEMMA PopType ==
  ASSUME TypeOK, NEW gs \in SUBSET GPU, Pop(gs)
  PROVE  /\ pool' \in [GPU -> Inst \cup {NoInst}]
         /\ inst' \in [Inst -> [gpu : GPU, port : Nat, ckpt : Ckpt, proc : Proc]]
BY DEF TypeOK, Pop, Proc

\* What an exception makes of a coroutine is a coroutine.
LEMMA RaisedType ==
  ASSUME TypeOK, NEW t \in Task
  PROVE  Raised(t) \in Job
BY IdleIsJob DEF Raised

\* What follows a finished start of instances is a coroutine.
LEMMA AfterAddType ==
  ASSUME TypeOK, NEW t \in Task
  PROVE  AfterAdd(t) \in Job
BY IdleIsJob DEF AfterAdd, TypeOK, Job, Phase

\* Cancelling the monitor leaves coroutines.
LEMMA CancelledType ==
  ASSUME TypeOK
  PROVE  Cancelled \in [Task -> Job]
BY IdleIsJob DEF Cancelled, TypeOK

-----------------------------------------------------------------------------
\* Type correctness: the initial state, every step of a coroutine, every route
\* and every step of a process.

\* The pool starts typed.
LEMMA InitTypeOK == Init => TypeOK
<1>. SUFFICES ASSUME Init PROVE TypeOK
  OBVIOUS
<1>1. NoProc \in [gpu : GPU, port : Nat, ckpt : Ckpt, proc : Proc]
  BY PoolAssumption DEF NoProc, Proc, GPU
<1>2. \A t \in Task : [Idle EXCEPT !.kind = "boot", !.phase = "select"] \in Job
  BY DEF Idle, Job, Kind, Phase
<1>3. job \in [Task -> Job]
  BY <1>2, IdleIsJob DEF Init
<1>. QED
  BY <1>1, <1>3, PoolAssumption DEF Init, TypeOK

\* Choosing free GPUs keeps the types.
LEMMA SelectTypeOK ==
  ASSUME TypeOK, NEW t \in Task, Select(t)
  PROVE  TypeOK'
<1>. DEFINE free == {g \in GPU : FreeGPU(g)}
<1>1. FirstOf(Wanted(t), free) \in SUBSET GPU
  BY DEF FirstOf
<1>2. [job[t] EXCEPT !.phase = "launch", !.gpus = FirstOf(Wanted(t), free)] \in Job
  BY <1>1 DEF TypeOK, Job, Phase
<1>3. job' \in [Task -> Job]
  BY <1>2, AfterAddType DEF Select, TypeOK
<1>. QED
  BY <1>3 DEF Select, TypeOK, ckptVars

\* Launching processes keeps the types: the new instances are below MaxInst.
LEMMA LaunchTypeOK ==
  ASSUME TypeOK, NEW t \in Task, Launch(t)
  PROVE  TypeOK'
<1>. DEFINE gs    == job[t].gpus
            free  == {p \in Port : FreePort(p)}
            Id(g) == nextInst + Rank(g, gs)
<1>1. gs \in SUBSET GPU
  BY DEF TypeOK, Job
<1>2. nextInst' \in Nat \ {0}
  BY <1>1, GPUSetFinite DEF Launch, TypeOK
<1>3. PICK bad \in SUBSET gs, port \in [gs -> free] :
        /\ SpendIf(bad # {})
        /\ inst' = [i \in Inst |->
                      IF \E g \in gs \ bad : i = Id(g)
                      THEN LET g == CHOOSE h \in gs \ bad : i = Id(h) IN
                           [gpu |-> g, port |-> port[g],
                            ckpt |-> default_ckpt_path, proc |-> "starting"]
                      ELSE inst[i]]
        /\ job' = [job EXCEPT ![t] =
                     IF bad # {} THEN Raised(t)
                     ELSE [@ EXCEPT !.phase = "ready",
                                    !.gpus  = {},
                                    !.insts = {Id(g) : g \in gs}]]
  BY DEF Launch
<1>4. inst' \in [Inst -> [gpu : GPU, port : Nat, ckpt : Ckpt, proc : Proc]]
  <2>1. ASSUME NEW i \in Inst, \E g \in gs \ bad : i = Id(g)
        PROVE  inst'[i] \in [gpu : GPU, port : Nat, ckpt : Ckpt, proc : Proc]
    <3>. DEFINE g == CHOOSE h \in gs \ bad : i = Id(h)
    <3>1. g \in gs \ bad
      BY <2>1
    <3>2. g \in GPU /\ port[g] \in Nat
      BY <3>1, <1>1 DEF Port
    <3>3. inst'[i] = [gpu |-> g, port |-> port[g],
                      ckpt |-> default_ckpt_path, proc |-> "starting"]
      BY <2>1, <1>3
    <3>. HIDE DEF g
    <3>. QED  BY <3>2, <3>3 DEF TypeOK, Proc
  <2>2. ASSUME NEW i \in Inst, ~(\E g \in gs \ bad : i = Id(g))
        PROVE  inst'[i] \in [gpu : GPU, port : Nat, ckpt : Ckpt, proc : Proc]
    BY <2>2, <1>3 DEF TypeOK
  <2>. QED  BY <1>3, <2>1, <2>2
<1>5. job' \in [Task -> Job]
  <2>1. CASE bad # {}
    BY <2>1, <1>3, RaisedType DEF TypeOK
  <2>2. CASE bad = {}
    <3>1. \A g \in gs : Id(g) \in Inst
      <4>. SUFFICES ASSUME NEW g \in gs PROVE Id(g) \in Inst
        OBVIOUS
      <4>1. Rank(g, gs) \in Nat /\ Rank(g, gs) < Cardinality(gs)
        BY <1>1, RankInNat, RankBelowSize
      <4>2. Cardinality(gs) \in Nat
        BY <1>1, GPUSetFinite
      <4>3. nextInst + Cardinality(gs) <= MaxInst + 1
        BY DEF Launch
      <4>4. nextInst \in Nat \ {0}
        BY DEF TypeOK
      <4>. QED  BY <4>1, <4>2, <4>3, <4>4, PoolAssumption DEF Inst
    <3>. DEFINE ids == {Id(g) : g \in gs}
    <3>2. ids \in SUBSET Inst
      BY <3>1
    <3>. HIDE DEF ids
    <3>3. [job[t] EXCEPT !.phase = "ready", !.gpus = {}, !.insts = ids] \in Job
      BY <3>2 DEF TypeOK, Job, Phase
    <3>4. job' = [job EXCEPT ![t] = [@ EXCEPT !.phase = "ready", !.gpus = {},
                                              !.insts = ids]]
      BY <2>2, <1>3 DEF ids
    <3>. QED  BY <3>3, <3>4 DEF TypeOK
  <2>. QED  BY <2>1, <2>2
<1>6. faults' \in Nat
  BY <1>3 DEF SpendIf, TypeOK
<1>. QED
  BY <1>2, <1>4, <1>5, <1>6 DEF Launch, TypeOK, ckptVars

\* Entering ready instances in the pool keeps the types.
LEMMA EnterTypeOK ==
  ASSUME TypeOK, NEW t \in Task, Enter(t)
  PROVE  TypeOK'
<1>1. pool' \in [GPU -> Inst \cup {NoInst}]
  <2>1. CASE job[t].kind = "add"
    BY <2>1 DEF Enter, TypeOK
  <2>2. CASE job[t].kind # "add"
    <3>1. \A g \in GPU : (\E i \in job[t].insts : inst[i].gpu = g) =>
            (CHOOSE i \in job[t].insts : inst[i].gpu = g) \in Inst
      BY DEF TypeOK, Job
    <3>. QED  BY <2>2, <3>1 DEF Enter, Register, TypeOK
  <2>. QED  BY <2>1, <2>2
<1>2. job' \in [Task -> Job]
  BY IdleIsJob, AfterAddType DEF Enter, TypeOK
<1>. QED
  BY <1>1, <1>2 DEF Enter, TypeOK, ckptVars

\* A failed wait and a finished removal keep the types.
LEMMA TimeoutDrainTypeOK ==
  ASSUME TypeOK, NEW t \in Task, ReadyTimeout(t) \/ Drained(t)
  PROVE  TypeOK'
<1>1. CASE ReadyTimeout(t)
  BY <1>1, RaisedType DEF ReadyTimeout, SpendIf, TypeOK, ckptVars
<1>2. CASE Drained(t)
  <2>1. [job[t] EXCEPT !.phase = "select", !.insts = {}] \in Job
    BY DEF TypeOK, Job, Phase
  <2>2. job' \in [Task -> Job]
    BY <1>2, <2>1, IdleIsJob DEF Drained, TypeOK
  <2>3. pool' \in [GPU -> Inst \cup {NoInst}]
    BY <1>2 DEF Drained, TypeOK
  <2>. QED  BY <1>2, <2>2, <2>3 DEF Drained, TypeOK, ckptVars
<1>. QED  BY <1>1, <1>2

\* The two halves of the health check keep the types.
LEMMA MonitorTypeOK ==
  ASSUME TypeOK, NEW t \in Task, Probe(t) \/ Probed(t)
  PROVE  TypeOK'
<1>1. CASE Probe(t)
  <2>1. [job[t] EXCEPT !.phase = IF Active = {} THEN "select" ELSE "health",
                       !.insts = Popped(GPU)] \in Job
    BY PoppedType DEF TypeOK, Job, Phase
  <2>. QED  BY <1>1, <2>1 DEF Probe, TypeOK, ckptVars
<1>2. CASE Probed(t)
  <2>1. PICK late \in SUBSET {i \in job[t].insts : Healthy(inst[i].port)} :
          LET sick == {i \in job[t].insts : ~Healthy(inst[i].port)} \cup late
              gs   == {inst[i].gpu : i \in sick}
          IN  /\ SpendIf(late # {})
              /\ Pop(gs)
              /\ job' = [job EXCEPT ![t].phase = "drain", ![t].insts = Popped(gs)]
    BY <1>2 DEF Probed
  <2>. DEFINE sick == {i \in job[t].insts : ~Healthy(inst[i].port)} \cup late
              gs   == {inst[i].gpu : i \in sick}
  <2>2. gs \in SUBSET GPU
    BY DEF TypeOK, Job
  <2>3. /\ SpendIf(late # {})
        /\ Pop(gs)
        /\ job' = [job EXCEPT ![t].phase = "drain", ![t].insts = Popped(gs)]
    BY <2>1
  <2>. HIDE DEF gs
  <2>4. [job[t] EXCEPT !.phase = "drain", !.insts = Popped(gs)] \in Job
    BY <2>2, PoppedType DEF TypeOK, Job, Phase
  <2>5. job' \in [Task -> Job]
    BY <2>3, <2>4 DEF TypeOK
  <2>6. faults' \in Nat
    BY <2>3 DEF SpendIf, TypeOK
  <2>7. UNCHANGED <<nextInst, monitoring_task, ckptVars, calls>>
    BY <1>2 DEF Probed
  <2>8. /\ pool' \in [GPU -> Inst \cup {NoInst}]
        /\ inst' \in [Inst -> [gpu : GPU, port : Nat, ckpt : Ckpt, proc : Proc]]
    BY <2>2, <2>3, PopType
  <2>. QED
    BY <2>5, <2>6, <2>7, <2>8 DEF TypeOK, ckptVars
<1>. QED  BY <1>1, <1>2

\* The steps of a rolling reload keep the types.
LEMMA ReloadTypeOK ==
  ASSUME TypeOK, NEW t \in Task
  PROVE  /\ \A c \in Ckpt, b \in 1 .. N : Reload(t, c, b) => TypeOK'
         /\ Batch(t) => TypeOK'
         /\ ReloadDone(t) => TypeOK'
<1>1. ASSUME NEW c \in Ckpt, NEW b \in 1 .. N, Reload(t, c, b)
      PROVE  TypeOK'
  <2>. DEFINE old == {g \in Active : inst[pool[g]].ckpt # c}
              new == [Idle EXCEPT !.kind  = "reload", !.phase = "batch",
                                  !.todo  = old,      !.batch = b]
  <2>0. old \in SUBSET GPU /\ b \in Nat
    BY PoolAssumption DEF Active
  <2>. HIDE DEF old
  <2>1. new \in Job
    BY <2>0 DEF Idle, Job, Kind, Phase
  <2>. HIDE DEF new
  <2>2. job' \in [Task -> Job]
    <3>1. job' = [Cancelled EXCEPT ![t] = Sleeping] \/ job' = [Cancelled EXCEPT ![t] = new]
      BY <1>1 DEF Reload, new, old
    <3>. QED  BY <3>1, <2>1, CancelledType, IdleIsJob
  <2>. QED
    BY <1>1, <2>2 DEF Reload, Call, TypeOK, ckptVars
<1>2. ASSUME Batch(t) PROVE TypeOK'
  <2>1. PICK gs \in SUBSET job[t].todo :
          /\ Pop(gs)
          /\ job' = [job EXCEPT ![t].phase = "drain",
                                ![t].todo  = @ \ gs,
                                ![t].count = Cardinality(gs),
                                ![t].insts = Popped(gs)]
    BY <1>2 DEF Batch
  <2>2. gs \in SUBSET GPU
    BY DEF TypeOK, Job
  <2>3. [job[t] EXCEPT !.phase = "drain", !.todo = @ \ gs,
                       !.count = Cardinality(gs), !.insts = Popped(gs)] \in Job
    BY <2>2, PoppedType, GPUSetFinite DEF TypeOK, Job, Phase
  <2>4. job' \in [Task -> Job]
    BY <2>1, <2>3 DEF TypeOK
  <2>. QED
    BY <1>2, <2>1, <2>2, <2>4, PopType DEF Batch, TypeOK, ckptVars
<1>3. ASSUME ReloadDone(t) PROVE TypeOK'
  BY <1>3, IdleIsJob DEF ReloadDone, TypeOK, ckptVars
<1>. QED  BY <1>1, <1>2, <1>3

\* The other routes keep the types.
LEMMA OtherRoutesTypeOK ==
  ASSUME TypeOK, NEW t \in Task
  PROVE  /\ \A g \in GPU : AddById(t, g) => TypeOK'
         /\ \A g \in GPU : RemoveById(t, g) => TypeOK'
         /\ Shutdown(t) => TypeOK'
<1>1. ASSUME NEW g \in GPU, AddById(t, g) PROVE TypeOK'
  <2>1. [Idle EXCEPT !.kind = "add", !.phase = "launch", !.gpus = {g}] \in Job
    BY DEF Idle, Job, Kind, Phase
  <2>. QED  BY <1>1, <2>1 DEF AddById, Call, TypeOK, ckptVars
<1>2. ASSUME NEW g \in GPU, RemoveById(t, g) PROVE TypeOK'
  <2>1. [Idle EXCEPT !.kind = "remove", !.phase = "drain", !.insts = Popped({g})] \in Job
    BY PoppedType DEF Idle, Job, Kind, Phase
  <2>2. job' \in [Task -> Job]
    BY <1>2, <2>1 DEF RemoveById, TypeOK
  <2>. QED  BY <1>2, <2>2, PopType DEF RemoveById, Call, TypeOK, ckptVars
<1>3. ASSUME Shutdown(t) PROVE TypeOK'
  <2>1. [Idle EXCEPT !.kind = "shutdown", !.phase = "drain", !.insts = Popped(GPU)] \in Job
    BY PoppedType DEF Idle, Job, Kind, Phase
  <2>2. job' \in [Task -> Job]
    BY <1>3, <2>1, CancelledType DEF Shutdown
  <2>. QED  BY <1>3, <2>2, PopType DEF Shutdown, Call, TypeOK, ckptVars
<1>. QED  BY <1>1, <1>2, <1>3

\* The steps of the processes keep the types.
LEMMA ProcessTypeOK ==
  ASSUME TypeOK, NEW i \in Inst, Process(i)
  PROVE  TypeOK'
BY DEF Process, ProcUp, ProcClash, ProcCrash, ProcStops, SetProc, TypeOK, Proc,
       ckptVars

\* Every step keeps the types.
LEMMA StepTypeOK == TypeOK /\ [Next]_vars => TypeOK'
<1>. SUFFICES ASSUME TypeOK, [Next]_vars PROVE TypeOK'
  OBVIOUS
<1>1. ASSUME NEW t \in Task, Step(t) PROVE TypeOK'
  BY <1>1, SelectTypeOK, LaunchTypeOK, EnterTypeOK, TimeoutDrainTypeOK,
     MonitorTypeOK, ReloadTypeOK DEF Step
<1>2. ASSUME NEW t \in Task, Route(t) PROVE TypeOK'
  BY <1>2, ReloadTypeOK, OtherRoutesTypeOK DEF Route
<1>3. ASSUME NEW i \in Inst, Process(i) PROVE TypeOK'
  BY <1>3, ProcessTypeOK
<1>4. ASSUME UNCHANGED vars PROVE TypeOK'
  BY <1>4 DEF vars, TypeOK
<1>. QED  BY <1>1, <1>2, <1>3, <1>4 DEF Next

\* Every variable of the pool stays in its type (model_service.py:183-215).
THEOREM PoolTypeCorrect == Spec => []TypeOK
BY InitTypeOK, StepTypeOK, PTL DEF Spec

-----------------------------------------------------------------------------
\* The rolling reload.  With serial reloads ReloadInv is inductive.  The first
\* half, which does not speak of checkpoints, is preserved by every action.

Control == JobShape /\ Handle /\ Exclusive

\* After an exception a coroutine is in a phase of its kind.
LEMMA RaisedShape ==
  ASSUME NEW t \in Task
  PROVE  /\ Raised(t).phase \in PhasesOf(Raised(t).kind)
         /\ Raised(t).kind \in {"none", job[t].kind}
         /\ Raised(t).kind \notin {"boot", "reload"}
         /\ Raised(t).phase \notin {"ready", "batch"}
BY DEF Raised, Idle, Sleeping, PhasesOf

\* At the start there is nothing to reload.
LEMMA InitReload == Init => ReloadInv
<1>. SUFFICES ASSUME Init PROVE ReloadInv
  OBVIOUS
<1>1. PICK t \in Task :
        job = [u \in Task |->
                 IF u = t THEN [Idle EXCEPT !.kind = "boot", !.phase = "select"]
                 ELSE Idle]
  BY DEF Init
<1>2. \A u \in Task : IF u = t THEN job[u].kind = "boot" /\ job[u].phase = "select"
                      ELSE job[u].kind = "none" /\ job[u].phase = "idle"
  BY <1>1 DEF Idle
<1>3. JobShape
  BY <1>2 DEF JobShape, PhasesOf
<1>4. Handle
  BY <1>2, PoolAssumption DEF Handle, Serving, Init
<1>5. Exclusive /\ OldOnlyInTodo
  BY <1>2 DEF Exclusive, OldOnlyInTodo
<1>6. Created
  BY <1>2 DEF Created, Init, NoInst
<1>. QED  BY <1>3, <1>4, <1>5, <1>6 DEF ReloadInv

\* What the coroutine t does to its own record, the others staying as they are
\* or being cancelled, keeps the roles apart as long as t stays in its role or
\* takes one that is never alone.
LEMMA ControlKept ==
  ASSUME TypeOK, Control, NEW t \in Task, NEW j,
         job' = [job EXCEPT ![t] = j] \/ job' = [Cancelled EXCEPT ![t] = j],
         monitoring_task' = monitoring_task,
         j.phase \in PhasesOf(j.kind),
         j.kind \in {"none", "add", "remove", "shutdown", job[t].kind}
  PROVE  Control'
<1>1. job'[t] = j
  BY CancelledType DEF TypeOK
<1>2. \A u \in Task \ {t} : job'[u] = job[u] \/ job'[u] = Idle
  BY CancelledType DEF TypeOK, Cancelled
<1>3. Idle.kind = "none" /\ Idle.phase \in PhasesOf("none")
  BY DEF Idle, PhasesOf
<1>4. JobShape'
  BY <1>1, <1>2, <1>3 DEF Control, JobShape
<1>5. Handle' /\ Exclusive'
  <2>1. \A u \in Task : job'[u].kind \in {"none", "add", "remove", "shutdown", job[u].kind}
    BY <1>1, <1>2, <1>3
  <2>. QED  BY <2>1 DEF Control, Handle, Exclusive, Serving
<1>. QED  BY <1>4, <1>5 DEF Control

\* The steps of the coroutines preserve their roles.
LEMMA StepControl ==
  ASSUME TypeOK, Control, NEW t \in Task, Step(t)
  PROVE  Control'
<1>0. job[t].phase \in PhasesOf(job[t].kind) /\ job[t].kind \in Kind
  BY DEF Control, JobShape, TypeOK, Job
<1>a. \/ /\ AfterAdd(t).phase \in PhasesOf(AfterAdd(t).kind)
         /\ AfterAdd(t).kind \in {"none", job[t].kind}
      \/ job[t].kind \in {"none", "add", "remove", "shutdown"}
  BY <1>0 DEF AfterAdd, Sleeping, Idle, PhasesOf, Kind, TypeOK, Job
<1>1. CASE Select(t)
  <2>. DEFINE free == {g \in GPU : FreeGPU(g)}
              j == [job[t] EXCEPT !.phase = "launch", !.gpus = FirstOf(Wanted(t), free)]
  <2>1. job[t].kind \in {"boot", "monitor", "reload"}
    BY <1>0, <1>1 DEF Select, PhasesOf, Kind
  <2>2. j.phase = "launch" /\ j.kind = job[t].kind
    BY DEF TypeOK, Job
  <2>3. job' = [job EXCEPT ![t] = AfterAdd(t)] \/ job' = [job EXCEPT ![t] = j]
    BY <1>1 DEF Select, TypeOK
  <2>4. "launch" \in PhasesOf(job[t].kind)
    BY <2>1 DEF PhasesOf
  <2>. HIDE DEF j
  <2>5. monitoring_task' = monitoring_task
    BY <1>1 DEF Select
  <2>6. CASE job' = [job EXCEPT ![t] = AfterAdd(t)]
    <3>1. /\ AfterAdd(t).phase \in PhasesOf(AfterAdd(t).kind)
          /\ AfterAdd(t).kind \in {"none", "add", "remove", "shutdown", job[t].kind}
      BY <1>a, <2>1
    <3>. QED  BY <2>5, <2>6, <3>1, ControlKept
  <2>7. CASE job' = [job EXCEPT ![t] = j]
    <3>1. /\ j.phase \in PhasesOf(j.kind)
          /\ j.kind \in {"none", "add", "remove", "shutdown", job[t].kind}
      BY <2>2, <2>4
    <3>. QED  BY <2>5, <2>7, <3>1, ControlKept
  <2>. QED  BY <2>3, <2>6, <2>7
<1>2. CASE Launch(t)
  <2>. DEFINE ids == {nextInst + Rank(g, job[t].gpus) : g \in job[t].gpus}
              j == [job[t] EXCEPT !.phase = "ready", !.gpus = {}, !.insts = ids]
  <2>1. job' = [job EXCEPT ![t] = Raised(t)] \/ job' = [job EXCEPT ![t] = j]
    BY <1>2 DEF Launch, TypeOK
  <2>. HIDE DEF ids
  <2>2. j.phase = "ready" /\ j.kind = job[t].kind
    BY DEF TypeOK, Job
  <2>3. "ready" \in PhasesOf(job[t].kind)
    BY <1>0, <1>2 DEF Launch, PhasesOf, Kind
  <2>4. monitoring_task' = monitoring_task
    BY <1>2 DEF Launch
  <2>5. CASE job' = [job EXCEPT ![t] = Raised(t)]
    BY <2>4, <2>5, RaisedShape, ControlKept
  <2>. HIDE DEF j
  <2>6. CASE job' = [job EXCEPT ![t] = j]
    BY <2>2, <2>3, <2>4, <2>6, ControlKept
  <2>. QED  BY <2>1, <2>5, <2>6
<1>3. CASE Enter(t)
  <2>1. CASE job[t].kind = "boot"
    <3>1. /\ job' = [job EXCEPT ![t] = Sleeping]
          /\ monitoring_task' = t
      BY <1>3, <2>1 DEF Enter
    <3>2. \A u \in Task \ {t} : job'[u] = job[u] /\ job[u].kind \notin {"boot", "monitor", "reload"}
      BY <2>1, <3>1, PoolAssumption DEF Control, Handle, Serving, TypeOK
    <3>3. job'[t].kind = "monitor" /\ job'[t].phase = "sleep"
      BY <3>1 DEF Sleeping, Idle, TypeOK
    <3>. QED  BY <3>1, <3>2, <3>3 DEF Control, JobShape, Handle, Exclusive, PhasesOf
  <2>2. CASE job[t].kind = "add"
    <3>1. job' = [job EXCEPT ![t] = Idle]
      BY <1>3, <2>2 DEF Enter
    <3>2. Idle.phase \in PhasesOf(Idle.kind) /\ Idle.kind = "none"
      BY DEF Idle, PhasesOf
    <3>. QED  BY <1>3, <2>2, <3>1, <3>2, ControlKept DEF Enter
  <2>3. CASE job[t].kind \notin {"boot", "add"}
    <3>1. job[t].kind \in {"monitor", "reload"}
      BY <1>0, <1>3, <2>3 DEF Enter, PhasesOf, Kind
    <3>2. job' = [job EXCEPT ![t] = AfterAdd(t)]
      BY <1>3, <2>3 DEF Enter
    <3>. QED  BY <1>3, <1>a, <2>3, <3>1, <3>2, ControlKept DEF Enter
  <2>. QED  BY <2>1, <2>2, <2>3
<1>4. CASE ReadyTimeout(t)
  BY <1>4, RaisedShape, ControlKept DEF ReadyTimeout
<1>5. CASE Drained(t)
  <2>. DEFINE j == [job[t] EXCEPT !.phase = "select", !.insts = {}]
  <2>1. j.phase = "select" /\ j.kind = job[t].kind
    BY DEF TypeOK, Job
  <2>2. \/ job[t].kind \in {"monitor", "reload"} /\ job' = [job EXCEPT ![t] = j]
        \/ job' = [job EXCEPT ![t] = Idle]
    BY <1>5 DEF Drained, TypeOK
  <2>3. Idle.phase \in PhasesOf(Idle.kind) /\ Idle.kind = "none"
    BY DEF Idle, PhasesOf
  <2>4. job[t].kind \in {"monitor", "reload"} => "select" \in PhasesOf(job[t].kind)
    BY DEF PhasesOf
  <2>5. monitoring_task' = monitoring_task
    BY <1>5 DEF Drained
  <2>. HIDE DEF j
  <2>6. CASE job[t].kind \in {"monitor", "reload"} /\ job' = [job EXCEPT ![t] = j]
    BY <2>1, <2>4, <2>5, <2>6, ControlKept
  <2>7. CASE job' = [job EXCEPT ![t] = Idle]
    BY <2>3, <2>5, <2>7, ControlKept
  <2>. QED  BY <2>2, <2>6, <2>7
<1>6. CASE Probe(t)
  <2>. DEFINE j == [job[t] EXCEPT !.phase = IF Active = {} THEN "select" ELSE "health",
                                  !.insts = Popped(GPU)]
  <2>1. j.phase \in {"select", "health"} /\ j.kind = "monitor"
    BY <1>6 DEF Probe, TypeOK, Job
  <2>2. job' = [job EXCEPT ![t] = j]
    BY <1>6 DEF Probe, TypeOK
  <2>3. j.phase \in PhasesOf(j.kind)
    BY <2>1 DEF PhasesOf
  <2>. HIDE DEF j
  <2>. QED  BY <1>6, <2>1, <2>2, <2>3, ControlKept DEF Probe
<1>7. CASE Probed(t)
  <2>1. PICK gs : job' = [job EXCEPT ![t].phase = "drain", ![t].insts = Popped(gs)]
    BY <1>7 DEF Probed
  <2>. DEFINE j == [job[t] EXCEPT !.phase = "drain", !.insts = Popped(gs)]
  <2>2. j.phase = "drain" /\ j.kind = "monitor"
    BY <1>7 DEF Probed, TypeOK, Job
  <2>3. job' = [job EXCEPT ![t] = j]
    BY <2>1 DEF TypeOK
  <2>4. j.phase \in PhasesOf(j.kind)
    BY <2>2 DEF PhasesOf
  <2>. HIDE DEF j
  <2>. QED  BY <1>7, <2>2, <2>3, <2>4, ControlKept DEF Probed
<1>8. CASE Batch(t)
  <2>1. PICK gs : job' = [job EXCEPT ![t].phase = "drain", ![t].todo  = @ \ gs,
                                     ![t].count = Cardinality(gs),
                                     ![t].insts = Popped(gs)]
    BY <1>8 DEF Batch
  <2>. DEFINE j == [job[t] EXCEPT !.phase = "drain", !.todo = @ \ gs,
                                  !.count = Cardinality(gs), !.insts = Popped(gs)]
  <2>2. j.phase = "drain" /\ j.kind = job[t].kind
    BY DEF TypeOK, Job
  <2>3. job' = [job EXCEPT ![t] = j]
    BY <2>1 DEF TypeOK
  <2>4. "drain" \in PhasesOf(job[t].kind)
    BY <1>0, <1>8 DEF Batch, PhasesOf, Kind
  <2>5. monitoring_task' = monitoring_task
    BY <1>8 DEF Batch
  <2>. HIDE DEF j
  <2>. QED  BY <2>2, <2>3, <2>4, <2>5, ControlKept
<1>9. CASE ReloadDone(t)
  <2>1. job[t].kind = "reload"
    BY <1>0, <1>9 DEF ReloadDone, PhasesOf, Kind
  <2>2. \A u \in Task \ {t} : job'[u] = job[u] /\ job[u].kind \notin {"boot", "monitor", "reload"}
    BY <1>9, <2>1 DEF ReloadDone, Control, Handle, Exclusive, TypeOK
  <2>3. job'[t].kind = "monitor" /\ job'[t].phase = "sleep" /\ monitoring_task' = t
    BY <1>9 DEF ReloadDone, Sleeping, Idle, TypeOK
  <2>. QED  BY <2>2, <2>3 DEF Control, JobShape, Handle, Exclusive, PhasesOf
<1>. QED
  BY <1>1, <1>2, <1>3, <1>4, <1>5, <1>6, <1>7, <1>8, <1>9 DEF Step

\* The handle names the only monitor, so cancelling it leaves none.
LEMMA CancelledMonitors ==
  ASSUME TypeOK, Handle
  PROVE  \A u \in Task : /\ Cancelled[u] \in {job[u], Idle}
                         /\ Cancelled[u].kind # "monitor"
BY DEF Cancelled, Handle, Idle

\* The routes preserve the roles: a reload enters only when no other runs.
LEMMA RouteControl ==
  ASSUME TypeOK, Control, SerialReloads, NEW t \in Task, Route(t)
  PROVE  Control'
<1>0. Idle.kind = "none" /\ Idle.phase = "idle"
  BY DEF Idle
<1>1. ASSUME NEW c \in Ckpt, NEW b \in 1 .. N, Reload(t, c, b)
      PROVE  Control'
  <2>. DEFINE old == {g \in Active : inst[pool[g]].ckpt # c}
              new == [Idle EXCEPT !.kind  = "reload", !.phase = "batch",
                                  !.todo  = old,      !.batch = b]
  <2>1. /\ Serving
        /\ \A u \in Task : job[u].kind \notin {"boot", "reload"}
    BY <1>1 DEF Reload, Call, Reloading, Control, Handle
  <2>2. \A u \in Task : /\ Cancelled[u].kind \notin {"boot", "reload", "monitor"}
                        /\ Cancelled[u].phase \in PhasesOf(Cancelled[u].kind)
    BY <1>0, <2>1, CancelledMonitors DEF Control, JobShape, PhasesOf
  <2>3. \/ job' = [Cancelled EXCEPT ![t] = Sleeping] /\ monitoring_task' = t
        \/ job' = [Cancelled EXCEPT ![t] = new] /\ monitoring_task' = monitoring_task
    BY <1>1 DEF Reload
  <2>4. Sleeping.kind = "monitor" /\ Sleeping.phase = "sleep"
    BY DEF Sleeping, Idle
  <2>5. new.kind = "reload" /\ new.phase = "batch"
    BY DEF Idle
  <2>. HIDE DEF new
  <2>6. CASE job' = [Cancelled EXCEPT ![t] = Sleeping] /\ monitoring_task' = t
    <3>1. job'[t] = Sleeping /\ \A u \in Task \ {t} : job'[u] = Cancelled[u]
      BY <2>6, CancelledType
    <3>. QED
      BY <2>2, <2>4, <2>6, <3>1
      DEF Control, JobShape, Handle, Exclusive, PhasesOf
  <2>7. CASE job' = [Cancelled EXCEPT ![t] = new] /\ monitoring_task' = monitoring_task
    <3>1. job'[t] = new /\ \A u \in Task \ {t} : job'[u] = Cancelled[u]
      BY <2>7, CancelledType
    <3>. QED
      BY <2>1, <2>2, <2>5, <2>7, <3>1
      DEF Control, JobShape, Handle, Exclusive, PhasesOf, Serving
  <2>. QED  BY <2>3, <2>6, <2>7
<1>2. ASSUME NEW g \in GPU, AddById(t, g)
      PROVE  Control'
  <2>. DEFINE j == [Idle EXCEPT !.kind = "add", !.phase = "launch", !.gpus = {g}]
  <2>1. j.kind = "add" /\ j.phase \in PhasesOf(j.kind)
    BY DEF Idle, PhasesOf
  <2>2. job' = [job EXCEPT ![t] = j] /\ monitoring_task' = monitoring_task
    BY <1>2 DEF AddById
  <2>. HIDE DEF j
  <2>. QED  BY <2>1, <2>2, ControlKept
<1>3. ASSUME NEW g \in GPU, RemoveById(t, g)
      PROVE  Control'
  <2>. DEFINE j == [Idle EXCEPT !.kind = "remove", !.phase = "drain", !.insts = Popped({g})]
  <2>1. j.kind = "remove" /\ j.phase \in PhasesOf(j.kind)
    BY DEF Idle, PhasesOf
  <2>2. job' = [job EXCEPT ![t] = j] /\ monitoring_task' = monitoring_task
    BY <1>3 DEF RemoveById
  <2>. HIDE DEF j
  <2>. QED  BY <2>1, <2>2, ControlKept
<1>4. ASSUME Shutdown(t)
      PROVE  Control'
  <2>. DEFINE j == [Idle EXCEPT !.kind = "shutdown", !.phase = "drain", !.insts = Popped(GPU)]
  <2>1. j.kind = "shutdown" /\ j.phase \in PhasesOf(j.kind)
    BY DEF Idle, PhasesOf
  <2>2. job' = [Cancelled EXCEPT ![t] = j] /\ monitoring_task' = monitoring_task
    BY <1>4 DEF Shutdown
  <2>. HIDE DEF j
  <2>. QED  BY <2>1, <2>2, ControlKept
<1>. QED  BY <1>1, <1>2, <1>3, <1>4 DEF Route

\* The roles of the coroutines are preserved by every step.
LEMMA ControlInductive ==
  ASSUME SerialReloads
  PROVE  TypeOK /\ Control /\ [Next]_vars => Control'
<1>. SUFFICES ASSUME TypeOK, Control, [Next]_vars PROVE Control'
  OBVIOUS
<1>1. ASSUME NEW t \in Task, Step(t) PROVE Control'
  BY <1>1, StepControl
<1>2. ASSUME NEW t \in Task, Route(t) PROVE Control'
  BY <1>2, RouteControl
<1>3. CASE job' = job /\ monitoring_task' = monitoring_task
  BY <1>3 DEF Control, JobShape, Handle, Exclusive, Serving
<1>4. ASSUME NEW i \in Inst, Process(i) PROVE Control'
  BY <1>3, <1>4 DEF Process, ProcUp, ProcClash, ProcCrash, ProcStops, SetProc
<1>5. CASE UNCHANGED vars
  BY <1>3, <1>5 DEF vars
<1>. QED  BY <1>1, <1>2, <1>4, <1>5 DEF Next

-----------------------------------------------------------------------------
\* Ownership.  Only Launch creates instances and only Enter registers them; all
\* other steps are quiet: they at most drop entries of the pool and owners.

Quiet ==
  /\ nextInst' = nextInst
  /\ \A g \in GPU : pool'[g] \in {pool[g], NoInst}
  /\ \A i \in Inst : inst'[i].gpu = inst[i].gpu /\ inst'[i].ckpt = inst[i].ckpt
  /\ \A u \in Task : job'[u].phase = "ready" =>
       job[u].phase = "ready" /\ job'[u].insts = job[u].insts

\* Taking instances out of the pool adds no owner.
LEMMA PopQuiet ==
  ASSUME TypeOK, NEW gs, Pop(gs)
  PROVE  /\ \A g \in GPU : pool'[g] \in {pool[g], NoInst}
         /\ \A i \in Inst : inst'[i].gpu = inst[i].gpu /\ inst'[i].ckpt = inst[i].ckpt
BY DEF TypeOK, Pop

\* A coroutine that waits for nothing new adds no owner.
LEMMA QuietIdle ==
  ASSUME TypeOK, NEW t \in Task, NEW j,
         job' = [job EXCEPT ![t] = j] \/ job' = [Cancelled EXCEPT ![t] = j],
         j.phase = "ready" => job[t].phase = "ready" /\ j.insts = job[t].insts
  PROVE  \A u \in Task : job'[u].phase = "ready" =>
           job[u].phase = "ready" /\ job'[u].insts = job[u].insts
<1>1. job'[t] = j
  BY CancelledType DEF TypeOK
<1>2. \A u \in Task \ {t} : job'[u] = job[u] \/ job'[u] = Idle
  BY CancelledType DEF TypeOK, Cancelled
<1>3. Idle.phase = "idle"
  BY DEF Idle
<1>. QED  BY <1>1, <1>2, <1>3

\* Only Launch and Enter add owners.
LEMMA StepQuiet ==
  ASSUME TypeOK, NEW t \in Task, Step(t), ~Launch(t), ~Enter(t)
  PROVE  Quiet
<1>0. Idle.phase = "idle" /\ Sleeping.phase = "sleep"
  BY DEF Idle, Sleeping
<1>1. CASE Select(t)
  <2>. DEFINE j == [job[t] EXCEPT !.phase = "launch",
                                  !.gpus = FirstOf(Wanted(t), {g \in GPU : FreeGPU(g)})]
  <2>1. AfterAdd(t).phase # "ready"
    BY <1>0 DEF AfterAdd, TypeOK, Job
  <2>2. j.phase # "ready"
    BY DEF TypeOK, Job
  <2>3. job' = [job EXCEPT ![t] = AfterAdd(t)] \/ job' = [job EXCEPT ![t] = j]
    BY <1>1 DEF Select, TypeOK
  <2>. HIDE DEF j
  <2>4. \A u \in Task : job'[u].phase = "ready" =>
          job[u].phase = "ready" /\ job'[u].insts = job[u].insts
    BY <2>1, <2>2, <2>3, QuietIdle
  <2>. QED  BY <1>1, <2>4 DEF Select, Quiet
<1>2. CASE ReadyTimeout(t)
  BY <1>2, RaisedShape, QuietIdle DEF ReadyTimeout, Quiet
<1>3. CASE Drained(t)
  <2>. DEFINE j == IF job[t].kind \in {"monitor", "reload"}
                   THEN [job[t] EXCEPT !.phase = "select", !.insts = {}]
                   ELSE Idle
  <2>1. j.phase # "ready"
    BY <1>0 DEF TypeOK, Job
  <2>2. job' = [job EXCEPT ![t] = j]
    BY <1>3 DEF Drained, TypeOK
  <2>. HIDE DEF j
  <2>3. \A u \in Task : job'[u].phase = "ready" =>
          job[u].phase = "ready" /\ job'[u].insts = job[u].insts
    BY <2>1, <2>2, QuietIdle
  <2>. QED  BY <1>3, <2>3 DEF Drained, Quiet, TypeOK
<1>4. CASE Probe(t)
  <2>. DEFINE j == [job[t] EXCEPT !.phase = IF Active = {} THEN "select" ELSE "health",
                                  !.insts = Popped(GPU)]
  <2>1. j.phase # "ready"
    BY DEF TypeOK, Job
  <2>2. job' = [job EXCEPT ![t] = j]
    BY <1>4 DEF Probe, TypeOK
  <2>. HIDE DEF j
  <2>3. \A u \in Task : job'[u].phase = "ready" =>
          job[u].phase = "ready" /\ job'[u].insts = job[u].insts
    BY <2>1, <2>2, QuietIdle
  <2>. QED  BY <1>4, <2>3 DEF Probe, Quiet
<1>5. CASE Probed(t)
  <2>1. PICK gs : /\ Pop(gs)
                  /\ job' = [job EXCEPT ![t].phase = "drain", ![t].insts = Popped(gs)]
    BY <1>5 DEF Probed
  <2>. DEFINE j == [job[t] EXCEPT !.phase = "drain", !.insts = Popped(gs)]
  <2>2. j.phase # "ready"
    BY DEF TypeOK, Job
  <2>3. job' = [job EXCEPT ![t] = j]
    BY <2>1 DEF TypeOK
  <2>. HIDE DEF j
  <2>4. \A u \in Task : job'[u].phase = "ready" =>
          job[u].phase = "ready" /\ job'[u].insts = job[u].insts
    BY <2>2, <2>3, QuietIdle
  <2>5. nextInst' = nextInst
    BY <1>5 DEF Probed
  <2>. QED  BY <2>1, <2>4, <2>5, PopQuiet DEF Quiet
<1>6. CASE Batch(t)
  <2>1. PICK gs : /\ Pop(gs)
                  /\ job' = [job EXCEPT ![t].phase = "drain", ![t].todo  = @ \ gs,
                                        ![t].count = Cardinality(gs),
                                        ![t].insts = Popped(gs)]
    BY <1>6 DEF Batch
  <2>. DEFINE j == [job[t] EXCEPT !.phase = "drain", !.todo = @ \ gs,
                                  !.count = Cardinality(gs), !.insts = Popped(gs)]
  <2>2. j.phase # "ready"
    BY DEF TypeOK, Job
  <2>3. job' = [job EXCEPT ![t] = j]
    BY <2>1 DEF TypeOK
  <2>. HIDE DEF j
  <2>4. \A u \in Task : job'[u].phase = "ready" =>
          job[u].phase = "ready" /\ job'[u].insts = job[u].insts
    BY <2>2, <2>3, QuietIdle
  <2>5. nextInst' = nextInst
    BY <1>6 DEF Batch
  <2>. QED  BY <2>1, <2>4, <2>5, PopQuiet DEF Quiet
<1>7. CASE ReloadDone(t)
  BY <1>0, <1>7, QuietIdle DEF ReloadDone, Quiet
<1>. QED
  BY <1>1, <1>2, <1>3, <1>4, <1>5, <1>6, <1>7 DEF Step

\* The routes add no owners.
LEMMA RouteQuiet ==
  ASSUME TypeOK, NEW t \in Task, Route(t)
  PROVE  Quiet
<1>1. ASSUME NEW c \in Ckpt, NEW b \in 1 .. N, Reload(t, c, b)
      PROVE  Quiet
  <2>. DEFINE j == [Idle EXCEPT !.kind = "reload", !.phase = "batch",
                      !.todo = {g \in Active : inst[pool[g]].ckpt # c}, !.batch = b]
  <2>1. Sleeping.phase # "ready" /\ j.phase # "ready"
    BY DEF Sleeping, Idle
  <2>2. job' = [Cancelled EXCEPT ![t] = Sleeping] \/ job' = [Cancelled EXCEPT ![t] = j]
    BY <1>1 DEF Reload
  <2>. HIDE DEF j
  <2>3. \A u \in Task : job'[u].phase = "ready" =>
          job[u].phase = "ready" /\ job'[u].insts = job[u].insts
    BY <2>1, <2>2, QuietIdle
  <2>. QED  BY <1>1, <2>3 DEF Reload, Quiet
<1>2. ASSUME NEW g \in GPU, AddById(t, g)
      PROVE  Quiet
  <2>. DEFINE j == [Idle EXCEPT !.kind = "add", !.phase = "launch", !.gpus = {g}]
  <2>1. j.phase # "ready"
    BY DEF Idle
  <2>2. job' = [job EXCEPT ![t] = j]
    BY <1>2 DEF AddById
  <2>. HIDE DEF j
  <2>. QED  BY <1>2, <2>1, <2>2, QuietIdle DEF AddById, Quiet
<1>3. ASSUME NEW g \in GPU, RemoveById(t, g)
      PROVE  Quiet
  <2>. DEFINE j == [Idle EXCEPT !.kind = "remove", !.phase = "drain", !.insts = Popped({g})]
  <2>1. j.phase # "ready"
    BY DEF Idle
  <2>2. job' = [job EXCEPT ![t] = j] /\ Pop({g}) /\ nextInst' = nextInst
    BY <1>3 DEF RemoveById
  <2>. HIDE DEF j
  <2>. QED  BY <2>1, <2>2, QuietIdle, PopQuiet DEF Quiet
<1>4. ASSUME Shutdown(t)
      PROVE  Quiet
  <2>. DEFINE j == [Idle EXCEPT !.kind = "shutdown", !.phase = "drain", !.insts = Popped(GPU)]
  <2>1. j.phase # "ready"
    BY DEF Idle
  <2>2. job' = [Cancelled EXCEPT ![t] = j] /\ Pop(GPU) /\ nextInst' = nextInst
    BY <1>4 DEF Shutdown
  <2>. HIDE DEF j
  <2>. QED  BY <2>1, <2>2, QuietIdle, PopQuiet DEF Quiet
<1>. QED  BY <1>1, <1>2, <1>3, <1>4 DEF Route

\* The processes add no owners.
LEMMA ProcessQuiet ==
  ASSUME TypeOK, NEW i \in Inst, Process(i)
  PROVE  Quiet
BY DEF Process, ProcUp, ProcClash, ProcCrash, ProcStops, SetProc, TypeOK, Quiet

\* A quiet step keeps every process with at most one owner.
LEMMA OwnersQuiet ==
  ASSUME TypeOK, Created, SingleOwner, Quiet
  PROVE  Created' /\ SingleOwner'
<1>1. Created'
  BY DEF TypeOK, Created, Quiet, NoInst
<1>2. \A g \in GPU : pool'[g] # NoInst => pool'[g] = pool[g] /\ pool[g] \in Inst
  BY DEF Quiet, TypeOK
<1>3. \A g \in Active' : inst'[pool'[g]].gpu = g
  BY <1>2 DEF Quiet, SingleOwner, Active
<1>4. \A u \in Task : job'[u].phase = "ready" =>
        \A i \in job'[u].insts : \A g \in GPU : pool'[g] # i
  BY <1>2 DEF Quiet, SingleOwner, TypeOK, Job, Inst, NoInst
<1>5. \A u, v \in Task : u # v /\ job'[u].phase = "ready" /\ job'[v].phase = "ready"
        => job'[u].insts \cap job'[v].insts = {}
  BY DEF Quiet, SingleOwner
<1>. QED  BY <1>1, <1>3, <1>4, <1>5 DEF SingleOwner

\* What Launch does: fresh instances, numbered from nextInst on, owned by t.
LEMMA LaunchFresh ==
  ASSUME TypeOK, NEW t \in Task, Launch(t)
  PROVE  /\ nextInst' \in Nat /\ nextInst <= nextInst'
         /\ pool' = pool /\ default_ckpt_path' = default_ckpt_path
         /\ \A i \in Inst : i < nextInst => inst'[i] = inst[i]
         /\ \A u \in Task \ {t} : job'[u] = job[u]
         /\ job'[t].kind \in {job[t].kind, "none"}
         /\ job'[t].kind = "reload" => job'[t].todo = job[t].todo
         /\ job'[t].phase = "ready" => \A i \in job'[t].insts :
              i \in Inst /\ nextInst <= i /\ i < nextInst' /\ inst'[i].ckpt = default_ckpt_path
<1>. DEFINE gs    == job[t].gpus
            Id(g) == nextInst + Rank(g, gs)
            ids   == {Id(g) : g \in gs}
<1>1. gs \in SUBSET GPU /\ nextInst \in Nat \ {0}
  BY DEF TypeOK, Job
<1>2. Cardinality(gs) \in Nat /\ \A g \in gs : Rank(g, gs) \in Nat /\ Rank(g, gs) < Cardinality(gs)
  BY <1>1, GPUSetFinite, RankInNat, RankBelowSize
<1>3. nextInst' = nextInst + Cardinality(gs) /\ nextInst' <= MaxInst + 1
  BY DEF Launch
<1>4. \A i \in ids : nextInst <= i /\ i < nextInst' /\ i \in Inst
  BY <1>1, <1>2, <1>3, PoolAssumption DEF Inst
<1>5. PICK bad \in SUBSET gs, port \in [gs -> {p \in Port : FreePort(p)}] :
        /\ inst' = [i \in Inst |->
                      IF \E g \in gs \ bad : i = Id(g)
                      THEN LET g == CHOOSE h \in gs \ bad : i = Id(h) IN
                           [gpu |-> g, port |-> port[g],
                            ckpt |-> default_ckpt_path, proc |-> "starting"]
                      ELSE inst[i]]
        /\ job' = [job EXCEPT ![t] =
                     IF bad # {} THEN Raised(t)
                     ELSE [@ EXCEPT !.phase = "ready", !.gpus  = {}, !.insts = ids]]
  BY DEF Launch
<1>6. \A i \in Inst : i < nextInst => inst'[i] = inst[i]
  <2>. SUFFICES ASSUME NEW i \in Inst, i < nextInst PROVE inst'[i] = inst[i]
    OBVIOUS
  <2>1. i \notin ids
    BY <1>1, <1>4 DEF Inst
  <2>2. ~(\E g \in gs \ bad : i = Id(g))
    BY <2>1
  <2>. QED  BY <1>5, <2>2
<1>7. bad = {} => \A i \in ids : inst'[i].ckpt = default_ckpt_path
  BY <1>4, <1>5
<1>8. pool' = pool /\ default_ckpt_path' = default_ckpt_path
  BY DEF Launch, ckptVars
<1>9. \A u \in Task \ {t} : job'[u] = job[u]
  BY <1>5 DEF TypeOK
<1>10. CASE bad # {}
  <2>1. job'[t] = Raised(t)
    BY <1>5, <1>10 DEF TypeOK
  <2>. QED  BY <1>1, <1>2, <1>3, <1>6, <1>8, <1>9, <2>1, RaisedShape
<1>11. CASE bad = {}
  <2>. HIDE DEF ids
  <2>. DEFINE j == [job[t] EXCEPT !.phase = "ready", !.gpus = {}, !.insts = ids]
  <2>1. job'[t] = j
    BY <1>5, <1>11 DEF TypeOK
  <2>2. j.kind = job[t].kind /\ j.todo = job[t].todo /\ j.insts = ids
    BY DEF TypeOK, Job
  <2>. HIDE DEF j
  <2>. QED  BY <1>1, <1>2, <1>3, <1>4, <1>6, <1>7, <1>8, <1>9, <1>11, <2>1, <2>2
<1>. QED  BY <1>10, <1>11

\* Launch gives new processes, owned by nobody before, to one coroutine.
LEMMA LaunchOwners ==
  ASSUME TypeOK, Created, SingleOwner, NEW t \in Task, Launch(t)
  PROVE  Created' /\ SingleOwner'
<1>0. nextInst \in Nat /\ nextInst' \in Nat /\ nextInst <= nextInst'
  BY LaunchFresh DEF TypeOK
<1>1. \A g \in GPU : pool'[g] = pool[g] /\ pool[g] \in Nat /\ pool[g] < nextInst
  BY LaunchFresh DEF Created, TypeOK, Inst, NoInst
<1>2. \A u \in Task \ {t} : job'[u] = job[u] /\
        (job[u].phase = "ready" => \A i \in job[u].insts : i \in Nat /\ i < nextInst)
  BY LaunchFresh DEF Created, TypeOK, Job, Inst
<1>3. job'[t].phase = "ready" => \A i \in job'[t].insts :
        i \in Nat /\ nextInst <= i /\ i < nextInst'
  BY LaunchFresh DEF Inst
<1>4. Created'
  <2>1. \A g \in GPU : pool'[g] < nextInst'
    BY <1>0, <1>1
  <2>2. \A u \in Task : job'[u].phase = "ready" => \A i \in job'[u].insts : i < nextInst'
    BY <1>0, <1>2, <1>3
  <2>. QED  BY <2>1, <2>2 DEF Created
<1>5. \A g \in Active' : inst'[pool'[g]].gpu = g
  BY <1>1, LaunchFresh DEF SingleOwner, Active, TypeOK
<1>6. \A u \in Task : job'[u].phase = "ready" =>
        \A i \in job'[u].insts : \A g \in GPU : pool'[g] # i
  BY <1>0, <1>1, <1>2, <1>3 DEF SingleOwner
<1>7. \A u, v \in Task : u # v /\ job'[u].phase = "ready" /\ job'[v].phase = "ready"
        => job'[u].insts \cap job'[v].insts = {}
  <2>. SUFFICES ASSUME NEW u \in Task, NEW v \in Task, u # v,
                       job'[u].phase = "ready", job'[v].phase = "ready"
                PROVE  job'[u].insts \cap job'[v].insts = {}
    OBVIOUS
  <2>1. CASE u = t
    BY <1>0, <1>2, <1>3, <2>1
  <2>2. CASE v = t
    BY <1>0, <1>2, <1>3, <2>2
  <2>3. CASE u # t /\ v # t
    BY <1>2, <2>3 DEF SingleOwner
  <2>. QED  BY <2>1, <2>2, <2>3
<1>. QED  BY <1>4, <1>5, <1>6, <1>7 DEF SingleOwner

\* What Enter does: entries of t's own instances, t no longer waits.
LEMMA EnterRegisters ==
  ASSUME TypeOK, NEW t \in Task, Enter(t)
  PROVE  /\ nextInst' = nextInst /\ inst' = inst /\ default_ckpt_path' = default_ckpt_path
         /\ job[t].phase = "ready"
         /\ \A g \in GPU : \/ pool'[g] = pool[g]
                           \/ /\ job[t].kind # "add"
                              /\ pool'[g] \in job[t].insts
                              /\ inst[pool'[g]].gpu = g
         /\ \A u \in Task \ {t} : job'[u] = job[u]
         /\ job'[t].phase # "ready"
         /\ job'[t].kind = "reload" => job[t].kind = "reload" /\ job'[t].todo = job[t].todo
<1>1. Idle.phase = "idle" /\ Sleeping.phase = "sleep" /\ Idle.kind = "none" /\ Sleeping.kind = "monitor"
  BY DEF Idle, Sleeping
<1>2. \A g \in GPU : \/ pool'[g] = pool[g]
                     \/ /\ job[t].kind # "add"
                        /\ pool'[g] \in job[t].insts
                        /\ inst[pool'[g]].gpu = g
  <2>1. CASE job[t].kind = "add"
    BY <2>1 DEF Enter
  <2>2. CASE job[t].kind # "add"
    BY <2>2 DEF Enter, Register
  <2>. QED  BY <2>1, <2>2
<1>3. \A u \in Task \ {t} : job'[u] = job[u]
  BY DEF Enter, TypeOK
<1>4. /\ AfterAdd(t).phase # "ready"
      /\ AfterAdd(t).kind = "reload" => job[t].kind = "reload" /\ AfterAdd(t).todo = job[t].todo
  BY <1>1 DEF AfterAdd, TypeOK, Job
<1>5. job'[t] \in {Idle, Sleeping, AfterAdd(t)}
  BY DEF Enter, TypeOK
<1>. QED  BY <1>1, <1>2, <1>3, <1>4, <1>5 DEF Enter, ckptVars

\* Enter moves processes from the coroutine that waited for them to the pool.
LEMMA EnterOwners ==
  ASSUME TypeOK, Created, SingleOwner, NEW t \in Task, Enter(t)
  PROVE  Created' /\ SingleOwner'
<1>1. \A g \in GPU : pool'[g] # pool[g] => pool'[g] \in job[t].insts /\ inst[pool'[g]].gpu = g
  BY EnterRegisters
<1>2. \A u \in Task : job'[u].phase = "ready" =>
        u # t /\ job[u].phase = "ready" /\ job'[u].insts = job[u].insts
  BY EnterRegisters
<1>3. job[t].phase = "ready" /\ inst' = inst /\ nextInst' = nextInst
  BY EnterRegisters
<1>4. Created'
  BY <1>1, <1>2, <1>3 DEF Created
<1>5. \A g \in Active' : inst'[pool'[g]].gpu = g
  BY <1>1, <1>3 DEF SingleOwner, Active
<1>6. \A u \in Task : job'[u].phase = "ready" =>
        \A i \in job'[u].insts : \A g \in GPU : pool'[g] # i
  BY <1>1, <1>2, <1>3 DEF SingleOwner
<1>7. \A u, v \in Task : u # v /\ job'[u].phase = "ready" /\ job'[v].phase = "ready"
        => job'[u].insts \cap job'[v].insts = {}
  BY <1>2 DEF SingleOwner
<1>. QED  BY <1>4, <1>5, <1>6, <1>7 DEF SingleOwner

\* Single ownership is inductive, together with Created.
LEMMA OwnersInductive ==
  TypeOK /\ Created /\ SingleOwner /\ [Next]_vars => Created' /\ SingleOwner'
<1>. SUFFICES ASSUME TypeOK, Created, SingleOwner, [Next]_vars
              PROVE  Created' /\ SingleOwner'
  OBVIOUS
<1>1. ASSUME NEW t \in Task, Step(t) PROVE Created' /\ SingleOwner'
  BY <1>1, LaunchOwners, EnterOwners, StepQuiet, OwnersQuiet
<1>2. ASSUME NEW t \in Task, Route(t) PROVE Created' /\ SingleOwner'
  BY <1>2, RouteQuiet, OwnersQuiet
<1>3. ASSUME NEW i \in Inst, Process(i) PROVE Created' /\ SingleOwner'
  BY <1>3, ProcessQuiet, OwnersQuiet
<1>4. CASE UNCHANGED vars
  <2>1. Quiet
    BY <1>4 DEF vars, Quiet
  <2>. QED  BY <2>1, OwnersQuiet
<1>. QED  BY <1>1, <1>2, <1>3, <1>4 DEF Next

\* Every process has at most one owner, the pool entry of its GPU or the
\* coroutine that waits for it, whatever the routes and the faults do and also
\* when reloads overlap (model_service.py:319-573).
THEOREM PoolSingleOwner == Spec => []SingleOwner
<1>1. Init => Created /\ SingleOwner
  <2>. SUFFICES ASSUME Init PROVE Created /\ SingleOwner
    OBVIOUS
  <2>1. Created
    BY InitReload DEF ReloadInv
  <2>2. Active = {} /\ \A t \in Task : job[t].phase # "ready"
    BY DEF Init, Active, Idle
  <2>. QED  BY <2>1, <2>2 DEF SingleOwner
<1>. QED  BY <1>1, InitTypeOK, StepTypeOK, OwnersInductive, PTL DEF Spec

-----------------------------------------------------------------------------
\* Checkpoints during a rolling reload.

\* A quiet step that leaves the reloads and the wanted checkpoint alone.
LEMMA OldQuiet ==
  ASSUME TypeOK, OldOnlyInTodo, Quiet,
         default_ckpt_path' = default_ckpt_path,
         \A u \in Task : job'[u].kind = "reload" =>
           job[u].kind = "reload" /\ job'[u].todo = job[u].todo
  PROVE  OldOnlyInTodo'
<1>. SUFFICES ASSUME NEW u \in Task, job'[u].kind = "reload"
              PROVE  /\ \A g \in Active' : inst'[pool'[g]].ckpt # default_ckpt_path'
                                             => g \in job'[u].todo
                     /\ job'[u].phase = "ready" =>
                          \A i \in job'[u].insts : inst'[i].ckpt = default_ckpt_path'
  BY DEF OldOnlyInTodo
<1>1. \A g \in Active' : g \in Active /\ pool'[g] = pool[g] /\ pool[g] \in Inst
  BY DEF Quiet, TypeOK, Active
<1>2. job'[u].phase = "ready" => job[u].phase = "ready" /\ job'[u].insts = job[u].insts
                                 /\ job[u].insts \in SUBSET Inst
  BY DEF Quiet, TypeOK, Job
<1>. QED  BY <1>1, <1>2 DEF Quiet, OldOnlyInTodo

\* A reload launches instances of the checkpoint it reloads to.
LEMMA LaunchOld ==
  ASSUME TypeOK, Created, OldOnlyInTodo, NEW t \in Task, Launch(t)
  PROVE  OldOnlyInTodo'
<1>. SUFFICES ASSUME NEW u \in Task, job'[u].kind = "reload"
              PROVE  /\ \A g \in Active' : inst'[pool'[g]].ckpt # default_ckpt_path'
                                             => g \in job'[u].todo
                     /\ job'[u].phase = "ready" =>
                          \A i \in job'[u].insts : inst'[i].ckpt = default_ckpt_path'
  BY DEF OldOnlyInTodo
<1>1. job[u].kind = "reload" /\ job'[u].todo = job[u].todo /\ default_ckpt_path' = default_ckpt_path
  BY LaunchFresh
<1>2. \A g \in Active' : g \in Active /\ pool'[g] = pool[g] /\ inst'[pool[g]] = inst[pool[g]]
  BY LaunchFresh DEF Created, TypeOK, Active
<1>3. CASE u = t
  BY <1>1, <1>2, <1>3, LaunchFresh DEF OldOnlyInTodo
<1>4. CASE u # t
  <2>1. job'[u] = job[u] /\ job[u].insts \in SUBSET Inst
    BY <1>4, LaunchFresh DEF TypeOK, Job
  <2>2. job[u].phase = "ready" => \A i \in job[u].insts : inst'[i] = inst[i]
    BY <2>1, LaunchFresh DEF Created
  <2>. QED  BY <1>1, <1>2, <2>1, <2>2 DEF OldOnlyInTodo
<1>. QED  BY <1>3, <1>4

\* Only a reload or an add can wait for instances while a reload runs: the
\* other registering coroutines are excluded by Control.
LEMMA EnterOld ==
  ASSUME TypeOK, Control, OldOnlyInTodo, NEW t \in Task, Enter(t)
  PROVE  OldOnlyInTodo'
<1>. SUFFICES ASSUME NEW u \in Task, job'[u].kind = "reload"
              PROVE  /\ \A g \in Active' : inst'[pool'[g]].ckpt # default_ckpt_path'
                                             => g \in job'[u].todo
                     /\ job'[u].phase = "ready" =>
                          \A i \in job'[u].insts : inst'[i].ckpt = default_ckpt_path'
  BY DEF OldOnlyInTodo
<1>1. job[u].kind = "reload" /\ job'[u].todo = job[u].todo
  BY EnterRegisters
<1>2. t = u \/ job[t].kind = "add"
  <2>1. job[t].phase = "ready" /\ job[t].phase \in PhasesOf(job[t].kind) /\ job[t].kind \in Kind
    BY EnterRegisters DEF Control, JobShape, TypeOK, Job
  <2>2. job[t].kind \in {"boot", "monitor", "reload", "add"}
    BY <2>1 DEF PhasesOf, Kind
  <2>3. job[t].kind # "boot"
    BY <1>1 DEF Control, Handle
  <2>. QED  BY <1>1, <2>2, <2>3 DEF Control, Exclusive
<1>3. \A g \in Active' : \/ g \in Active /\ pool'[g] = pool[g]
                         \/ t = u /\ job[u].phase = "ready" /\ pool'[g] \in job[u].insts
  BY <1>2, EnterRegisters DEF Active
<1>4. job'[u].phase = "ready" => job'[u] = job[u]
  BY EnterRegisters
<1>. QED  BY <1>1, <1>3, <1>4, EnterRegisters DEF OldOnlyInTodo

\* The reload that starts lists what is old; each batch takes off its list only
\* GPUs whose entry it removes.
LEMMA ReloadOld ==
  ASSUME TypeOK, OldOnlyInTodo, NEW t \in Task, NEW c \in Ckpt, NEW b \in 1 .. N,
         SerialReloads, Reload(t, c, b)
  PROVE  OldOnlyInTodo'
<1>. DEFINE old == {g \in Active : inst[pool[g]].ckpt # c}
            j == [Idle EXCEPT !.kind  = "reload", !.phase = "batch",
                              !.todo  = old,      !.batch = b]
<1>1. j.phase = "batch" /\ j.todo = old /\ Sleeping.kind = "monitor" /\ Idle.kind = "none"
  BY DEF Idle, Sleeping
<1>2. /\ job' = [Cancelled EXCEPT ![t] = Sleeping] \/
         (job' = [Cancelled EXCEPT ![t] = j] /\ default_ckpt_path' = c)
      /\ pool' = pool /\ inst' = inst
      /\ \A u \in Task : job[u].kind # "reload"
  BY DEF Reload, Reloading
<1>. HIDE DEF j
<1>3. \A u \in Task \ {t} : job'[u].kind # "reload"
  BY <1>1, <1>2, CancelledType DEF Cancelled
<1>4. job'[t].kind = "reload" => job'[t] = j /\ default_ckpt_path' = c
  BY <1>1, <1>2, CancelledType
<1>. QED  BY <1>1, <1>2, <1>3, <1>4 DEF OldOnlyInTodo, Active

\* What a batch takes off the list has left the pool.
LEMMA BatchOld ==
  ASSUME TypeOK, Control, OldOnlyInTodo, NEW t \in Task, Batch(t)
  PROVE  OldOnlyInTodo'
<1>1. PICK gs : /\ gs \in SUBSET job[t].todo
                /\ Pop(gs)
                /\ job' = [job EXCEPT ![t].phase = "drain", ![t].todo  = @ \ gs,
                                      ![t].count = Cardinality(gs),
                                      ![t].insts = Popped(gs)]
  BY DEF Batch
<1>. DEFINE j == [job[t] EXCEPT !.phase = "drain", !.todo = @ \ gs,
                                !.count = Cardinality(gs), !.insts = Popped(gs)]
<1>2. j.phase = "drain" /\ j.todo = job[t].todo \ gs
  BY DEF TypeOK, Job
<1>3. job' = [job EXCEPT ![t] = j]
  BY <1>1 DEF TypeOK
<1>. HIDE DEF j
<1>4. job[t].kind = "reload"
  BY DEF Batch, Control, JobShape, PhasesOf, TypeOK, Job, Kind
<1>5. \A u \in Task : job'[u].kind = "reload" => u = t
  BY <1>3, <1>4 DEF Control, Exclusive, TypeOK
<1>6. job'[t].phase = "drain" /\ job'[t].todo = job[t].todo \ gs
  BY <1>2, <1>3 DEF TypeOK
<1>7. \A g \in Active' : /\ g \in Active /\ g \notin gs /\ pool'[g] = pool[g]
                         /\ inst'[pool[g]].ckpt = inst[pool[g]].ckpt
  BY <1>1, PopQuiet DEF Pop, Active, TypeOK
<1>8. default_ckpt_path' = default_ckpt_path
  BY DEF Batch, ckptVars
<1>. QED  BY <1>4, <1>5, <1>6, <1>7, <1>8 DEF OldOnlyInTodo

\* A coroutine that is no reload, or keeps its list, leaves all lists alone.
LEMMA TodoKept ==
  ASSUME TypeOK, NEW t \in Task, NEW j,
         job' = [job EXCEPT ![t] = j] \/ job' = [Cancelled EXCEPT ![t] = j],
         j.kind = "reload" => job[t].kind = "reload" /\ j.todo = job[t].todo
  PROVE  \A u \in Task : job'[u].kind = "reload" =>
           job[u].kind = "reload" /\ job'[u].todo = job[u].todo
<1>1. job'[t] = j
  BY CancelledType DEF TypeOK
<1>2. \A u \in Task \ {t} : job'[u] = job[u] \/ job'[u] = Idle
  BY CancelledType DEF TypeOK, Cancelled
<1>3. Idle.kind = "none"
  BY DEF Idle
<1>. QED  BY <1>1, <1>2, <1>3

\* Only Batch shortens a list.
LEMMA StepTodo ==
  ASSUME TypeOK, NEW t \in Task, Step(t), ~Launch(t), ~Enter(t), ~Batch(t)
  PROVE  /\ default_ckpt_path' = default_ckpt_path
         /\ \A u \in Task : job'[u].kind = "reload" =>
              job[u].kind = "reload" /\ job'[u].todo = job[u].todo
<1>0. Idle.kind = "none" /\ Sleeping.kind = "monitor"
  BY DEF Idle, Sleeping
<1>1. PICK j : /\ job' = [job EXCEPT ![t] = j]
               /\ j.kind = "reload" => job[t].kind = "reload" /\ j.todo = job[t].todo
  <2>1. CASE Select(t)
    <3>. DEFINE fs == FirstOf(Wanted(t), {g \in GPU : FreeGPU(g)})
                k == [job[t] EXCEPT !.phase = "launch", !.gpus = fs]
    <3>1. k.kind = job[t].kind /\ k.todo = job[t].todo
      BY DEF TypeOK, Job
    <3>2. AfterAdd(t).kind = "reload" =>
            job[t].kind = "reload" /\ AfterAdd(t).todo = job[t].todo
      BY <1>0 DEF AfterAdd, TypeOK, Job
    <3>3. job' = [job EXCEPT ![t] = AfterAdd(t)] \/ job' = [job EXCEPT ![t] = k]
      BY <2>1 DEF Select, TypeOK
    <3>. HIDE DEF k
    <3>. QED  BY <3>1, <3>2, <3>3
  <2>2. CASE ReadyTimeout(t)
    BY <2>2, RaisedShape DEF ReadyTimeout
  <2>3. CASE Drained(t)
    <3>. DEFINE k == [job[t] EXCEPT !.phase = "select", !.insts = {}]
    <3>1. k.kind = job[t].kind /\ k.todo = job[t].todo
      BY DEF TypeOK, Job
    <3>2. job' = [job EXCEPT ![t] = k] \/ job' = [job EXCEPT ![t] = Idle]
      BY <2>3 DEF Drained, TypeOK
    <3>. HIDE DEF k
    <3>. QED  BY <1>0, <3>1, <3>2
  <2>4. CASE Probe(t)
    <3>. DEFINE k == [job[t] EXCEPT !.phase = IF Active = {} THEN "select" ELSE "health",
                                    !.insts = Popped(GPU)]
    <3>1. k.kind = "monitor"
      BY <2>4 DEF Probe, TypeOK, Job
    <3>2. job' = [job EXCEPT ![t] = k]
      BY <2>4 DEF Probe, TypeOK
    <3>. HIDE DEF k
    <3>. QED  BY <3>1, <3>2
  <2>5. CASE Probed(t)
    <3>1. PICK gs : job' = [job EXCEPT ![t].phase = "drain", ![t].insts = Popped(gs)]
      BY <2>5 DEF Probed
    <3>. DEFINE k == [job[t] EXCEPT !.phase = "drain", !.insts = Popped(gs)]
    <3>2. k.kind = "monitor"
      BY <2>5 DEF Probed, TypeOK, Job
    <3>3. job' = [job EXCEPT ![t] = k]
      BY <3>1 DEF TypeOK
    <3>. HIDE DEF k
    <3>. QED  BY <3>2, <3>3
  <2>6. CASE ReloadDone(t)
    BY <1>0, <2>6 DEF ReloadDone
  <2>. QED  BY <2>1, <2>2, <2>3, <2>4, <2>5, <2>6 DEF Step
<1>2. default_ckpt_path' = default_ckpt_path
  BY DEF Step, Select, ReadyTimeout, Drained, Probe, Probed, ReloadDone, ckptVars
<1>. QED  BY <1>1, <1>2, TodoKept

\* The routes other than reload leave the lists alone.
LEMMA RouteTodo ==
  ASSUME TypeOK, NEW t \in Task, NEW g \in GPU,
         AddById(t, g) \/ RemoveById(t, g) \/ Shutdown(t)
  PROVE  /\ default_ckpt_path' = default_ckpt_path
         /\ \A u \in Task : job'[u].kind = "reload" =>
              job[u].kind = "reload" /\ job'[u].todo = job[u].todo
<1>1. PICK j : /\ job' = [job EXCEPT ![t] = j] \/ job' = [Cancelled EXCEPT ![t] = j]
               /\ j.kind # "reload"
  <2>1. CASE AddById(t, g)
    <3>. DEFINE k == [Idle EXCEPT !.kind = "add", !.phase = "launch", !.gpus = {g}]
    <3>1. k.kind = "add" /\ job' = [job EXCEPT ![t] = k]
      BY <2>1 DEF AddById, Idle
    <3>. HIDE DEF k
    <3>. QED  BY <3>1
  <2>2. CASE RemoveById(t, g)
    <3>. DEFINE k == [Idle EXCEPT !.kind = "remove", !.phase = "drain", !.insts = Popped({g})]
    <3>1. k.kind = "remove" /\ job' = [job EXCEPT ![t] = k]
      BY <2>2 DEF RemoveById, Idle
    <3>. HIDE DEF k
    <3>. QED  BY <3>1
  <2>3. CASE Shutdown(t)
    <3>. DEFINE k == [Idle EXCEPT !.kind = "shutdown", !.phase = "drain", !.insts = Popped(GPU)]
    <3>1. k.kind = "shutdown" /\ job' = [Cancelled EXCEPT ![t] = k]
      BY <2>3 DEF Shutdown, Idle
    <3>. HIDE DEF k
    <3>. QED  BY <3>1
  <2>. QED  BY <2>1, <2>2, <2>3
<1>2. default_ckpt_path' = default_ckpt_path
  BY DEF AddById, RemoveById, Shutdown, ckptVars
<1>. QED  BY <1>1, <1>2, TodoKept

\* ReloadInv is inductive when reloads are serial.
LEMMA ReloadInductive ==
  ASSUME SerialReloads
  PROVE  TypeOK /\ SingleOwner /\ ReloadInv /\ [Next]_vars => ReloadInv'
<1>. SUFFICES ASSUME TypeOK, SingleOwner, ReloadInv, [Next]_vars PROVE ReloadInv'
  OBVIOUS
<1>0. Control /\ Created /\ OldOnlyInTodo
  BY DEF ReloadInv, Control
<1>1. Control'
  BY <1>0, ControlInductive
<1>2. Created'
  BY <1>0, OwnersInductive
<1>3. OldOnlyInTodo'
  <2>1. ASSUME NEW t \in Task, Step(t) PROVE OldOnlyInTodo'
    BY <1>0, <2>1, LaunchOld, EnterOld, BatchOld, StepQuiet, StepTodo, OldQuiet
  <2>2. ASSUME NEW t \in Task, Route(t) PROVE OldOnlyInTodo'
    <3>1. ASSUME NEW c \in Ckpt, NEW b \in 1 .. N, Reload(t, c, b) PROVE OldOnlyInTodo'
      BY <1>0, <3>1, ReloadOld
    <3>2. ASSUME NEW g \in GPU, AddById(t, g) \/ RemoveById(t, g) \/ Shutdown(t)
          PROVE  OldOnlyInTodo'
      BY <1>0, <2>2, <3>2, RouteTodo, RouteQuiet, OldQuiet
    <3>3. 0 \in GPU
      BY PoolAssumption DEF GPU
    <3>. QED  BY <2>2, <3>1, <3>2, <3>3 DEF Route
  <2>3. ASSUME NEW i \in Inst, Process(i) PROVE OldOnlyInTodo'
    <3>1. job' = job /\ default_ckpt_path' = default_ckpt_path
      BY <2>3 DEF Process, ProcUp, ProcClash, ProcCrash, ProcStops, SetProc, ckptVars
    <3>. QED  BY <1>0, <2>3, <3>1, ProcessQuiet, OldQuiet
  <2>4. CASE UNCHANGED vars
    <3>1. Quiet /\ job' = job /\ default_ckpt_path' = default_ckpt_path
      BY <2>4 DEF vars, Quiet
    <3>. QED  BY <1>0, <3>1, OldQuiet
  <2>. QED  BY <2>1, <2>2, <2>3, <2>4 DEF Next
<1>. QED  BY <1>1, <1>2, <1>3 DEF ReloadInv, Control

\* A client that posts /reload only when no reload runs gets a rolling reload
\* that never takes an old instance for a new one: outside its list every entry
\* serves the new checkpoint (roll_reload, model_service.py:866-918).
THEOREM ReloadReplacesOld == SerialReloads => (Spec => []OldOnlyInTodo)
<1>. SUFFICES ASSUME SerialReloads PROVE Spec => []OldOnlyInTodo
  OBVIOUS
<1>1. TypeOK /\ SingleOwner /\ ReloadInv /\ [Next]_vars => ReloadInv'
  BY ReloadInductive
<1>2. ReloadInv => OldOnlyInTodo
  BY DEF ReloadInv
<1>. QED
  BY <1>1, <1>2, InitTypeOK, StepTypeOK, PoolSingleOwner, InitReload, PTL DEF Spec

\* And no monitor is alive while it runs, nor are there ever two monitors
\* (model_service.py:873-876, 914-916).
THEOREM ReloadPausesMonitor == SerialReloads => (Spec => []MonitorPaused)
<1>. SUFFICES ASSUME SerialReloads PROVE Spec => []MonitorPaused
  OBVIOUS
<1>1. TypeOK /\ SingleOwner /\ ReloadInv /\ [Next]_vars => ReloadInv'
  BY ReloadInductive
<1>2. ReloadInv => MonitorPaused
  BY DEF ReloadInv, Handle, Exclusive, MonitorPaused, Monitors, Reloading
<1>. QED
  BY <1>1, <1>2, InitTypeOK, StepTypeOK, PoolSingleOwner, InitReload, PTL DEF Spec

-----------------------------------------------------------------------------
\* Ranks: in a set of GPUs they run from 0 to the size of the set.

\* Of two members the smaller has the smaller rank.
LEMMA RankStrict ==
  ASSUME NEW S \in SUBSET GPU, NEW g \in S, NEW h \in S, g < h
  PROVE  Rank(g, S) < Rank(h, S)
<1>. DEFINE below == {y \in S : y < g}
            upTo  == {y \in S : y < h}
<1>1. IsFiniteSet(upTo) /\ Cardinality(upTo) \in Nat /\ Cardinality(below) \in Nat
  BY GPUSetFinite, upTo \in SUBSET GPU, below \in SUBSET GPU
<1>0. S \in SUBSET Nat
  BY PoolAssumption DEF GPU
<1>2. below \in SUBSET upTo /\ g \in upTo /\ g \notin below
  <2>1. g \in Nat /\ h \in Nat
    BY <1>0
  <2>2. \A y \in S : y \in Nat /\ (y < g => y < h)
    BY <1>0, <2>1
  <2>3. ~(g < g)
    BY <2>1
  <2>. QED  BY <2>2, <2>3
<1>3. below # upTo
  BY <1>2
<1>. HIDE DEF below, upTo
<1>4. Cardinality(below) <= Cardinality(upTo) /\ Cardinality(upTo) # Cardinality(below)
  BY <1>1, <1>2, <1>3, FS_Subset
<1>. QED  BY <1>1, <1>4 DEF Rank, below, upTo

\* Different members have different ranks.
LEMMA RankInjective ==
  ASSUME NEW S \in SUBSET GPU, NEW g \in S, NEW h \in S, Rank(g, S) = Rank(h, S)
  PROVE  g = h
<1>1. g \in Nat /\ h \in Nat /\ Rank(g, S) \in Nat /\ Rank(h, S) \in Nat
  BY RankInNat, PoolAssumption DEF GPU
<1>. QED  BY <1>1, RankStrict

\* The first k GPUs of a set that has as many are k GPUs: a list slice [:k]
\* (model_service.py:437, 452, 476).
LEMMA FirstOfSize ==
  ASSUME NEW S \in SUBSET GPU, NEW k \in Nat, k <= Cardinality(S)
  PROVE  Cardinality(FirstOf(k, S)) = k
<1>. DEFINE n == Cardinality(S)
            f == [x \in S |-> Rank(x, S)]
            F == FirstOf(k, S)
            h == [x \in F |-> Rank(x, S)]
<1>1. IsFiniteSet(S) /\ n \in Nat
  BY GPUSetFinite
<1>2. f \in Injection(S, 0 .. n - 1)
  <2>1. \A x \in S : Rank(x, S) \in 0 .. n - 1
    BY <1>1, RankInNat, RankBelowSize
  <2>2. \A x, y \in S : f[x] = f[y] => x = y
    BY RankInjective
  <2>. QED  BY <2>1, <2>2, Fun_IsInj
<1>3. Cardinality(0 .. n - 1) = n /\ IsFiniteSet(0 .. n - 1)
  <2>. HIDE DEF n
  <2>. QED  BY <1>1, FS_Interval
<1>4. f \in Surjection(S, 0 .. n - 1)
  BY <1>2, <1>3, FS_Injection
<1>5. F \in SUBSET S
  BY DEF FirstOf
<1>6. h \in [F -> 0 .. k - 1] /\ \A x, y \in F : h[x] = h[y] => x = y
  BY <1>5, RankInNat, RankInjective DEF FirstOf
<1>7. \A r \in 0 .. k - 1 : \E x \in F : h[x] = r
  <2>. SUFFICES ASSUME NEW r \in 0 .. k - 1 PROVE \E x \in F : h[x] = r
    OBVIOUS
  <2>1. r \in 0 .. n - 1 /\ r < k
    BY <1>1
  <2>2. PICK x \in S : f[x] = r
    <3>. HIDE DEF f, n
    <3>. QED  BY <1>4, <2>1 DEF Surjection
  <2>3. x \in F
    BY <2>1, <2>2 DEF FirstOf
  <2>. QED  BY <2>2, <2>3
<1>8. h \in Injection(F, 0 .. k - 1) /\ h \in Surjection(F, 0 .. k - 1)
  <2>. HIDE DEF h, F
  <2>. QED  BY <1>6, <1>7, Fun_IsInj, Fun_IsSurj
<1>9. ExistsBijection(F, 0 .. k - 1)
  BY <1>8 DEF ExistsBijection, Bijection
<1>10. IsFiniteSet(F)
  BY <1>1, <1>5, FS_Subset
<1>11. Cardinality(0 .. k - 1) = k
  BY FS_Interval
<1>. HIDE DEF F
<1>12. Cardinality(F) = k
  BY <1>9, <1>10, <1>11, FS_Bijection
<1>. QED  BY <1>12 DEF F

-----------------------------------------------------------------------------
\* The calm pool: no faults, serial reloads, no other route.  CalmInv names the
\* one coroutine t that is at work; the lemmas below take its steps one by one.

\* The working coroutine moves on in its role.
LEMMA AloneKept ==
  ASSUME TypeOK, NEW t \in Task, Alone(t), NEW j,
         job' = [job EXCEPT ![t] = j],
         monitoring_task' = monitoring_task,
         j.kind = job[t].kind,
         j.phase \in PhasesOf(j.kind),
         j.kind = "monitor" => j.phase \in {"sleep", "health", "drain", "select"}
  PROVE  Alone(t)' /\ job'[t] = j
<1>1. job'[t] = j /\ \A u \in Task \ {t} : job'[u] = job[u]
  BY DEF TypeOK
<1>. QED  BY <1>1 DEF Alone, Serving

\* It becomes a monitor, at the end of the start-up or of a reload.
LEMMA AloneSleeping ==
  ASSUME TypeOK, NEW t \in Task, Alone(t),
         job' = [job EXCEPT ![t] = Sleeping],
         monitoring_task' = t
  PROVE  Alone(t)' /\ job'[t] = Sleeping
<1>1. job'[t] = Sleeping /\ \A u \in Task \ {t} : job'[u] = job[u]
  BY DEF TypeOK
<1>2. Sleeping.kind = "monitor" /\ Sleeping.phase = "sleep" /\ "sleep" \in PhasesOf("monitor")
  BY DEF Sleeping, Idle, PhasesOf
<1>. QED  BY <1>1, <1>2, PoolAssumption DEF Alone, Serving

\* Neither the processes nor the pool change, and t still answers for what it
\* answered for.
LEMMA AccountedKept ==
  ASSUME TypeOK, NEW t \in Task, NEW v \in Task, Apart, Accounted(t),
         pool' = pool, inst' = inst, nextInst' = nextInst,
         Awaits(v)' = Awaits(t),
         \A i \in Inst : inst[i].proc = "stopping" => i \in Drains(v)'
  PROVE  Apart' /\ Accounted(v)'
<1>1. Apart'
  BY DEF Apart, Live
<1>2. Accounted(v)'
  <2>1. Active' = Active
    BY DEF Active
  <2>. QED  BY <2>1 DEF Accounted, Alive, Live
<1>. QED  BY <1>1, <1>2

\* The size of the pool is a number, and so are the counts of t.
LEMMA CalmNumbers ==
  ASSUME TypeOK, NEW t \in Task
  PROVE  /\ Active \in SUBSET GPU
         /\ IsFiniteSet(Active) /\ Cardinality(Active) \in Nat
         /\ replicas \in Nat \ {0} /\ replicas <= N
         /\ Missing(t) \in Nat
         /\ job[t].todo \in SUBSET GPU
<1>1. Active \in SUBSET GPU
  BY DEF Active
<1>2. replicas \in Nat \ {0} /\ replicas <= N
  BY PoolAssumption DEF replicas
<1>. QED  BY <1>1, <1>2, GPUSetFinite DEF Missing, TypeOK, Job

\* Between two waits nothing but the pool's own instances runs, so the GPUs with
\* free memory are those without an entry.
LEMMA FreeOutsidePool ==
  ASSUME TypeOK, NEW t \in Task, Accounted(t), job[t].phase \notin {"ready", "drain"}
  PROVE  /\ \A i \in Inst : Live(i) => inst[i].proc = "up" /\ pool[inst[i].gpu] = i
         /\ {g \in GPU : FreeGPU(g)} = GPU \ Active
<1>1. \A i \in Inst : Live(i) => inst[i].proc = "up" /\ pool[inst[i].gpu] = i
  BY DEF Accounted, Awaits, Drains, Live
<1>2. ASSUME NEW g \in GPU, FreeGPU(g) PROVE g \notin Active
  BY <1>2 DEF Accounted, FreeGPU, Held, Active, TypeOK
<1>3. ASSUME NEW g \in GPU, g \notin Active PROVE FreeGPU(g)
  BY <1>1, <1>3 DEF FreeGPU, Held, Active, Live, Inst, NoInst
<1>. QED  BY <1>1, <1>2, <1>3

\* The choice of GPUs finds as many as are missing.
LEMMA SelectCalm ==
  ASSUME TypeOK, NEW t \in Task, Alone(t), Apart, Accounted(t), Room(t), Select(t)
  PROVE  Alone(t)' /\ Apart' /\ Accounted(t)' /\ Room(t)'
<1>. DEFINE free == {g \in GPU : FreeGPU(g)}
            fs   == FirstOf(Wanted(t), free)
            j    == [job[t] EXCEPT !.phase = "launch", !.gpus = fs]
<1>0. /\ job[t].phase = "select" /\ pool' = pool /\ inst' = inst /\ nextInst' = nextInst
      /\ monitoring_task' = monitoring_task
      /\ job' = IF Complete(t) \/ free = {} THEN [job EXCEPT ![t] = AfterAdd(t)]
                ELSE [job EXCEPT ![t] = j]
  BY DEF Select, TypeOK
<1>1. \A i \in Inst : inst[i].proc # "stopping"
  BY <1>0 DEF Accounted, Drains
<1>2. /\ Cardinality(Active) \in Nat /\ IsFiniteSet(Active) /\ Active \in SUBSET GPU
      /\ Missing(t) \in Nat /\ replicas \in Nat \ {0} /\ replicas <= N
      /\ Cardinality(Active) + Missing(t) = replicas
  BY CalmNumbers DEF Room
<1>3. free = GPU \ Active /\ free \in SUBSET GPU
  BY <1>0, FreeOutsidePool
<1>4. Cardinality(free) \in Nat /\ Missing(t) <= Cardinality(free)
  <2>1. IsFiniteSet(GPU) /\ Cardinality(GPU) = N /\ N \in Nat
    BY PoolAssumption, FS_Interval DEF GPU
  <2>2. GPU \cap Active = Active
    BY <1>2
  <2>3. Cardinality(GPU \ Active) = N - Cardinality(Active)
    BY <2>1, <2>2, FS_Difference
  <2>4. Cardinality(free) \in Nat
    BY <1>3, GPUSetFinite
  <2>. HIDE DEF free
  <2>. QED  BY <1>2, <1>3, <2>1, <2>3, <2>4
<1>5. Awaits(t) = {} /\ Active' = Active
  BY <1>0 DEF Awaits, Active
<1>. HIDE DEF free
<1>6. CASE job[t].kind = "monitor"
  <2>1. Complete(t)
    BY <1>2, <1>6 DEF Complete, Room, Missing
  <2>2. job' = [job EXCEPT ![t] = Sleeping]
    BY <1>0, <1>6, <2>1 DEF AfterAdd
  <2>3. Sleeping.kind = "monitor" /\ Sleeping.phase = "sleep" /\ Sleeping.count = 0
    BY DEF Sleeping, Idle
  <2>4. Alone(t)' /\ job'[t] = Sleeping
    BY <1>0, <1>6, <2>2, <2>3, AloneKept DEF PhasesOf
  <2>5. Apart' /\ Accounted(t)'
    BY <1>0, <1>1, <1>5, <2>3, <2>4, AccountedKept DEF Awaits
  <2>6. Room(t)'
    BY <1>2, <1>5, <1>6, <2>3, <2>4 DEF Room, Missing
  <2>. QED  BY <2>4, <2>5, <2>6
<1>7. CASE job[t].kind # "monitor" /\ free # {}
  <2>1. Wanted(t) = Missing(t) /\ job[t].kind \in {"boot", "reload"} /\ ~Complete(t)
    BY <1>7 DEF Wanted, Missing, Alone, Complete
  <2>2. Cardinality(fs) = Missing(t)
    BY <1>2, <1>3, <1>4, <2>1, FirstOfSize
  <2>3. \A g \in fs : FreeGPU(g)
    BY DEF FirstOf, free
  <2>. HIDE DEF fs
  <2>4. /\ j.kind = job[t].kind /\ j.phase = "launch" /\ j.gpus = fs /\ j.count = job[t].count
        /\ j.todo = job[t].todo /\ j.batch = job[t].batch
    BY DEF TypeOK, Job
  <2>5. job' = [job EXCEPT ![t] = j]
    BY <1>0, <1>7, <2>1
  <2>. HIDE DEF j
  <2>6. Alone(t)' /\ job'[t] = j
    <3>1. j.phase \in PhasesOf(j.kind) /\ j.kind # "monitor"
      BY <2>1, <2>4 DEF PhasesOf
    <3>. QED  BY <1>0, <2>4, <2>5, <3>1, AloneKept
  <2>7. Apart' /\ Accounted(t)'
    BY <1>0, <1>1, <1>5, <2>4, <2>6, AccountedKept DEF Awaits
  <2>8. Room(t)'
    <3>1. \A g \in fs : FreeGPU(g)'
      BY <1>0, <2>3 DEF FreeGPU
    <3>2. Missing(t)' = Missing(t)
      BY <2>4, <2>6 DEF Missing
    <3>. QED  BY <1>2, <1>5, <2>1, <2>2, <2>4, <2>6, <3>1, <3>2 DEF Room
  <2>. QED  BY <2>6, <2>7, <2>8
<1>8. CASE job[t].kind # "monitor" /\ free = {}
  <2>1. Missing(t) = 0 /\ job[t].kind = "reload"
    BY <1>2, <1>4, <1>8, FS_EmptySet DEF Missing, Alone
  <2>. DEFINE k == [job[t] EXCEPT !.phase = "batch", !.gpus = {}, !.insts = {}, !.count = 0]
  <2>2. /\ k.kind = "reload" /\ k.phase = "batch" /\ k.count = 0
        /\ k.todo = job[t].todo /\ k.batch = job[t].batch /\ k.batch \in Nat
    BY <2>1 DEF TypeOK, Job
  <2>3. job' = [job EXCEPT ![t] = k]
    BY <1>0, <1>8, <2>1 DEF AfterAdd
  <2>. HIDE DEF k
  <2>4. Alone(t)' /\ job'[t] = k
    <3>1. k.phase \in PhasesOf(k.kind) /\ k.kind # "monitor" /\ k.kind = job[t].kind
      BY <2>1, <2>2 DEF PhasesOf
    <3>. QED  BY <1>0, <2>3, <3>1, AloneKept
  <2>5. Apart' /\ Accounted(t)'
    BY <1>0, <1>1, <1>5, <2>2, <2>4, AccountedKept DEF Awaits
  <2>6. Room(t)'
    BY <1>2, <1>5, <2>1, <2>2, <2>4 DEF Room, Missing
  <2>. QED  BY <2>4, <2>5, <2>6
<1>. QED  BY <1>6, <1>7, <1>8

\* What Launch does when every start succeeds: process nextInst + Rank(g, gs) on
\* GPU g, each on a port of its own that was free.
LEMMA LaunchAll ==
  ASSUME TypeOK, NEW t \in Task, Launch(t), Faults = {}
  PROVE  \E ids \in SUBSET Inst, port \in [job[t].gpus -> Port] :
           /\ job' = [job EXCEPT ![t] = [@ EXCEPT !.phase = "ready", !.gpus = {}, !.insts = ids]]
           /\ nextInst' \in Nat
           /\ \A i \in ids : nextInst <= i /\ i < nextInst'
           /\ \A i \in Inst \ ids : inst'[i] = inst[i]
           /\ \A i \in ids : \E g \in job[t].gpus :
                inst'[i].gpu = g /\ inst'[i].port = port[g] /\ inst'[i].proc = "starting"
           /\ \A g \in job[t].gpus : \E i \in ids : inst'[i].gpu = g
           /\ \A i, k \in ids : inst'[i].gpu = inst'[k].gpu => i = k
           /\ \A g, h \in job[t].gpus : port[g] = port[h] => g = h
           /\ \A g \in job[t].gpus : FreePort(port[g])
<1>. DEFINE gs    == job[t].gpus
            free  == {p \in Port : FreePort(p)}
            Id(g) == nextInst + Rank(g, gs)
            ids   == {Id(g) : g \in gs}
<1>1. gs \in SUBSET GPU /\ nextInst \in Nat \ {0}
  BY DEF TypeOK, Job
<1>2. Cardinality(gs) \in Nat /\ \A g \in gs : Rank(g, gs) \in Nat /\ Rank(g, gs) < Cardinality(gs)
  BY <1>1, GPUSetFinite, RankInNat, RankBelowSize
<1>3. nextInst' = nextInst + Cardinality(gs) /\ nextInst' <= MaxInst + 1
  BY DEF Launch
<1>4. \A g \in gs : nextInst <= Id(g) /\ Id(g) < nextInst' /\ Id(g) \in Inst
  BY <1>1, <1>2, <1>3, PoolAssumption DEF Inst
<1>5. PICK bad \in SUBSET gs, port \in [gs -> free] :
        /\ \A g \in gs : Rank(port[g], free) = Rank(g, gs)
        /\ bad # {} => Fault("launch")
        /\ inst' = [i \in Inst |->
                      IF \E g \in gs \ bad : i = Id(g)
                      THEN LET g == CHOOSE h \in gs \ bad : i = Id(h) IN
                           [gpu |-> g, port |-> port[g],
                            ckpt |-> default_ckpt_path, proc |-> "starting"]
                      ELSE inst[i]]
        /\ job' = [job EXCEPT ![t] =
                     IF bad # {} THEN Raised(t)
                     ELSE [@ EXCEPT !.phase = "ready", !.gpus  = {}, !.insts = ids]]
  BY DEF Launch
<1>6. bad = {}
  BY <1>5 DEF Fault
<1>7. \A g, h \in gs : Id(g) = Id(h) => g = h
  <2>. SUFFICES ASSUME NEW g \in gs, NEW h \in gs, Id(g) = Id(h) PROVE g = h
    OBVIOUS
  <2>1. Rank(g, gs) = Rank(h, gs)
    BY <1>1, <1>2
  <2>. QED  BY <1>1, <2>1, RankInjective
<1>8. \A g \in gs : inst'[Id(g)] = [gpu |-> g, port |-> port[g],
                                    ckpt |-> default_ckpt_path, proc |-> "starting"]
  <2>. SUFFICES ASSUME NEW g \in gs
                PROVE  inst'[Id(g)] = [gpu |-> g, port |-> port[g],
                                       ckpt |-> default_ckpt_path, proc |-> "starting"]
    OBVIOUS
  <2>1. Id(g) \in Inst /\ \E h \in gs \ bad : Id(g) = Id(h)
    BY <1>6, <1>4
  <2>2. (CHOOSE h \in gs \ bad : Id(g) = Id(h)) = g
    BY <1>6, <1>7
  <2>. QED  BY <1>5, <2>1, <2>2
<1>9. \A i \in Inst \ ids : inst'[i] = inst[i]
  BY <1>5
<1>10. \A g, h \in gs : port[g] = port[h] => g = h
  <2>1. \A g, h \in gs : port[g] = port[h] => Rank(g, gs) = Rank(h, gs)
    BY <1>5
  <2>. HIDE DEF gs
  <2>. QED  BY <1>1, <2>1, RankInjective
<1>11. ids \in SUBSET Inst /\ port \in [gs -> Port] /\ nextInst' \in Nat
  BY <1>1, <1>2, <1>3, <1>4
<1>12. \A g \in gs : FreePort(port[g])
  BY <1>5
<1>13. \A i \in ids : nextInst <= i /\ i < nextInst'
  BY <1>4
<1>. HIDE DEF Id
<1>14. \A g \in gs : /\ inst'[Id(g)].gpu = g
                     /\ inst'[Id(g)].port = port[g]
                     /\ inst'[Id(g)].proc = "starting"
  <2>. SUFFICES ASSUME NEW g \in gs
                PROVE  /\ inst'[Id(g)].gpu = g
                       /\ inst'[Id(g)].port = port[g]
                       /\ inst'[Id(g)].proc = "starting"
    OBVIOUS
  <2>1. inst'[Id(g)] = [gpu |-> g, port |-> port[g],
                        ckpt |-> default_ckpt_path, proc |-> "starting"]
    BY <1>8
  <2>. QED  BY <2>1
<1>15. job' = [job EXCEPT ![t] = [@ EXCEPT !.phase = "ready", !.gpus  = {}, !.insts = ids]]
  BY <1>6, <1>5
<1>16. \A i \in ids : \E g \in gs :
         inst'[i].gpu = g /\ inst'[i].port = port[g] /\ inst'[i].proc = "starting"
  BY <1>14
<1>17. \A g \in gs : \E i \in ids : inst'[i].gpu = g
  BY <1>14
<1>18. \A i, k \in ids : inst'[i].gpu = inst'[k].gpu => i = k
  BY <1>14
<1>. HIDE DEF ids, free
<1>. QED  BY <1>15, <1>9, <1>10, <1>11, <1>12, <1>13, <1>16, <1>17, <1>18

\* The new processes get GPUs and ports that nobody else has.
LEMMA LaunchCalm ==
  ASSUME TypeOK, NEW t \in Task, Alone(t), Apart, Accounted(t), Room(t), Launch(t), Faults = {}
  PROVE  Alone(t)' /\ Apart' /\ Accounted(t)' /\ Room(t)'
<1>. DEFINE gs == job[t].gpus
<1>0. /\ job[t].phase = "launch" /\ pool' = pool /\ monitoring_task' = monitoring_task
      /\ nextInst \in Nat /\ gs \in SUBSET GPU /\ job[t].kind \in {"boot", "reload"}
  <2>1. job[t].phase = "launch" /\ pool' = pool /\ monitoring_task' = monitoring_task
    BY DEF Launch
  <2>2. nextInst \in Nat /\ gs \in SUBSET GPU
    <3>1. nextInst \in Nat
      BY DEF TypeOK
    <3>2. job[t] \in Job
      BY DEF TypeOK
    <3>3. gs \in SUBSET GPU
      BY <3>2 DEF Job
    <3>. QED  BY <3>1, <3>3, Zenon
  <2>3. job[t].kind \in {"boot", "reload"}
    <3>1. /\ job[t].kind \in {"boot", "monitor", "reload"}
          /\ job[t].kind = "monitor" => job[t].phase \in {"sleep", "health", "drain", "select"}
      BY Zenon DEF Alone
    <3>. QED  BY <2>1, <3>1
  <2>. QED  BY <2>1, <2>2, <2>3, Zenon
<1>1. PICK ids \in SUBSET Inst, port \in [gs -> Port] :
        /\ job' = [job EXCEPT ![t] = [@ EXCEPT !.phase = "ready", !.gpus = {}, !.insts = ids]]
        /\ nextInst' \in Nat
        /\ \A i \in ids : nextInst <= i /\ i < nextInst'
        /\ \A i \in Inst \ ids : inst'[i] = inst[i]
        /\ \A i \in ids : \E g \in gs :
             inst'[i].gpu = g /\ inst'[i].port = port[g] /\ inst'[i].proc = "starting"
        /\ \A g \in gs : \E i \in ids : inst'[i].gpu = g
        /\ \A i, k \in ids : inst'[i].gpu = inst'[k].gpu => i = k
        /\ \A g, h \in gs : port[g] = port[h] => g = h
        /\ \A g \in gs : FreePort(port[g])
  BY LaunchAll
<1>. DEFINE j == [job[t] EXCEPT !.phase = "ready", !.gpus = {}, !.insts = ids]
<1>2. /\ j.kind = job[t].kind /\ j.phase = "ready" /\ j.insts = ids /\ j.count = job[t].count
      /\ j.todo = job[t].todo /\ j.batch = job[t].batch
  BY DEF TypeOK, Job
<1>3. job' = [job EXCEPT ![t] = j]
  BY <1>1
<1>. HIDE DEF j
<1>4. Alone(t)' /\ job'[t] = j
  BY <1>0, <1>2, <1>3, AloneKept DEF PhasesOf
<1>5. \A i \in Inst : Live(i) => inst[i].proc = "up" /\ pool[inst[i].gpu] = i
  BY <1>0, FreeOutsidePool
<1>6. \A i \in Inst : Live(i) => i < nextInst /\ i \notin ids /\ inst'[i] = inst[i]
  <2>. SUFFICES ASSUME NEW i \in Inst, Live(i) PROVE i < nextInst /\ i \notin ids /\ inst'[i] = inst[i]
    OBVIOUS
  <2>1. i < nextInst
    BY DEF Accounted
  <2>2. i \notin ids
    BY <1>0, <1>1, <2>1 DEF Inst
  <2>. QED  BY <1>1, <2>1, <2>2
<1>7. \A i \in Inst \ ids : Live(i)' => Live(i)
  BY <1>1 DEF Live
<1>8. \A g \in gs : FreeGPU(g)
  BY <1>0 DEF Room
<1>9. \A g \in gs : g \notin Active
  BY <1>0, <1>8, FreeOutsidePool
<1>10. Active' = Active /\ \A g \in Active : inst'[pool[g]] = inst[pool[g]]
  BY <1>0, <1>6 DEF Active, Accounted, Live, TypeOK
<1>11. Apart'
  <2>. SUFFICES ASSUME NEW i \in Inst, NEW k \in Inst, i # k, Live(i)', Live(k)'
                PROVE  inst'[i].gpu # inst'[k].gpu /\ inst'[i].port # inst'[k].port
    BY DEF Apart
  <2>1. ASSUME NEW m \in ids, NEW n \in Inst \ ids, Live(n)'
        PROVE  inst'[m].gpu # inst'[n].gpu /\ inst'[m].port # inst'[n].port
    <3>1. Live(n) /\ inst'[n] = inst[n] /\ inst[n].proc = "up"
      BY <1>5, <1>6, <1>7, <2>1
    <3>2. PICK g \in gs : inst'[m].gpu = g /\ inst'[m].port = port[g]
      BY <1>1
    <3>. QED  BY <1>1, <1>8, <3>1, <3>2 DEF FreeGPU, FreePort, Held
  <2>2. CASE i \in ids /\ k \in ids
    BY <1>1, <2>2
  <2>3. CASE i \in ids /\ k \notin ids
    BY <2>1, <2>3
  <2>4. CASE i \notin ids /\ k \in ids
    BY <2>1, <2>4
  <2>5. CASE i \notin ids /\ k \notin ids
    BY <1>1, <1>7, <2>5 DEF Apart
  <2>. QED  BY <2>2, <2>3, <2>4, <2>5
<1>12. Accounted(t)'
  <2>1. Awaits(t)' = ids
    BY <1>2, <1>4 DEF Awaits
  <2>2. \A g \in Active' : inst'[pool'[g]].proc = "up" /\ inst'[pool'[g]].gpu = g
    BY <1>0, <1>10 DEF Accounted
  <2>3. ASSUME NEW i \in ids
        PROVE  /\ inst'[i].proc = "starting" /\ pool'[inst'[i].gpu] # i /\ i < nextInst'
    <3>1. inst'[i].gpu \in gs /\ inst'[i].proc = "starting" /\ i < nextInst'
      BY <1>1
    <3>2. pool[inst'[i].gpu] = NoInst
      BY <1>0, <1>9, <3>1 DEF Active
    <3>. QED  BY <1>0, <3>1, <3>2 DEF Inst, NoInst
  <2>4. ASSUME NEW i \in Inst \ ids, Live(i)'
        PROVE  inst'[i].proc = "up" /\ pool'[inst'[i].gpu] = i /\ i < nextInst'
    <3>1. Live(i) /\ inst'[i] = inst[i]
      BY <1>1, <1>7, <2>4
    <3>2. i \in Nat /\ nextInst <= nextInst'
      BY <1>0, LaunchFresh DEF Inst
    <3>3. i < nextInst
      BY <1>6, <3>1
    <3>. QED  BY <1>0, <1>1, <1>5, <3>1, <3>2, <3>3
  <2>. QED  BY <2>1, <2>2, <2>3, <2>4 DEF Accounted, Live, Alive
<1>13. Room(t)'
  <2>1. {inst'[i].gpu : i \in ids} = gs
    BY <1>1
  <2>2. Missing(t)' = Missing(t)
    BY <1>2, <1>4 DEF Missing
  <2>. QED  BY <1>0, <1>2, <1>4, <1>10, <2>1, <2>2 DEF Room
<1>. QED  BY <1>4, <1>11, <1>12, <1>13

\* The processes t waits for are up when their ports answer: nobody else can
\* answer on them.  They fill GPUs without an entry, as many as were missing.
LEMMA EnterCalm ==
  ASSUME TypeOK, NEW t \in Task, Alone(t), Apart, Accounted(t), Room(t), Enter(t)
  PROVE  /\ Alone(t)' /\ Apart' /\ Accounted(t)' /\ Room(t)'
         /\ \A g \in Active : pool'[g] = pool[g]
<1>. DEFINE is == job[t].insts
            gs == {inst[i].gpu : i \in is}
<1>0. /\ job[t].phase = "ready" /\ inst' = inst /\ nextInst' = nextInst
      /\ is \in SUBSET Inst /\ gs \in SUBSET GPU /\ job[t].kind \in {"boot", "reload"}
  BY DEF Enter, TypeOK, Job, Alone
<1>1. \A i \in is : inst[i].proc = "up" /\ pool[inst[i].gpu] # i
  <2>. SUFFICES ASSUME NEW i \in is PROVE inst[i].proc = "up" /\ pool[inst[i].gpu] # i
    OBVIOUS
  <2>1. Alive(i) /\ pool[inst[i].gpu] # i
    BY <1>0 DEF Accounted, Awaits
  <2>2. PICK k \in Inst : inst[k].port = inst[i].port /\ inst[k].proc = "up"
    BY DEF Enter, AllReady, Healthy
  <2>. QED  BY <1>0, <2>1, <2>2 DEF Apart, Live, Alive
<1>2. \A i, k \in is : inst[i].gpu = inst[k].gpu => i = k
  BY <1>0, <1>1 DEF Apart, Live
<1>3. \A g \in Active : pool[g] \in Inst /\ Live(pool[g]) /\ inst[pool[g]].gpu = g
  BY DEF Accounted, Live, TypeOK, Active
<1>4. gs \cap Active = {}
  <2>. SUFFICES ASSUME NEW i \in is, inst[i].gpu \in Active PROVE FALSE
    OBVIOUS
  <2>1. Live(i) /\ i # pool[inst[i].gpu]
    BY <1>1 DEF Live
  <2>. QED  BY <1>0, <1>3, <2>1 DEF Apart
<1>5. /\ \A i \in is : pool'[inst[i].gpu] = i
      /\ \A g \in GPU \ gs : pool'[g] = pool[g]
  BY <1>0, <1>2 DEF Enter, Register
<1>6. Active' = Active \cup gs
  <2>1. \A g \in gs : pool'[g] \in Inst
    BY <1>0, <1>5
  <2>. QED  BY <1>0, <1>5, <2>1 DEF Active, Inst, NoInst
<1>7. \A i \in Inst : inst[i].proc # "stopping" /\ (inst[i].proc = "starting" => i \in is)
  BY <1>0 DEF Accounted, Drains, Awaits
<1>8. Alone(t)' /\ \/ job[t].kind = "boot" /\ job'[t] = Sleeping
                   \/ /\ job[t].kind = "reload" /\ job'[t].kind = "reload" /\ job'[t].count = 0
                      /\ job'[t].phase = "batch" /\ job'[t].todo = job[t].todo
                      /\ job'[t].batch = job[t].batch
  <2>1. CASE job[t].kind = "boot"
    BY <2>1, AloneSleeping DEF Enter
  <2>2. CASE job[t].kind = "reload"
    <3>. DEFINE k == [job[t] EXCEPT !.phase = "batch", !.gpus = {}, !.insts = {}, !.count = 0]
    <3>1. /\ k.kind = "reload" /\ k.phase = "batch" /\ k.count = 0
          /\ k.todo = job[t].todo /\ k.batch = job[t].batch
      BY <2>2 DEF TypeOK, Job
    <3>2. job' = [job EXCEPT ![t] = k] /\ monitoring_task' = monitoring_task
      BY <2>2 DEF Enter, AfterAdd
    <3>. HIDE DEF k
    <3>3. Alone(t)' /\ job'[t] = k
      BY <2>2, <3>1, <3>2, AloneKept DEF PhasesOf
    <3>. QED  BY <2>2, <3>1, <3>3
  <2>. QED  BY <1>0, <2>1, <2>2
<1>9. Sleeping.kind = "monitor" /\ Sleeping.phase = "sleep" /\ Sleeping.count = 0
  BY DEF Sleeping, Idle
<1>10. Awaits(t)' = {} /\ Drains(t)' = {}
  BY <1>8, <1>9 DEF Awaits, Drains
<1>11. Apart'
  BY <1>0 DEF Apart, Live
<1>12. Accounted(t)'
  <2>1. ASSUME NEW g \in Active' PROVE inst'[pool'[g]].proc = "up" /\ inst'[pool'[g]].gpu = g
    <3>1. CASE g \in gs
      BY <1>0, <1>1, <1>5, <3>1
    <3>2. CASE g \notin gs
      BY <1>0, <1>5, <1>6, <2>1, <3>2 DEF Accounted, Active
    <3>. QED  BY <3>1, <3>2
  <2>2. ASSUME NEW i \in Inst, inst'[i].proc = "up" PROVE pool'[inst'[i].gpu] = i
    <3>1. CASE i \in is
      BY <1>0, <1>5, <3>1
    <3>2. CASE i \notin is
      <4>1. pool[inst[i].gpu] = i /\ inst[i].gpu \in GPU
        BY <1>0, <2>2, <3>2 DEF Accounted, Awaits, TypeOK
      <4>2. inst[i].gpu \in Active
        BY <4>1 DEF Active, Inst, NoInst
      <4>. QED  BY <1>0, <1>4, <1>5, <4>1, <4>2
    <3>. QED  BY <3>1, <3>2
  <2>3. ASSUME NEW i \in Inst, Live(i)' PROVE inst'[i].proc = "up" /\ i < nextInst'
    BY <1>0, <1>1, <1>7, <2>3 DEF Accounted, Live
  <2>. QED  BY <1>10, <2>1, <2>2, <2>3 DEF Accounted, Live
<1>13. Room(t)'
  <2>1. /\ IsFiniteSet(Active) /\ Cardinality(Active) \in Nat /\ Missing(t) \in Nat
        /\ Cardinality(Active) + Missing(t) = replicas
        /\ Cardinality(gs) = Missing(t) /\ IsFiniteSet(gs)
    BY <1>0, CalmNumbers, GPUSetFinite DEF Room
  <2>2. Active \cap gs = {} /\ Cardinality({}) = 0
    BY <1>4, FS_EmptySet
  <2>. HIDE DEF gs
  <2>3. Cardinality(Active') = replicas
    <3>1. Cardinality(Active \cup gs)
            = Cardinality(Active) + Cardinality(gs) - Cardinality(Active \cap gs)
      BY <2>1, FS_Union
    <3>2. Cardinality(Active \cap gs) = 0
      BY <2>2
    <3>3. Cardinality(Active \cup gs) = replicas
      BY <2>1, <3>1, <3>2
    <3>. QED  BY <1>6, <3>3
  <2>4. Missing(t)' = 0
    BY <1>8, <1>9 DEF Missing
  <2>5. job[t].kind = "reload" => job[t].todo \subseteq Active' /\ job[t].batch \in Nat
    BY <1>6 DEF Room, TypeOK, Job
  <2>6. replicas \in Nat
    BY CalmNumbers
  <2>. QED  BY <1>8, <1>9, <2>3, <2>4, <2>5, <2>6 DEF Room
<1>14. \A g \in Active : pool'[g] = pool[g]
  BY <1>4, <1>5 DEF Active
<1>. QED  BY <1>8, <1>11, <1>12, <1>13, <1>14

\* A wait for ready instances cannot fail: none of them dies and none is slow.
LEMMA TimeoutCalm ==
  ASSUME TypeOK, NEW t \in Task, Accounted(t), ReadyTimeout(t), Faults = {}
  PROVE  FALSE
<1>1. PICK i \in job[t].insts : inst[i].proc = "dead"
  BY DEF ReadyTimeout, Fault
<1>2. Alive(i)
  BY DEF Accounted, Awaits, ReadyTimeout, TypeOK, Job
<1>. QED  BY <1>1, <1>2 DEF Alive

\* A finished removal leaves no process behind that is being stopped.
LEMMA DrainedCalm ==
  ASSUME TypeOK, NEW t \in Task, Alone(t), Apart, Accounted(t), Room(t), Drained(t)
  PROVE  Alone(t)' /\ Apart' /\ Accounted(t)' /\ Room(t)' /\ pool' = pool
<1>. DEFINE j == [job[t] EXCEPT !.phase = "select", !.insts = {}]
<1>0. /\ job[t].phase = "drain" /\ job[t].kind \in {"monitor", "reload"}
      /\ inst' = inst /\ pool' = pool /\ nextInst' = nextInst /\ monitoring_task' = monitoring_task
      /\ \A i \in job[t].insts : inst[i].proc = "dead"
      /\ job' = [job EXCEPT ![t] = j]
  BY DEF Drained, Alone, PhasesOf, TypeOK
<1>1. /\ j.kind = job[t].kind /\ j.phase = "select" /\ j.count = job[t].count
      /\ j.todo = job[t].todo /\ j.batch = job[t].batch
  BY DEF TypeOK, Job
<1>. HIDE DEF j
<1>2. Alone(t)' /\ job'[t] = j
  <2>1. "select" \in PhasesOf(job[t].kind)
    BY <1>0 DEF PhasesOf
  <2>. QED  BY <1>0, <1>1, <2>1, AloneKept
<1>3. \A i \in Inst : inst[i].proc # "stopping"
  BY <1>0 DEF Accounted, Drains
<1>4. Awaits(t)' = Awaits(t)
  BY <1>0, <1>1, <1>2 DEF Awaits
<1>5. Apart' /\ Accounted(t)'
  BY <1>0, <1>3, <1>4, AccountedKept
<1>6. Room(t)'
  BY <1>0, <1>1, <1>2 DEF Room, Active, Missing
<1>. QED  BY <1>0, <1>2, <1>5, <1>6

\* The monitor looks at the instances of the pool.
LEMMA ProbeCalm ==
  ASSUME TypeOK, NEW t \in Task, Alone(t), Apart, Accounted(t), Room(t), Probe(t)
  PROVE  Alone(t)' /\ Apart' /\ Accounted(t)' /\ Room(t)'
<1>. DEFINE j == [job[t] EXCEPT !.phase = IF Active = {} THEN "select" ELSE "health",
                                !.insts = Popped(GPU)]
<1>0. /\ job[t].phase = "sleep" /\ job[t].kind = "monitor"
      /\ inst' = inst /\ pool' = pool /\ nextInst' = nextInst /\ monitoring_task' = monitoring_task
      /\ job' = [job EXCEPT ![t] = j]
  BY DEF Probe, TypeOK
<1>1. /\ j.kind = "monitor" /\ j.phase \in {"select", "health"} /\ j.count = job[t].count
      /\ j.insts = Popped(GPU)
  BY <1>0 DEF TypeOK, Job
<1>. HIDE DEF j
<1>2. Alone(t)' /\ job'[t] = j
  BY <1>0, <1>1, AloneKept DEF PhasesOf
<1>3. \A i \in Inst : inst[i].proc # "stopping"
  BY <1>0 DEF Accounted, Drains
<1>4. Awaits(t)' = Awaits(t)
  BY <1>0, <1>1, <1>2 DEF Awaits
<1>5. Apart' /\ Accounted(t)'
  BY <1>0, <1>3, <1>4, AccountedKept
<1>6. Room(t)'
  BY <1>0, <1>1, <1>2 DEF Room, Active, Missing, Popped
<1>. QED  BY <1>2, <1>5, <1>6

\* It finds them all healthy and removes nothing.
LEMMA ProbedCalm ==
  ASSUME TypeOK, NEW t \in Task, Alone(t), Apart, Accounted(t), Room(t), Probed(t), Faults = {}
  PROVE  Alone(t)' /\ Apart' /\ Accounted(t)' /\ Room(t)' /\ pool' = pool
<1>0. /\ job[t].phase = "health" /\ job[t].kind = "monitor"
      /\ nextInst' = nextInst /\ monitoring_task' = monitoring_task
  BY DEF Probed
<1>1. \A i \in job[t].insts : Healthy(inst[i].port)
  BY <1>0 DEF Room, Popped, Accounted, Healthy, Active, TypeOK
<1>2. Popped({}) = {}
  BY DEF Popped
<1>3. Pop({}) /\ job' = [job EXCEPT ![t].phase = "drain", ![t].insts = {}]
  <2>1. PICK late \in SUBSET {i \in job[t].insts : Healthy(inst[i].port)} :
          LET sick == {i \in job[t].insts : ~Healthy(inst[i].port)} \cup late
              gs   == {inst[i].gpu : i \in sick}
          IN  /\ late # {} => Fault("spurious")
              /\ Pop(gs)
              /\ job' = [job EXCEPT ![t].phase = "drain", ![t].insts = Popped(gs)]
    BY DEF Probed
  <2>. DEFINE sick == {i \in job[t].insts : ~Healthy(inst[i].port)} \cup late
              gs   == {inst[i].gpu : i \in sick}
  <2>2. /\ late # {} => Fault("spurious")
        /\ Pop(gs)
        /\ job' = [job EXCEPT ![t].phase = "drain", ![t].insts = Popped(gs)]
    BY <2>1
  <2>3. sick = {}
    BY <1>1, <2>2 DEF Fault
  <2>4. gs = {}
    BY <2>3
  <2>. HIDE DEF gs
  <2>. QED  BY <1>2, <2>2, <2>4
<1>4. pool' = pool /\ inst' = inst
  BY <1>3 DEF Pop, TypeOK
<1>. DEFINE j == [job[t] EXCEPT !.phase = "drain", !.insts = {}]
<1>5. j.kind = "monitor" /\ j.phase = "drain" /\ j.count = job[t].count /\ j.insts = {}
  BY <1>0 DEF TypeOK, Job
<1>6. job' = [job EXCEPT ![t] = j]
  BY <1>3 DEF TypeOK
<1>. HIDE DEF j
<1>7. Alone(t)' /\ job'[t] = j
  BY <1>0, <1>5, <1>6, AloneKept DEF PhasesOf
<1>8. \A i \in Inst : inst[i].proc # "stopping"
  BY <1>0 DEF Accounted, Drains
<1>9. Awaits(t)' = Awaits(t)
  BY <1>0, <1>5, <1>7 DEF Awaits
<1>10. Apart' /\ Accounted(t)'
  BY <1>0, <1>4, <1>8, <1>9, AccountedKept
<1>11. Room(t)'
  BY <1>0, <1>4, <1>5, <1>7 DEF Room, Active, Missing
<1>. QED  BY <1>4, <1>7, <1>10, <1>11

\* A batch takes from the pool what it then owes it, and answers for the
\* processes it stops.
LEMMA BatchCalm ==
  ASSUME TypeOK, NEW t \in Task, Alone(t), Apart, Accounted(t), Room(t), Batch(t)
  PROVE  /\ Alone(t)' /\ Apart' /\ Accounted(t)' /\ Room(t)'
         /\ \A g \in GPU : pool'[g] \in {pool[g], NoInst}
<1>1. PICK gs \in SUBSET job[t].todo :
        /\ Cardinality(gs) <= job[t].batch
        /\ Pop(gs)
        /\ job' = [job EXCEPT ![t].phase = "drain",
                              ![t].todo  = @ \ gs,
                              ![t].count = Cardinality(gs),
                              ![t].insts = Popped(gs)]
  <2>1. PICK gs \in SUBSET job[t].todo :
          /\ \/ Cardinality(gs) = job[t].batch
             \/ gs = job[t].todo /\ Cardinality(gs) < job[t].batch
          /\ Pop(gs)
          /\ job' = [job EXCEPT ![t].phase = "drain",
                                ![t].todo  = @ \ gs,
                                ![t].count = Cardinality(gs),
                                ![t].insts = Popped(gs)]
    BY DEF Batch
  <2>2. Cardinality(gs) \in Nat /\ job[t].batch \in Nat
    BY CalmNumbers, GPUSetFinite DEF TypeOK, Job
  <2>3. Cardinality(gs) <= job[t].batch
    BY <2>1, <2>2
  <2>. QED  BY <2>1, <2>3, Zenon
<1>. DEFINE j == [job[t] EXCEPT !.phase = "drain", !.todo = @ \ gs,
                                !.count = Cardinality(gs), !.insts = Popped(gs)]
<1>0. /\ job[t].phase = "batch" /\ job[t].kind = "reload"
      /\ nextInst' = nextInst /\ monitoring_task' = monitoring_task
  BY DEF Batch, Alone, PhasesOf
<1>2. /\ j.kind = "reload" /\ j.phase = "drain" /\ j.todo = job[t].todo \ gs
      /\ j.count = Cardinality(gs) /\ j.insts = Popped(gs) /\ j.batch = job[t].batch
  BY <1>0 DEF TypeOK, Job
<1>3. job' = [job EXCEPT ![t] = j]
  BY <1>1 DEF TypeOK
<1>. HIDE DEF j
<1>4. Alone(t)' /\ job'[t] = j
  BY <1>0, <1>2, <1>3, AloneKept DEF PhasesOf
<1>5. gs \in SUBSET Active /\ gs \in SUBSET GPU /\ Cardinality(Active) = replicas
      /\ Cardinality(Active) \in Nat /\ IsFiniteSet(Active) /\ Cardinality(gs) \in Nat
  BY <1>0, CalmNumbers, GPUSetFinite DEF Room, Missing
<1>6. \A g \in GPU : pool'[g] = IF g \in gs THEN NoInst ELSE pool[g]
  BY <1>1 DEF Pop
<1>7. Active' = Active \ gs
  BY <1>6 DEF Active
<1>8. \A i \in Inst : Live(i) => inst[i].proc = "up" /\ pool[inst[i].gpu] = i
  BY <1>0, FreeOutsidePool
<1>9. \A i \in Inst : /\ inst'[i].gpu = inst[i].gpu /\ inst'[i].port = inst[i].port
                      /\ ~Live(i) => inst'[i] = inst[i]
                      /\ Live(i) => inst'[i].proc = IF inst[i].gpu \in gs THEN "stopping" ELSE "up"
  <2>. SUFFICES ASSUME NEW i \in Inst
                PROVE  /\ inst'[i].gpu = inst[i].gpu /\ inst'[i].port = inst[i].port
                       /\ ~Live(i) => inst'[i] = inst[i]
                       /\ Live(i) => inst'[i].proc = IF inst[i].gpu \in gs THEN "stopping" ELSE "up"
    OBVIOUS
  <2>1. inst'[i] = IF (\E g \in gs : pool[g] = i) /\ inst[i].proc \in {"starting", "up"}
                   THEN [inst[i] EXCEPT !.proc = "stopping"] ELSE inst[i]
    BY <1>1 DEF Pop
  <2>2. Live(i) => ((\E g \in gs : pool[g] = i) <=> inst[i].gpu \in gs)
    BY <1>5, <1>8 DEF Accounted
  <2>. QED  BY <1>8, <2>1, <2>2 DEF Live, TypeOK
<1>10. \A i \in Inst : Live(i)' => Live(i)
  BY <1>9 DEF Live
<1>11. Apart'
  BY <1>9, <1>10 DEF Apart
<1>12. Accounted(t)'
  <2>1. Awaits(t)' = {} /\ Drains(t)' = Popped(gs)
    BY <1>2, <1>4 DEF Awaits, Drains
  <2>2. ASSUME NEW g \in Active' PROVE inst'[pool'[g]].proc = "up" /\ inst'[pool'[g]].gpu = g
    <3>1. g \in Active /\ g \notin gs /\ pool'[g] = pool[g] /\ pool[g] \in Inst
      BY <1>6, <1>7, <2>2 DEF Active, TypeOK
    <3>2. inst[pool[g]].proc = "up" /\ inst[pool[g]].gpu = g
      BY <3>1 DEF Accounted
    <3>. QED  BY <1>9, <3>1, <3>2 DEF Live
  <2>3. ASSUME NEW i \in Inst, Live(i)'
        PROVE  /\ i < nextInst'
               /\ \/ inst'[i].proc = "up" /\ pool'[inst'[i].gpu] = i
                  \/ inst'[i].proc = "stopping" /\ i \in Popped(gs)
    <3>1. Live(i) /\ i < nextInst /\ pool[inst[i].gpu] = i /\ inst[i].gpu \in GPU
      BY <1>8, <1>10, <2>3 DEF Accounted, TypeOK
    <3>2. CASE inst[i].gpu \in gs
      BY <1>0, <1>9, <3>1, <3>2 DEF Popped, Inst, NoInst
    <3>3. CASE inst[i].gpu \notin gs
      BY <1>0, <1>6, <1>9, <3>1, <3>3
    <3>. QED  BY <3>2, <3>3
  <2>. QED  BY <2>1, <2>2, <2>3 DEF Accounted, Live
<1>13. Room(t)'
  <2>1. Active \cap gs = gs
    BY <1>5
  <2>2. Cardinality(Active') = Cardinality(Active) - Cardinality(gs)
    <3>1. Cardinality(Active \ gs) = Cardinality(Active) - Cardinality(Active \cap gs)
      BY <1>5, FS_Difference
    <3>. QED  BY <1>7, <2>1, <3>1
  <2>3. Missing(t)' = Cardinality(gs)
    BY <1>2, <1>4 DEF Missing
  <2>4. Cardinality(Active') + Missing(t)' = replicas
    BY <1>5, <2>2, <2>3
  <2>5. job[t].todo \ gs \subseteq Active'
    BY <1>0, <1>7 DEF Room
  <2>. QED  BY <1>1, <1>2, <1>4, <2>4, <2>5 DEF Room
<1>. QED  BY <1>4, <1>6, <1>11, <1>12, <1>13

\* The reload ends with the pool full and starts the monitor.
LEMMA ReloadDoneCalm ==
  ASSUME TypeOK, NEW t \in Task, Alone(t), Apart, Accounted(t), Room(t), ReloadDone(t)
  PROVE  Alone(t)' /\ Apart' /\ Accounted(t)' /\ Room(t)'
<1>0. /\ job[t].phase = "batch" /\ job[t].kind = "reload"
      /\ inst' = inst /\ pool' = pool /\ nextInst' = nextInst
      /\ job' = [job EXCEPT ![t] = Sleeping] /\ monitoring_task' = t
  BY DEF ReloadDone, Alone, PhasesOf
<1>1. Sleeping.kind = "monitor" /\ Sleeping.phase = "sleep" /\ Sleeping.count = 0
  BY DEF Sleeping, Idle
<1>2. Alone(t)' /\ job'[t] = Sleeping
  BY <1>0, AloneSleeping
<1>3. \A i \in Inst : inst[i].proc # "stopping"
  BY <1>0 DEF Accounted, Drains
<1>4. Awaits(t)' = Awaits(t)
  BY <1>0, <1>1, <1>2 DEF Awaits
<1>5. Apart' /\ Accounted(t)'
  BY <1>0, <1>3, <1>4, AccountedKept
<1>6. Room(t)'
  BY <1>0, <1>1, <1>2 DEF Room, Active, Missing
<1>. QED  BY <1>2, <1>5, <1>6

\* A reload begins when the monitor is the one at work: it cancels the monitor,
\* which has nothing on its hands, and takes its place.
LEMMA ReloadCalm ==
  ASSUME TypeOK, NEW t \in Task, Alone(t), Apart, Accounted(t), Room(t), SerialReloads,
         NEW v \in Task, NEW c \in Ckpt, NEW b \in 1 .. N, Reload(v, c, b)
  PROVE  Alone(v)' /\ Apart' /\ Accounted(v)' /\ Room(v)'
<1>. DEFINE old == {g \in Active : inst[pool[g]].ckpt # c}
            new == [Idle EXCEPT !.kind  = "reload", !.phase = "batch",
                                !.todo  = old,      !.batch = b]
<1>0. /\ job[t].kind = "monitor" /\ t # v /\ monitoring_task = t /\ Serving
      /\ pool' = pool /\ inst' = inst /\ nextInst' = nextInst
  BY DEF Reload, Call, Reloading, Alone, Idle
<1>1. \A u \in Task : Cancelled[u] = Idle
  BY <1>0 DEF Alone, Cancelled
<1>2. /\ new.kind = "reload" /\ new.phase = "batch" /\ new.todo = old /\ new.batch = b
      /\ new.count = 0
  BY DEF Idle
<1>3. Sleeping.kind = "monitor" /\ Sleeping.phase = "sleep" /\ Sleeping.count = 0
  BY DEF Sleeping, Idle
<1>4. old \subseteq Active /\ b \in Nat /\ 0 <= b
  BY PoolAssumption
<1>. HIDE DEF new, old
<1>5. /\ \/ job'[v] = Sleeping /\ monitoring_task' = v
         \/ job'[v] = new /\ monitoring_task' = monitoring_task
      /\ \A u \in Task \ {v} : job'[u] = Idle
  <2>1. \/ job' = [Cancelled EXCEPT ![v] = Sleeping] /\ monitoring_task' = v
        \/ job' = [Cancelled EXCEPT ![v] = new] /\ monitoring_task' = monitoring_task
    BY DEF Reload, new, old
  <2>. QED  BY <1>1, <2>1, CancelledType
<1>6. Alone(v)'
  BY <1>0, <1>2, <1>3, <1>5, PoolAssumption DEF Alone, Serving, PhasesOf
<1>7. Awaits(t) = {} /\ Drains(t) = {}
  BY <1>0 DEF Alone, Room, Awaits, Drains
<1>8. Awaits(v)' = Awaits(t)
  BY <1>2, <1>3, <1>5, <1>7 DEF Awaits
<1>9. \A i \in Inst : inst[i].proc # "stopping"
  BY <1>7 DEF Accounted
<1>10. Apart' /\ Accounted(v)'
  BY <1>0, <1>8, <1>9, AccountedKept
<1>11. Room(v)'
  <2>1. Active' = Active /\ Cardinality(Active) + 0 = replicas
    BY <1>0 DEF Active, Room, Missing
  <2>2. Missing(v)' = 0
    BY <1>2, <1>3, <1>5 DEF Missing
  <2>3. job'[v] = Sleeping => Room(v)'
    BY <1>3, <2>1, <2>2 DEF Room
  <2>4. job'[v] = new => Room(v)'
    BY <1>2, <1>4, <2>1, <2>2 DEF Room
  <2>. QED  BY <1>5, <2>3, <2>4
<1>. QED  BY <1>6, <1>10, <1>11

\* A process that starts finds its GPU and its port free and comes up; one that
\* is stopped ends; nothing else happens to them.
LEMMA ProcessCalm ==
  ASSUME TypeOK, NEW t \in Task, Alone(t), Apart, Accounted(t), Room(t), Faults = {},
         NEW i \in Inst, Process(i)
  PROVE  Alone(t)' /\ Apart' /\ Accounted(t)' /\ Room(t)'
<1>1. ~ProcCrash(i)
  BY DEF ProcCrash, Fault
<1>2. ~ProcClash(i)
  <2>. SUFFICES ASSUME ProcClash(i) PROVE FALSE
    OBVIOUS
  <2>1. inst[i].proc = "starting"
    BY DEF ProcClash
  <2>2. PICK k \in Inst : /\ inst[k].gpu = inst[i].gpu \/ inst[k].port = inst[i].port
                          /\ inst[k].proc \in Held
    BY DEF ProcClash, FreeGPU, FreePort
  <2>. QED  BY <2>1, <2>2 DEF Apart, Live, Held
<1>3. PICK s \in {"up", "dead"} :
        /\ inst' = [inst EXCEPT ![i].proc = s]
        /\ \/ inst[i].proc = "starting" /\ s = "up"
           \/ inst[i].proc = "stopping" /\ s = "dead"
        /\ UNCHANGED <<pool, nextInst, job, monitoring_task>>
  BY <1>1, <1>2 DEF Process, ProcUp, ProcStops, SetProc
<1>4. /\ inst'[i].proc = s /\ inst'[i].gpu = inst[i].gpu /\ inst'[i].port = inst[i].port
      /\ \A k \in Inst \ {i} : inst'[k] = inst[k]
  BY <1>3 DEF TypeOK
<1>5. Alone(t)'
  BY <1>3 DEF Alone, Serving
<1>6. \A k \in Inst : Live(k)' => Live(k)
  BY <1>3, <1>4 DEF Live
<1>7. Apart'
  <2>1. \A k \in Inst : inst'[k].gpu = inst[k].gpu /\ inst'[k].port = inst[k].port
    BY <1>4
  <2>. QED  BY <1>6, <2>1 DEF Apart
<1>8. \A g \in Active : pool[g] # i
  BY <1>3 DEF Accounted
<1>9. Active' = Active /\ Awaits(t)' = Awaits(t) /\ Drains(t)' = Drains(t)
  BY <1>3 DEF Active, Awaits, Drains
<1>10. Accounted(t)'
  <2>1. \A g \in Active' : inst'[pool'[g]].proc = "up" /\ inst'[pool'[g]].gpu = g
    BY <1>3, <1>4, <1>8, <1>9 DEF Accounted, Active, TypeOK
  <2>2. ASSUME NEW k \in Inst
        PROVE  /\ inst'[k].proc = "up" => pool'[inst'[k].gpu] = k \/ k \in Awaits(t)'
               /\ inst'[k].proc = "starting" => k \in Awaits(t)'
               /\ inst'[k].proc = "stopping" => k \in Drains(t)'
               /\ k \in Awaits(t)' => Alive(k)' /\ pool'[inst'[k].gpu] # k
               /\ Live(k)' => k < nextInst'
    <3>1. CASE k # i
      BY <1>3, <1>4, <1>9, <3>1 DEF Accounted, Live, Alive
    <3>2. CASE k = i
      BY <1>3, <1>4, <1>6, <1>9, <3>2 DEF Accounted, Live, Alive
    <3>. QED  BY <3>1, <3>2
  <2>. QED  BY <2>1, <2>2 DEF Accounted
<1>11. Room(t)'
  <2>1. job[t].phase \in {"ready", "drain"}
    BY <1>3 DEF Accounted, Awaits, Drains
  <2>2. \A k \in job[t].insts : inst'[k].gpu = inst[k].gpu
    BY <1>4 DEF TypeOK, Job
  <2>3. {inst'[k].gpu : k \in job[t].insts} = {inst[k].gpu : k \in job[t].insts}
    BY <2>2
  <2>4. Popped(GPU)' = Popped(GPU) /\ Missing(t)' = Missing(t)
    BY <1>3 DEF Popped, Missing
  <2>. QED  BY <1>3, <1>9, <2>1, <2>3, <2>4 DEF Room
<1>. QED  BY <1>5, <1>7, <1>10, <1>11


\* At the start the start-up is at work and owes every replica.
LEMMA InitCalm == Init => CalmInv
<1>. SUFFICES ASSUME Init PROVE CalmInv
  OBVIOUS
<1>1. PICK t \in Task :
        job = [u \in Task |->
                 IF u = t THEN [Idle EXCEPT !.kind = "boot", !.phase = "select"]
                 ELSE Idle]
  BY DEF Init
<1>2. /\ job[t].kind = "boot" /\ job[t].phase = "select"
      /\ \A u \in Task \ {t} : job[u] = Idle
  BY <1>1 DEF Idle
<1>3. \A i \in Inst : inst[i].proc = "none"
  BY DEF Init, NoProc
<1>4. Active = {} /\ Cardinality({}) = 0 /\ replicas \in Nat
  BY FS_EmptySet, PoolAssumption DEF Init, Active, replicas
<1>5. Apart
  BY <1>3 DEF Apart, Live
<1>6. Alone(t)
  BY <1>2, PoolAssumption DEF Alone, Serving, PhasesOf, Init
<1>7. Accounted(t)
  BY <1>2, <1>3, <1>4 DEF Accounted, Awaits, Live
<1>8. Room(t)
  BY <1>2, <1>4 DEF Room, Missing
<1>. QED  BY <1>5, <1>6, <1>7, <1>8 DEF CalmInv

\* A calm step, by the coroutine that is at work or by the reload that takes its
\* place, keeps the invariant and overwrites no entry of the pool.
LEMMA CalmStep ==
  ASSUME Calm, TypeOK, CalmInv, [Next]_vars
  PROVE  CalmInv' /\ \A g \in Active : pool'[g] \in {pool[g], NoInst}
<1>0. Faults = {} /\ Routes \subseteq {"reload"} /\ SerialReloads
  BY DEF Calm
<1>1. PICK t \in Task : Alone(t) /\ Accounted(t) /\ Room(t)
  BY DEF CalmInv
<1>2. Apart
  BY DEF CalmInv
<1>3. SUFFICES \E v \in Task : /\ Alone(v)' /\ Apart' /\ Accounted(v)' /\ Room(v)'
                               /\ \A g \in Active : pool'[g] \in {pool[g], NoInst}
  BY DEF CalmInv
<1>4. ASSUME NEW u \in Task, Step(u) PROVE u = t
  <2>1. \/ job[u].phase # "idle"
        \/ job[u].kind = "monitor"
    BY <1>4 DEF Step, Select, Launch, Enter, ReadyTimeout, Drained, Probe, Probed, Batch, ReloadDone
  <2>2. Idle.phase = "idle" /\ Idle.kind = "none"
    BY DEF Idle
  <2>3. ASSUME u # t PROVE job[u] = Idle
    BY <1>1, <2>3, Zenon DEF Alone
  <2>. QED  BY <2>1, <2>2, <2>3, Zenon
<1>5. CASE Step(t)
  <2>1. CASE Select(t)
    BY <1>1, <1>2, <2>1, SelectCalm DEF Select
  <2>2. CASE Launch(t)
    BY <1>0, <1>1, <1>2, <2>2, LaunchCalm DEF Launch
  <2>3. CASE Enter(t)
    BY <1>1, <1>2, <2>3, EnterCalm
  <2>4. CASE ReadyTimeout(t)
    BY <1>0, <1>1, <2>4, TimeoutCalm
  <2>5. CASE Drained(t)
    BY <1>1, <1>2, <2>5, DrainedCalm
  <2>6. CASE Probe(t)
    BY <1>1, <1>2, <2>6, ProbeCalm DEF Probe
  <2>7. CASE Probed(t)
    BY <1>0, <1>1, <1>2, <2>7, ProbedCalm
  <2>8. CASE Batch(t)
    BY <1>1, <1>2, <2>8, BatchCalm DEF Active
  <2>9. CASE ReloadDone(t)
    BY <1>1, <1>2, <2>9, ReloadDoneCalm DEF ReloadDone
  <2>. QED
    BY <1>5, <2>1, <2>2, <2>3, <2>4, <2>5, <2>6, <2>7, <2>8, <2>9 DEF Step
<1>6. ASSUME NEW v \in Task, Route(v)
      PROVE  \E u \in Task : /\ Alone(u)' /\ Apart' /\ Accounted(u)' /\ Room(u)'
                             /\ \A g \in Active : pool'[g] \in {pool[g], NoInst}
  <2>1. PICK c \in Ckpt, b \in 1 .. N : Reload(v, c, b)
    BY <1>0, <1>6 DEF Route, AddById, RemoveById, Shutdown, Call
  <2>2. Alone(v)' /\ Apart' /\ Accounted(v)' /\ Room(v)'
    BY <1>0, <1>1, <1>2, <2>1, ReloadCalm
  <2>. QED  BY <2>1, <2>2 DEF Reload
<1>7. ASSUME NEW i \in Inst, Process(i)
      PROVE  /\ Alone(t)' /\ Apart' /\ Accounted(t)' /\ Room(t)'
             /\ pool' = pool
  <2>1. pool' = pool
    BY <1>7 DEF Process, ProcUp, ProcClash, ProcCrash, ProcStops, SetProc
  <2>. QED  BY <1>0, <1>1, <1>2, <1>7, <2>1, ProcessCalm
<1>8. CASE UNCHANGED vars
  <2>1. Alone(t)' /\ Apart' /\ pool' = pool
    BY <1>1, <1>2, <1>8 DEF vars, Alone, Serving, Apart, Live
  <2>2. Awaits(t)' = Awaits(t) /\ Active' = Active /\ Drains(t)' = Drains(t)
    BY <1>8 DEF vars, Awaits, Drains, Active
  <2>3. Accounted(t)'
    BY <1>1, <1>8, <2>2 DEF vars, Accounted, Live, Alive
  <2>4. Room(t)'
    BY <1>1, <1>8, <2>2 DEF vars, Room, Missing, FreeGPU, Popped
  <2>. QED  BY <2>1, <2>3, <2>4
<1>. QED  BY <1>4, <1>5, <1>6, <1>7, <1>8 DEF Next

\* Without faults, and when clients only reload and wait for each reload, no
\* process is ever left running that neither the pool nor a coroutine knows of
\* (model_service.py:382-427, 565-572).
THEOREM NothingOrphaned == Calm => (Spec => []NoOrphan)
<1>. SUFFICES ASSUME Calm PROVE Spec => []NoOrphan
  OBVIOUS
<1>1. CalmInv => NoOrphan
  BY DEF CalmInv, NoOrphan, Accounted, Awaits, Alive
<1>2. TypeOK /\ CalmInv /\ [Next]_vars => CalmInv'
  BY CalmStep
<1>. QED  BY <1>1, <1>2, InitCalm, InitTypeOK, StepTypeOK, PTL DEF Spec

\* Then a port of the pool is answered by a process with the entry's checkpoint
\* only: the name generate() posts to it is the one it serves
\* (model_service.py:776-777).
THEOREM EndpointsServe == Calm => (Spec => []EndpointServesCkpt)
<1>. SUFFICES ASSUME Calm PROVE Spec => []EndpointServesCkpt
  OBVIOUS
<1>1. TypeOK /\ CalmInv => EndpointServesCkpt
  <2>. SUFFICES ASSUME TypeOK, CalmInv,
                       NEW g \in Active, NEW i \in Inst,
                       inst[i].proc = "up", inst[i].port = inst[pool[g]].port
                PROVE  inst[i].ckpt = inst[pool[g]].ckpt
    BY DEF EndpointServesCkpt
  <2>1. pool[g] \in Inst /\ inst[pool[g]].proc = "up"
    BY DEF CalmInv, Accounted, Active, TypeOK
  <2>2. i = pool[g]
    BY <2>1 DEF CalmInv, Apart, Live
  <2>. QED  BY <2>2
<1>2. TypeOK /\ CalmInv /\ [Next]_vars => CalmInv'
  BY CalmStep
<1>. QED  BY <1>1, <1>2, InitCalm, InitTypeOK, StepTypeOK, PTL DEF Spec

\* And no step puts an instance in the place of a registered one whose process
\* lives: the entry is removed first (model_service.py:504-506, 570-572).
THEOREM NothingOverwritten == Calm => (Spec => NeverOverwritten)
<1>. SUFFICES ASSUME Calm PROVE Spec => NeverOverwritten
  OBVIOUS
<1>1. TypeOK /\ CalmInv /\ [Next]_vars
        => CalmInv' /\ [\A g \in Active : Alive(pool[g]) => pool'[g] \in {pool[g], NoInst}]_vars
  BY CalmStep
<1>. QED  BY <1>1, InitCalm, InitTypeOK, StepTypeOK, PTL DEF Spec, NeverOverwritten
=============================================================================
