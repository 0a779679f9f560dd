---------------------- MODULE StreamingSchedulerProofs ----------------------
(***************************************************************************)
(* Theorems about StreamingScheduler, for every number of tasks and of     *)
(* workers, both variants, and any number of kills.                        *)
(***************************************************************************)
EXTENDS StreamingScheduler, FiniteSetTheorems, TLAPS

\* What the directories say, and when nothing is under way.
OnceInv ==
  /\ \A t \in Tasks : executions[t] = IF t \in dirs THEN 1 ELSE 0
  /\ queue \cap dirs = {}
  /\ \A w \in Workers : worker[w] \in {"entering", "holding"} => held[w] \notin dirs
  /\ driver \in {"starting", "returned"} => queue = {} /\ Busy = {}
  /\ driver = "starting" => Results = {} /\ prepared = {}

IInv == TypeOK /\ Accounted /\ OnceInv

\* Sets of tasks and of workers are finite.
LEMMA Finite ==
  /\ IsFiniteSet(Tasks)
  /\ \A S \in SUBSET Tasks : IsFiniteSet(S) /\ Cardinality(S) \in Nat
  /\ \A S \in SUBSET Workers : IsFiniteSet(S) /\ Cardinality(S) \in Nat
<1>1. IsFiniteSet(Tasks)
  BY FS_Interval, NumTasksAssumption DEF Tasks
<1>. QED  BY <1>1, WorkersAssumption, FS_Subset, FS_CardinalityType

\* None is not a task.
LEMMA NoneNotTask == None \notin Tasks
BY NoneAssumption DEF Tasks

\* The initial states satisfy the invariant.
LEMMA InitIInv == Init => IInv
<1>. SUFFICES ASSUME Init PROVE IInv
  OBVIOUS
<1>1. TypeOK
  <2>1. kills \in 0..MaxKills
    BY MaxKillsAssumption DEF Init
  <2>2. executions \in [Tasks -> Nat] /\ held \in [Workers -> Tasks \cup {None}]
        /\ worker \in [Workers -> WorkerStates]
    BY DEF Init, WorkerStates
  <2>. QED  BY <2>1, <2>2 DEF Init, TypeOK, DriverStates
<1>2. Busy = {}
  BY DEF Init, Busy
<1>3. Cardinality(queue) + Cardinality(Busy) = 0
  BY <1>2, FS_EmptySet DEF Init
<1>4. {w \in Workers : worker[w] \in {"entering", "holding", "executing"}} = {}
      /\ {w \in Workers : worker[w] = "executing"} = {}
  BY DEF Init
<1>5. Accounted
  BY <1>2, <1>3, <1>4 DEF Init, Accounted, Results
<1>6. OnceInv
  BY <1>2 DEF Init, OnceInv, Results
<1>. QED  BY <1>1, <1>5, <1>6 DEF IInv

(***************************************************************************)
(* Type correctness                                                        *)
(***************************************************************************)
\* A worker that ends its round marks a task as done that was counted.
LEMMA CountedBusy ==
  ASSUME IInv, NEW w \in Workers, w \in Busy
  PROVE  unfinished - 1 \in Nat /\ held[w] \in Tasks
<1>1. queue \in SUBSET Tasks /\ Busy \in SUBSET Workers
  BY DEF IInv, TypeOK, Busy
<1>2. Cardinality(Busy) # 0
  BY <1>1, Finite, FS_EmptySet
<1>3. unfinished - 1 \in Nat
  BY <1>1, <1>2, Finite DEF IInv, Accounted
<1>. QED  BY <1>3 DEF IInv, TypeOK, Busy

\* Every step keeps the types.
LEMMA StepTypeOK == IInv /\ Next => TypeOK'
<1>. SUFFICES ASSUME IInv, Next PROVE TypeOK'
  OBVIOUS
<1>. USE DEF TypeOK, results, run, DriverStates, WorkerStates
<1>0. TypeOK
  BY DEF IInv
<1>1. CASE StartRun
  <2>1. Tasks \ dirs \in SUBSET Tasks /\ Cardinality(Tasks \ dirs) \in Nat
    BY Finite
  <2>. QED  BY <1>0, <1>1, <2>1 DEF StartRun, Unprocessed
<1>2. CASE DriverWakes
  BY <1>0, <1>2 DEF DriverWakes
<1>3. CASE JoinReturns
  BY <1>0, <1>3 DEF JoinReturns
<1>4. ASSUME NEW w \in Workers, WorkerStep(w) PROVE TypeOK'
  <2>1. NextRound \in WorkerStates
    BY DEF NextRound
  <2>2. CASE Take(w)
    BY <1>0, <2>2 DEF Take
  <2>3. CASE GetTimesOut(w)
    BY <1>0, <2>1, <2>3 DEF GetTimesOut
  <2>4. worker[w] \in {"entering", "holding", "executing"} => w \in Busy
    BY DEF IInv, Accounted
  <2>5. CASE Begin(w)
    BY <1>0, <2>4, <2>5, CountedBusy DEF Begin, MayBegin
  <2>6. CASE Finish(w)
    BY <1>0, <2>1, <2>4, <2>6, CountedBusy DEF Finish, EndsRound, TaskDone, DropTask
  <2>7. CASE FailsEarly(w)
    BY <1>0, <2>1, <2>4, <2>7, CountedBusy DEF FailsEarly, MayBegin, EndsRound, TaskDone, DropTask
  <2>. QED  BY <1>4, <2>2, <2>3, <2>5, <2>6, <2>7 DEF WorkerStep
<1>5. CASE Kill
  <2>1. kills' \in 0..MaxKills
    BY <1>0, <1>5, MaxKillsAssumption DEF Kill
  <2>. QED  BY <1>0, <1>5, <2>1 DEF Kill
<1>. QED  BY <1>1, <1>2, <1>3, <1>4, <1>5 DEF Next

(***************************************************************************)
(* Accounting                                                              *)
(***************************************************************************)
\* Filling the queue, when nothing is under way.
LEMMA StartAccounted == IInv /\ StartRun => Accounted' /\ OnceInv'
<1>. SUFFICES ASSUME IInv, StartRun PROVE Accounted' /\ OnceInv'
  OBVIOUS
<1>. USE DEF StartRun, Unprocessed, results
<1>1. Busy = {} /\ Results = {}
  BY DEF IInv, OnceInv
<1>2. Busy' = {} /\ Results' = {} /\ completed' = {} /\ failed' = {}
  BY <1>1 DEF Busy, Results
<1>3. \A w \in Workers : worker'[w] \in {"left", "created"}
  OBVIOUS
<1>4. {w \in Workers : worker[w] = "executing"} = {}
  BY <1>1 DEF IInv, Accounted
<1>5. active' = {}
  BY <1>4 DEF IInv, Accounted
<1>6. unfinished' = Cardinality(queue') + Cardinality(Busy')
  BY <1>2, FS_EmptySet, Finite
<1>7. Accounted'
  BY <1>2, <1>3, <1>5, <1>6 DEF Accounted
<1>8. OnceInv'
  BY <1>2, <1>3 DEF IInv, OnceInv
<1>. QED  BY <1>7, <1>8

\* A worker takes the head of the queue.
LEMMA TakeAccounted ==
  ASSUME IInv, NEW w \in Workers, Take(w)
  PROVE  Accounted' /\ OnceInv'
<1>. USE DEF Take, results, run
<1>1. PICK t \in queue : queue' = queue \ {t} /\ held' = [held EXCEPT ![w] = t]
  OBVIOUS
<1>2. /\ TypeOK /\ Accounted /\ OnceInv
      /\ t \in Tasks /\ t # None
  BY NoneNotTask DEF IInv, TypeOK
<1>3. w \notin Busy
  BY <1>2 DEF Accounted
<1>4. Busy' = Busy \cup {w}
  BY <1>1, <1>2 DEF TypeOK, Busy
<1>5. \A v \in Busy : held'[v] = held[v] /\ v # w
  BY <1>1, <1>2, <1>3 DEF TypeOK, Busy
<1>6. held'[w] = t
  BY <1>1, <1>2 DEF TypeOK
<1>7. Cardinality(queue') = Cardinality(queue) - 1
      /\ Cardinality(Busy') = Cardinality(Busy) + 1
  <2>1. queue \in SUBSET Tasks /\ Busy \in SUBSET Workers
    BY <1>2 DEF TypeOK, Busy
  <2>. QED  BY <1>1, <1>3, <1>4, <2>1, Finite, FS_AddElement, FS_RemoveElement
<1>8. Cardinality(queue) \in Nat /\ Cardinality(Busy) \in Nat
  <2>1. queue \in SUBSET Tasks /\ Busy \in SUBSET Workers
    BY <1>2 DEF TypeOK, Busy
  <2>. QED  BY <2>1, Finite
<1>9. unfinished' = Cardinality(queue') + Cardinality(Busy')
  BY <1>2, <1>7, <1>8 DEF Accounted
<1>10. {held'[v] : v \in Busy'} = {held[v] : v \in Busy} \cup {t}
  BY <1>4, <1>5, <1>6
<1>11. Results' = Results
  BY DEF Results
<1>12. prepared' = queue' \cup {held'[v] : v \in Busy'} \cup Results'
  BY <1>1, <1>2, <1>10, <1>11 DEF Accounted
<1>13. \A v \in Busy : held[v] # t
  BY <1>2 DEF Accounted
<1>14. /\ \A v \in Busy' : held'[v] \notin queue' \cup Results'
       /\ \A u, v \in Busy' : held'[u] = held'[v] => u = v
  BY <1>1, <1>2, <1>4, <1>5, <1>6, <1>11, <1>13 DEF Accounted
<1>15. /\ \A v \in Workers \ {w} : worker'[v] = worker[v]
       /\ worker'[w] \in {"entering", "holding"}
  BY <1>2 DEF TypeOK
<1>16. Busy' = {v \in Workers : worker'[v] \in {"entering", "holding", "executing"}}
  BY <1>2, <1>4, <1>15 DEF Accounted
<1>17. active' = {held'[v] : v \in {u \in Workers : worker'[u] = "executing"}}
  <2>1. {u \in Workers : worker'[u] = "executing"} = {u \in Workers : worker[u] = "executing"}
    BY <1>15
  <2>2. \A u \in Workers : worker[u] = "executing" => held'[u] = held[u]
    BY <1>2, <1>5 DEF Accounted
  <2>. QED  BY <1>2, <2>1, <2>2 DEF Accounted
<1>18. Accounted'
  BY <1>1, <1>2, <1>9, <1>11, <1>12, <1>14, <1>16, <1>17 DEF Accounted
<1>19. OnceInv'
  BY <1>1, <1>2, <1>6, <1>15, <1>5 DEF OnceInv, Accounted, Results, TypeOK
<1>. QED  BY <1>18, <1>19

\* A worker begins the task it holds.
LEMMA BeginAccounted ==
  ASSUME IInv, NEW w \in Workers, Begin(w)
  PROVE  Accounted' /\ OnceInv'
<1>. USE DEF Begin, MayBegin, results, run
<1>1. TypeOK /\ Accounted /\ OnceInv
  BY DEF IInv
<1>2. w \in Busy /\ held[w] \in Tasks
  BY <1>1 DEF Accounted, TypeOK, Busy
<1>3. Busy' = Busy /\ Results' = Results
  BY DEF Busy, Results
<1>4. /\ \A v \in Workers \ {w} : worker'[v] = worker[v]
      /\ worker'[w] = "executing"
  BY <1>1 DEF TypeOK
<1>5. Busy' = {v \in Workers : worker'[v] \in {"entering", "holding", "executing"}}
  BY <1>1, <1>2, <1>3, <1>4 DEF Accounted
<1>6. {u \in Workers : worker'[u] = "executing"}
        = {u \in Workers : worker[u] = "executing"} \cup {w}
  BY <1>4
<1>7. active' = {held'[v] : v \in {u \in Workers : worker'[u] = "executing"}}
  BY <1>1, <1>6 DEF Accounted
<1>8. Accounted'
  BY <1>1, <1>3, <1>5, <1>7 DEF Accounted
<1>9. \A t \in Tasks : executions'[t] = IF t \in dirs' THEN 1 ELSE 0
  <2>1. held[w] \notin dirs
    BY <1>1 DEF OnceInv
  <2>. QED  BY <1>1, <1>2, <2>1 DEF OnceInv, TypeOK
<1>10. queue' \cap dirs' = {}
  BY <1>1, <1>2 DEF OnceInv, Accounted
<1>11. \A v \in Workers : worker'[v] \in {"entering", "holding"} => held'[v] \notin dirs'
  <2>. SUFFICES ASSUME NEW v \in Workers, worker'[v] \in {"entering", "holding"}
                PROVE  held[v] \notin dirs \cup {held[w]}
    OBVIOUS
  <2>1. v # w /\ worker[v] \in {"entering", "holding"}
    BY <1>4
  <2>2. v \in Busy
    BY <1>1, <2>1 DEF Accounted
  <2>. QED  BY <1>1, <1>2, <2>1, <2>2 DEF Accounted, OnceInv
<1>12. OnceInv'
  BY <1>1, <1>2, <1>3, <1>9, <1>10, <1>11 DEF OnceInv
<1>. QED  BY <1>8, <1>12

\* A worker ends its round with a result for its task.
LEMMA EndAccounted ==
  ASSUME IInv, NEW w \in Workers, w \in Busy, EndsRound(w),
         Results' = Results \cup {held[w]}, completed' \cap failed' = {},
         UNCHANGED <<driver, queue, dirs, executions, prepared>>
  PROVE  Accounted' /\ OnceInv'
<1>. USE DEF EndsRound, TaskDone, DropTask
<1>1. TypeOK /\ Accounted /\ OnceInv
  BY DEF IInv
<1>2. Busy' = Busy \ {w}
  BY <1>1 DEF Busy, TypeOK
<1>3. \A v \in Busy' : held'[v] = held[v]
  BY <1>1, <1>2 DEF TypeOK, Busy
<1>4. unfinished' = Cardinality(queue') + Cardinality(Busy')
  <2>1. queue \in SUBSET Tasks /\ Busy \in SUBSET Workers
    BY <1>1 DEF TypeOK, Busy
  <2>2. Cardinality(Busy') = Cardinality(Busy) - 1
    BY <1>2, <2>1, Finite, FS_RemoveElement
  <2>3. Cardinality(queue) \in Nat /\ Cardinality(Busy) \in Nat
    BY <2>1, Finite
  <2>. QED  BY <1>1, <2>2, <2>3 DEF Accounted
<1>5. {held[v] : v \in Busy} = {held'[v] : v \in Busy'} \cup {held[w]}
  BY <1>2, <1>3
<1>6. prepared' = queue' \cup {held'[v] : v \in Busy'} \cup Results'
  BY <1>1, <1>5 DEF Accounted
<1>7. \A v \in Busy' : held[v] # held[w]
  BY <1>1, <1>2 DEF Accounted
<1>8. /\ \A v \in Busy' : held'[v] \notin queue' \cup Results'
      /\ \A u, v \in Busy' : held'[u] = held'[v] => u = v
  BY <1>1, <1>2, <1>3, <1>7 DEF Accounted
<1>9. queue' \cap Results' = {}
  BY <1>1 DEF Accounted
<1>10. /\ \A v \in Workers \ {w} : worker'[v] = worker[v]
       /\ worker'[w] \notin {"entering", "holding", "executing"}
  BY <1>1 DEF TypeOK, NextRound
<1>11. Busy' = {v \in Workers : worker'[v] \in {"entering", "holding", "executing"}}
  BY <1>1, <1>2, <1>10 DEF Accounted
<1>12. active' = {held'[v] : v \in {u \in Workers : worker'[u] = "executing"}}
  <2>1. {u \in Workers : worker'[u] = "executing"}
          = {u \in Workers : worker[u] = "executing"} \ {w}
    BY <1>10
  <2>2. \A u \in Workers : worker[u] = "executing" /\ u # w =>
          u \in Busy' /\ held'[u] = held[u] /\ held[u] # held[w]
    BY <1>1, <1>2, <1>3, <1>7 DEF Accounted
  <2>. QED  BY <1>1, <2>1, <2>2 DEF Accounted
<1>13. Accounted'
  BY <1>4, <1>6, <1>8, <1>9, <1>11, <1>12 DEF Accounted
<1>14. \A v \in Workers : worker'[v] \in {"entering", "holding"} => held'[v] \notin dirs'
  BY <1>1, <1>3, <1>10, <1>11 DEF OnceInv
<1>15. driver \notin {"starting", "returned"}
  BY <1>1 DEF OnceInv
<1>16. OnceInv'
  BY <1>1, <1>14, <1>15 DEF OnceInv
<1>. QED  BY <1>13, <1>16

\* Every step keeps the invariant.
LEMMA StepIInv == IInv /\ [Next]_vars => IInv'
<1>. SUFFICES ASSUME IInv, [Next]_vars PROVE IInv'
  OBVIOUS
<1>0. CASE UNCHANGED vars
  BY <1>0 DEF vars, run, results, IInv, TypeOK, Accounted, OnceInv, Busy, Results
<1>. SUFFICES ASSUME Next PROVE Accounted' /\ OnceInv'
  BY <1>0, StepTypeOK DEF IInv
<1>1. CASE StartRun
  BY <1>1, StartAccounted
<1>2. CASE DriverWakes
  BY <1>2 DEF DriverWakes, results, run, IInv, Accounted, OnceInv, Busy, Results
<1>3. CASE JoinReturns
  <2>1. queue = {} /\ Busy = {}
    <3>1. queue \in SUBSET Tasks /\ Busy \in SUBSET Workers
      BY DEF IInv, TypeOK, Busy
    <3>2. Cardinality(queue) = 0 /\ Cardinality(Busy) = 0
      BY <1>3, <3>1, Finite DEF JoinReturns, Joined, IInv, Accounted
    <3>. QED  BY <3>1, <3>2, Finite, FS_EmptySet
  <2>2. Busy' = Busy /\ Results' = Results
    BY <1>3 DEF JoinReturns, results, Busy, Results
  <2>3. \A w \in Workers : worker'[w] = "left"
    BY <1>3 DEF JoinReturns
  <2>4. Accounted'
    BY <1>3, <2>1, <2>2, <2>3 DEF JoinReturns, results, run, IInv, Accounted
  <2>5. OnceInv'
    BY <1>3, <2>1, <2>2, <2>3 DEF JoinReturns, run, IInv, OnceInv
  <2>. QED  BY <2>4, <2>5
<1>4. ASSUME NEW w \in Workers, WorkerStep(w) PROVE Accounted' /\ OnceInv'
  <2>1. CASE Take(w)
    BY <2>1, TakeAccounted
  <2>2. CASE GetTimesOut(w)
    <3>1. Busy' = Busy /\ Results' = Results
      BY <2>2 DEF GetTimesOut, results, Busy, Results
    <3>2. \A v \in Workers : \/ worker'[v] = worker[v]
                             \/ /\ worker[v] \in {"created", "waiting"}
                                /\ worker'[v] \in {"waiting", "left"}
      BY <2>2 DEF GetTimesOut, NextRound, IInv, TypeOK
    <3>3. {v \in Workers : worker'[v] = "executing"} = {v \in Workers : worker[v] = "executing"}
          /\ {v \in Workers : worker'[v] \in {"entering", "holding", "executing"}}
               = {v \in Workers : worker[v] \in {"entering", "holding", "executing"}}
      BY <3>2
    <3>4. Accounted'
      <4>1. UNCHANGED <<prepared, queue, held, unfinished, active, completed, failed>>
        BY <2>2 DEF GetTimesOut, results, run
      <4>2. Accounted
        BY DEF IInv
      <4>. QED  BY <3>1, <3>3, <4>1, <4>2 DEF Accounted
    <3>5. OnceInv'
      BY <2>2, <3>1, <3>2 DEF GetTimesOut, run, IInv, OnceInv
    <3>. QED  BY <3>4, <3>5
  <2>3. CASE Begin(w)
    BY <2>3, BeginAccounted
  <2>4. worker[w] \in {"entering", "holding", "executing"} => w \in Busy /\ held[w] \notin Results
    BY DEF IInv, Accounted
  <2>5. CASE Finish(w)
    <3>1. Results' = Results \cup {held[w]} /\ completed' \cap failed' = {}
      BY <2>4, <2>5 DEF Finish, Results, IInv, Accounted
    <3>. QED  BY <2>4, <2>5, <3>1, EndAccounted DEF Finish, run
  <2>6. CASE FailsEarly(w)
    <3>1. Results' = Results \cup {held[w]} /\ completed' \cap failed' = {}
      BY <2>4, <2>6 DEF FailsEarly, MayBegin, Results, IInv, Accounted
    <3>. QED  BY <2>4, <2>6, <3>1, EndAccounted DEF FailsEarly, MayBegin, run
  <2>. QED  BY <1>4, <2>1, <2>2, <2>3, <2>5, <2>6 DEF WorkerStep
<1>5. CASE Kill
  <2>1. /\ Busy' = {} /\ Results' = {} /\ queue' = {} /\ active' = {}
        /\ prepared' = {} /\ completed' = {} /\ unfinished' = 0
        /\ \A w \in Workers : worker'[w] = "left"
    BY <1>5 DEF Kill, Busy, Results
  <2>2. Cardinality(queue') + Cardinality(Busy') = 0
    BY <2>1, FS_EmptySet
  <2>3. Accounted'
    BY <2>1, <2>2 DEF Accounted
  <2>4. OnceInv'
    BY <1>5, <2>1 DEF Kill, IInv, OnceInv
  <2>. QED  BY <2>3, <2>4
<1>. QED  BY <1>1, <1>2, <1>3, <1>4, <1>5 DEF Next

\* The invariant holds in every reachable state.
LEMMA Invariance == Spec => []IInv
BY InitIInv, StepIInv, PTL DEF Spec

(***************************************************************************)
(* Theorems                                                                *)
(***************************************************************************)
\* The scheduler's state keeps its types: in particular the queue's counter
\* never falls below zero, where task_done() would raise.
THEOREM TypeCorrect == Spec => []TypeOK
BY Invariance, PTL DEF IInv

\* The queue, the workers and the results share out the prepared tasks, and
\* the counter join() trusts counts what is not yet done.
THEOREM TasksAccounted == Spec => []Accounted
BY Invariance, PTL DEF IInv

\* When stop() has returned, every prepared task has one result.
THEOREM ReturnsAllResults == Spec => []ReturnedComplete
<1>1. IInv => ReturnedComplete
  BY DEF IInv, OnceInv, Accounted, ReturnedComplete
<1>. QED  BY <1>1, Invariance, PTL

\* No task is executed twice, whatever is killed and restarted.
THEOREM ExecutedOnce == Spec => []AtMostOnce
<1>1. IInv => AtMostOnce
  BY DEF IInv, OnceInv, AtMostOnce
<1>. QED  BY <1>1, Invariance, PTL
=============================================================================
