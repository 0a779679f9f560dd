------------------------- MODULE AgentCoordinatorProofs -------------------------
(***************************************************************************)
(* Theorems about AgentCoordinator, for every set of tasks, runners and    *)
(* environments and every combination of faults.                           *)
(***************************************************************************)
EXTENDS AgentCoordinator, TLAPS, SequenceTheorems

\* Taking a report out of the mail leaves reports.
LEMMA TakenType ==
  ASSUME mail \in Seq(Message), NEW i \in 1 .. Len(mail)
  PROVE  Taken(i) \in Seq(Message)
<1>1. Len(mail) \in Nat /\ Len(mail) - 1 \in Nat
  BY LenProperties
<1>2. \A j \in 1 .. Len(mail) : mail[j] \in Message
  BY ElementOfSeq
<1>3. \A j \in 1 .. Len(mail) - 1 : j \in 1 .. Len(mail) /\ j + 1 \in 1 .. Len(mail)
  BY <1>1
<1>4. Taken(i) \in [1 .. Len(mail) - 1 -> Message]
  BY <1>2, <1>3 DEF Taken
<1>. QED  BY <1>1, <1>4, IsASeq

\* A report of a runner is a message.
LEMMA MessageType ==
  ASSUME NEW r \in Runner
  PROVE  /\ \A e \in Env \cup {NoEnv} : Id(r, e) \in Message
         /\ \A ok \in BOOLEAN : Result(r, ok) \in Message
BY DEF Id, Result, Message

\* A report in the mail names a runner and, perhaps, an environment.
LEMMA MailType ==
  ASSUME TypeOK
  PROVE  \A i \in 1 .. Len(mail) :
           /\ mail[i] \in Message
           /\ mail[i].from \in Runner /\ mail[i].env \in Env \cup {NoEnv}
           /\ mail[i].kind \in {"id", "result"}
<1>1. \A i \in 1 .. Len(mail) : mail[i] \in Message
  BY ElementOfSeq DEF TypeOK
<1>2. \A m \in Message : /\ m.from \in Runner /\ m.env \in Env \cup {NoEnv}
                        /\ m.kind \in {"id", "result"}
  BY DEF Message
<1>. QED  BY <1>1, <1>2

\* The coordinator starts typed.
LEMMA InitTypeOK == Init => TypeOK
<1>. SUFFICES ASSUME Init PROVE TypeOK
  OBVIOUS
<1>1. Idle \in [phase : Phase, task : Task, env : Env \cup {NoEnv}]
  BY CoordinatorAssumption DEF Idle, Phase
<1>2. mail \in Seq(Message)
  BY DEF Init
<1>. QED  BY <1>1, <1>2 DEF Init, TypeOK, Place, NoCopies

\* The main loop keeps the types.
LEMMA MainTypeOK ==
  ASSUME TypeOK, Main
  PROVE  TypeOK'
<1>. USE DEF TypeOK, mainVars, bookVars, envVars
<1>1. CASE Clean
  BY <1>1 DEF Clean, Orphans, Place
<1>2. CASE SkipCleaning
  BY <1>2 DEF SkipCleaning, Place
<1>3. CASE Cleaned
  BY <1>3 DEF Cleaned, Place
<1>4. ASSUME NEW e \in Env, ReleaseOrphan(e) PROVE TypeOK'
  <2>1. /\ holder' \in [Env -> Runner \cup {NoRunner, Lost}]
        /\ aged' \subseteq Env
    BY <1>4 DEF ReleaseOrphan
  <2>2. task_to_service_map' \in [Runner -> Env \cup {NoEnv}] /\ faults' \in Nat
    BY <1>4 DEF ReleaseOrphan, Fault
  <2>. QED  BY <1>4, <2>1, <2>2 DEF ReleaseOrphan
<1>5. CASE Fill
  <2>1. \A t \in Task : Copies(t) \in Nat
    BY CoordinatorAssumption DEF Copies
  <2>2. task_queue' \in [Task -> Nat]
    BY <1>5, <2>1 DEF Fill
  <2>3. poll_count' \in Nat /\ pc' \in Place
    BY <1>5 DEF Fill, Place
  <2>. QED  BY <1>5, <2>2, <2>3 DEF Fill
<1>6. CASE SkipFill
  BY <1>6 DEF SkipFill, Place
<1>7. CASE LoadFails
  BY <1>7 DEF LoadFails, Fault, Place
<1>8. ASSUME NEW r \in Runner, Start(r) PROVE TypeOK'
  <2>1. PICK t \in Task :
          /\ Take(t)
          /\ run' = [run EXCEPT ![r] = [phase |-> "created", task |-> t, env |-> NoEnv]]
          /\ started' = [started EXCEPT ![t] = @ + 1]
    BY <1>8 DEF Start
  <2>2. task_queue' \in [Task -> Nat]
    BY <2>1 DEF Take
  <2>3. run' \in [Runner -> [phase : Phase, task : Task, env : Env \cup {NoEnv}]]
    BY <2>1 DEF Phase
  <2>4. started' \in [Task -> Nat] /\ track' \in [Runner -> {"wait", "sent", "done"}]
    BY <1>8, <2>1 DEF Start
  <2>. QED  BY <1>8, <2>2, <2>3, <2>4 DEF Start
<1>9. CASE StartFails
  BY <1>9 DEF StartFails, Take, Fault
<1>10. CASE StartDone
  BY <1>10 DEF StartDone, Place
<1>11. CASE Wake
  BY <1>11 DEF Wake, Place
<1>. QED
  BY <1>1, <1>2, <1>3, <1>4, <1>5, <1>6, <1>7, <1>8, <1>9, <1>10, <1>11 DEF Main

\* Handling a report keeps the types.
LEMMA CallbackTypeOK ==
  ASSUME TypeOK, NEW i \in 1 .. Len(mail), Complete(i) \/ Register(i)
  PROVE  TypeOK'
<1>. USE DEF TypeOK, mainVars, bookVars, envVars
<1>1. mail[i] \in Message
  BY ElementOfSeq
<1>2. mail[i].from \in Runner /\ mail[i].env \in Env \cup {NoEnv}
  BY <1>1 DEF Message
<1>3. mail' \in Seq(Message)
  BY TakenType DEF Complete, Register
<1>4. CASE Complete(i)
  <2>1. Idle \in [phase : Phase, task : Task, env : Env \cup {NoEnv}]
    BY CoordinatorAssumption DEF Idle, Phase
  <2>2. /\ run' \in [Runner -> [phase : Phase, task : Task, env : Env \cup {NoEnv}]]
        /\ track' \in [Runner -> {"wait", "sent", "done"}]
    BY <1>2, <1>4, <2>1 DEF Complete
  <2>3. /\ task_to_service_map' \in [Runner -> Env \cup {NoEnv}]
        /\ active_service_ids' \subseteq Env
    BY <1>2, <1>4 DEF Complete, Forget
  <2>. QED  BY <1>3, <1>4, <2>2, <2>3 DEF Complete
<1>5. CASE Register(i)
  <2>1. /\ task_to_service_map' \in [Runner -> Env \cup {NoEnv}]
        /\ active_service_ids' \subseteq Env
    BY <1>2, <1>5 DEF Register, Record
  <2>2. track' \in [Runner -> {"wait", "sent", "done"}]
    BY <1>5 DEF Register
  <2>. QED  BY <1>3, <1>5, <2>1, <2>2 DEF Register
<1>. QED  BY <1>4, <1>5

\* The steps of a runner keep the types.
LEMMA ActorTypeOK ==
  ASSUME TypeOK, NEW r \in Runner, Actor(r)
  PROVE  TypeOK'
<1>. USE DEF TypeOK, mainVars, bookVars, envVars
<1>a. \A m \in Message : Append(mail, m) \in Seq(Message)
  BY AppendProperties
<1>b. /\ Append(mail, Result(r, TRUE)) \in Seq(Message)
      /\ Append(mail, Result(r, FALSE)) \in Seq(Message)
      /\ Append(mail, Id(r, run[r].env)) \in Seq(Message)
  BY <1>a, MessageType
<1>e. \A p \in Phase, e \in Env \cup {NoEnv} :
        [run EXCEPT ![r] = [run[r] EXCEPT !.phase = p, !.env = e]]
          \in [Runner -> [phase : Phase, task : Task, env : Env \cup {NoEnv}]]
  OBVIOUS
<1>c. Ended(r) => run' \in [Runner -> [phase : Phase, task : Task, env : Env \cup {NoEnv}]]
  <2>1. "ended" \in Phase
    BY DEF Phase
  <2>2. [run EXCEPT ![r] = [run[r] EXCEPT !.phase = "ended", !.env = NoEnv]]
          \in [Runner -> [phase : Phase, task : Task, env : Env \cup {NoEnv}]]
    BY <1>e, <2>1
  <2>3. Ended(r) =>
          run' = [run EXCEPT ![r] = [run[r] EXCEPT !.phase = "ended", !.env = NoEnv]]
    BY DEF Ended
  <2>. QED  BY <2>2, <2>3
<1>d. Leave(r) => holder' \in [Env -> Runner \cup {NoRunner, Lost}]
  BY DEF Leave
<1>f. \A f \in AllFaults : Fault(f) => faults' \in Nat
  BY DEF Fault
<1>1. CASE Lock(r)
  <2>1. PICK e \in Env :
          /\ holder' = [holder EXCEPT ![e] = r]
          /\ run' = [run EXCEPT ![r] = [run[r] EXCEPT !.phase = "running", !.env = e]]
    BY <1>1 DEF Lock
  <2>2. "running" \in Phase
    BY DEF Phase
  <2>3. run' \in [Runner -> [phase : Phase, task : Task, env : Env \cup {NoEnv}]]
    BY <1>e, <2>1, <2>2
  <2>4. holder' \in [Env -> Runner \cup {NoRunner, Lost}]
    BY <2>1
  <2>. QED  BY <1>1, <2>3, <2>4 DEF Lock
<1>2. CASE AnswerLost(r)
  BY <1>2 DEF AnswerLost, Fault
<1>3. CASE LockFails(r)
  <2>1. faults' \in Nat /\ track' \in [Runner -> {"wait", "sent", "done"}]
    BY <1>3, <1>f DEF LockFails, AllFaults
  <2>2. mail' \in Seq(Message)
    BY <1>3, <1>b DEF LockFails, Report
  <2>3. run' \in [Runner -> [phase : Phase, task : Task, env : Env \cup {NoEnv}]]
    BY <1>3, <1>c DEF LockFails
  <2>. QED  BY <1>3, <2>1, <2>2, <2>3 DEF LockFails
<1>4. CASE ConfigFails(r)
  <2>1. faults' \in Nat
    BY <1>4, <1>f DEF ConfigFails, AllFaults
  <2>2. mail' \in Seq(Message)
    BY <1>4, <1>b DEF ConfigFails, Report
  <2>3. run' \in [Runner -> [phase : Phase, task : Task, env : Env \cup {NoEnv}]]
    BY <1>4, <1>c DEF ConfigFails
  <2>. QED  BY <1>4, <2>1, <2>2, <2>3 DEF ConfigFails
<1>5. CASE AnswerId(r)
  BY <1>5, <1>b DEF AnswerId
<1>6. CASE Finish(r)
  BY <1>6 DEF Finish, Phase
<1>7. CASE Abort(r)
  BY <1>7 DEF Abort, Phase
<1>8. CASE Close(r)
  <2>1. mail' \in Seq(Message)
    BY <1>8, <1>b DEF Close, Report
  <2>2. run' \in [Runner -> [phase : Phase, task : Task, env : Env \cup {NoEnv}]]
    BY <1>8, <1>c DEF Close
  <2>3. holder' \in [Env -> Runner \cup {NoRunner, Lost}] /\ aged' \subseteq Env
    BY <1>8 DEF Close, ReleaseEnv
  <2>. QED  BY <1>8, <2>1, <2>2, <2>3 DEF Close
<1>9. CASE CloseFails(r)
  <2>1. faults' \in Nat /\ holder' \in [Env -> Runner \cup {NoRunner, Lost}]
    BY <1>9, <1>d, <1>f DEF CloseFails, AllFaults
  <2>2. mail' \in Seq(Message)
    BY <1>9, <1>b DEF CloseFails, Report
  <2>3. run' \in [Runner -> [phase : Phase, task : Task, env : Env \cup {NoEnv}]]
    BY <1>9, <1>c DEF CloseFails
  <2>. QED  BY <1>9, <2>1, <2>2, <2>3 DEF CloseFails
<1>10. CASE Crash(r)
  <2>1. faults' \in Nat /\ holder' \in [Env -> Runner \cup {NoRunner, Lost}]
    BY <1>10, <1>d, <1>f DEF Crash, AllFaults
  <2>2. mail' \in Seq(Message)
    BY <1>10, <1>b DEF Crash, Report
  <2>3. run' \in [Runner -> [phase : Phase, task : Task, env : Env \cup {NoEnv}]]
    BY <1>10, <1>c DEF Crash
  <2>. QED  BY <1>10, <2>1, <2>2, <2>3 DEF Crash
<1>. QED
  BY <1>1, <1>2, <1>3, <1>4, <1>5, <1>6, <1>7, <1>8, <1>9, <1>10 DEF Actor

\* Ageing and a restart keep the types.
LEMMA OutsideTypeOK ==
  ASSUME TypeOK, (\E e \in Env : Age(e)) \/ Restart
  PROVE  TypeOK'
<1>. USE DEF TypeOK, mainVars, bookVars, envVars
<1>1. CASE \E e \in Env : Age(e)
  BY <1>1 DEF Age
<1>2. CASE Restart
  <2>1. Idle \in [phase : Phase, task : Task, env : Env \cup {NoEnv}]
    BY CoordinatorAssumption DEF Idle, Phase
  <2>2. /\ holder' \in [Env -> Runner \cup {NoRunner, Lost}]
        /\ aged' \subseteq Env
        /\ faults' \in Nat
    BY <1>2 DEF Restart, Fault
  <2>3. mail' \in Seq(Message)
    BY <1>2 DEF Restart
  <2>. QED  BY <1>2, <2>1, <2>2, <2>3 DEF Restart, NoCopies, Place
<1>. QED  BY <1>1, <1>2

\* Every step keeps the types.
LEMMA StepTypeOK == TypeOK /\ [Next]_vars => TypeOK'
<1>. SUFFICES ASSUME TypeOK, [Next]_vars PROVE TypeOK'
  OBVIOUS
<1>1. CASE UNCHANGED vars
  BY <1>1 DEF TypeOK, vars, mainVars, bookVars, envVars
<1>2. CASE Next
  BY <1>1, <1>2, MainTypeOK, CallbackTypeOK, ActorTypeOK, OutsideTypeOK
     DEF Next, Callback, Over
<1>. QED  BY <1>1, <1>2

\* Every variable of the coordinator, the runners and the environments stays in
\* its type; in particular the ids in use are always ids
\* (agent_coordinator.py:477-482).
THEOREM CoordinatorTypeCorrect == Spec => []TypeOK
BY InitTypeOK, StepTypeOK, PTL DEF Spec
-----------------------------------------------------------------------------
(* The queue never gains or loses a copy of a task.                        *)

\* AllLooped is not inductive: it says nothing before the end.  What a step
\* keeps is that each reading has put rollout_n copies of a task in the queue,
\* each of which is still there or was started.
Accounted ==
  /\ poll_count <= max_task_queue_size
  /\ \A t \in Task : ~Resume \/ t \notin finished =>
        started[t] + task_queue[t] = poll_count * rollout_n
  /\ pc = "returned" => task_queue = NoCopies /\ poll_count = max_task_queue_size

\* Nothing is counted at the start.
LEMMA InitAccounted == Init => Accounted
BY CoordinatorAssumption DEF Init, Accounted, NoCopies

\* One more reading adds rollout_n.
LEMMA OneMoreReading ==
  ASSUME NEW p \in Nat
  PROVE  (p + 1) * rollout_n = p * rollout_n + rollout_n
BY CoordinatorAssumption

\* The main loop keeps the account, unless a task is taken out of the queue and
\* not started or the file cannot be read.
LEMMA MainAccounted ==
  ASSUME TypeOK, Accounted, Main, Faults \cap {"actor", "load"} = {}
  PROVE  Accounted'
<1>. USE DEF Accounted
<1>1. CASE Clean \/ SkipCleaning \/ Cleaned \/ \E e \in Env : ReleaseOrphan(e)
  BY <1>1 DEF Clean, SkipCleaning, Cleaned, ReleaseOrphan
<1>2. CASE Fill
  <2>1. CASE Remaining = {}
    BY <1>2, <2>1 DEF Fill
  <2>2. CASE Remaining # {}
    <3>1. poll_count' = poll_count + 1 /\ poll_count < max_task_queue_size
      BY <1>2, <2>2 DEF Fill
    <3>2. poll_count' <= max_task_queue_size
      BY <3>1, CoordinatorAssumption DEF TypeOK
    <3>3. ASSUME NEW t \in Task, ~Resume \/ t \notin finished'
          PROVE  started'[t] + task_queue'[t] = poll_count' * rollout_n
      <4>1. ~Resume \/ t \notin finished
        BY <1>2, <3>3 DEF Fill
      <4>2. started'[t] = started[t] /\ task_queue'[t] = rollout_n /\ task_queue[t] = 0
        BY <1>2, <2>2, <4>1 DEF Fill, Copies, Remaining, NoCopies
      <4>3. started[t] = poll_count * rollout_n
        BY <4>1, <4>2, CoordinatorAssumption DEF TypeOK
      <4>. QED
        BY <3>1, <4>2, <4>3, OneMoreReading DEF TypeOK
    <3>. QED  BY <1>2, <2>2, <3>2, <3>3 DEF Fill
  <2>. QED  BY <2>1, <2>2
<1>3. CASE SkipFill \/ Wake
  BY <1>3 DEF SkipFill, Wake
<1>4. CASE LoadFails \/ StartFails
  BY <1>4 DEF LoadFails, StartFails, Fault
<1>5. CASE \E r \in Runner : Start(r)
  <2>1. PICK r \in Runner, t \in Task :
          /\ Start(r)
          /\ Take(t)
          /\ started' = [started EXCEPT ![t] = @ + 1]
    BY <1>5 DEF Start
  <2>2. \A u \in Task : started'[u] + task_queue'[u] = started[u] + task_queue[u]
    BY <2>1 DEF TypeOK, Take
  <2>. QED  BY <2>1, <2>2 DEF Start
<1>6. CASE StartDone
  BY <1>6, CoordinatorAssumption DEF StartDone, AllDone, TypeOK
<1>. QED
  BY <1>1, <1>2, <1>3, <1>4, <1>5, <1>6 DEF Main

\* Every step keeps the account.
LEMMA StepAccounted ==
  ASSUME Faults \cap {"actor", "load"} = {}
  PROVE  TypeOK /\ Accounted /\ [Next]_vars => Accounted'
<1>. SUFFICES ASSUME TypeOK, Accounted, [Next]_vars PROVE Accounted'
  OBVIOUS
<1>1. CASE Main
  BY <1>1, MainAccounted
<1>2. CASE Callback
  BY <1>2 DEF Callback, Complete, Register, Accounted, mainVars
<1>3. CASE \E r \in Runner : Actor(r)
  BY <1>3 DEF Actor, Lock, AnswerLost, LockFails, ConfigFails, AnswerId, Finish, Abort,
     Close, CloseFails, Crash, Accounted, mainVars
<1>4. CASE \E e \in Env : Age(e)
  BY <1>4 DEF Age, Accounted, mainVars
<1>5. CASE Restart
  BY <1>5, CoordinatorAssumption DEF Restart, Accounted, NoCopies
<1>6. CASE UNCHANGED vars
  BY <1>6 DEF Accounted, vars, mainVars
<1>. QED
  BY <1>1, <1>2, <1>3, <1>4, <1>5, <1>6 DEF Next, Over

\* When start_rollout returns, every task of the file has been started
\* rollout_n times for each of max_task_queue_size readings, unless resume skips
\* it, provided that every reading succeeds and Ray creates every runner it is
\* asked for, whatever else fails (agent_coordinator.py:272-377).
THEOREM EveryTaskLooped ==
  Faults \cap {"actor", "load"} = {} => (Spec => []AllLooped)
<1>. SUFFICES ASSUME Faults \cap {"actor", "load"} = {}
              PROVE  Spec => []AllLooped
  OBVIOUS
<1>1. TypeOK /\ Accounted => AllLooped
  <2>. SUFFICES ASSUME TypeOK, Accounted, pc = "returned",
                       NEW t \in Task, ~Resume \/ t \notin finished
                PROVE  started[t] = max_task_queue_size * rollout_n
    BY CoordinatorAssumption DEF AllLooped
  <2>1. task_queue[t] = 0 /\ started[t] \in Nat
    BY DEF Accounted, NoCopies, TypeOK
  <2>2. started[t] + task_queue[t] = max_task_queue_size * rollout_n
    BY DEF Accounted
  <2>. QED  BY <2>1, <2>2
<1>2. Init => TypeOK /\ Accounted
  BY InitTypeOK, InitAccounted
<1>3. TypeOK /\ Accounted /\ [Next]_vars => TypeOK' /\ Accounted'
  BY StepTypeOK, StepAccounted
<1>. QED
  BY <1>1, <1>2, <1>3, PTL DEF Spec
-----------------------------------------------------------------------------
(* What the coordinator will hear of a runner agrees with the runner.      *)

\* A runner reports each thing at most once.
OneReport ==
  \A i, j \in 1 .. Len(mail) :
    mail[i].kind = mail[j].kind /\ mail[i].from = mail[j].from => i = j

\* A runner has ended exactly while its result is under way.
ResultEnded ==
  /\ \A i \in 1 .. Len(mail) :
       mail[i].kind = "result" => run[mail[i].from].phase = "ended"
  /\ \A r \in Runner : run[r].phase = "ended" =>
       \E i \in 1 .. Len(mail) : mail[i].kind = "result" /\ mail[i].from = r

\* An id under way is that of the environment its runner uses, if it uses one.
IdSent ==
  \A i \in 1 .. Len(mail) : mail[i].kind = "id" =>
    /\ track[mail[i].from] = "sent"
    /\ Busy(mail[i].from) => mail[i].env = run[mail[i].from].env

\* A runner knows an environment exactly while it uses it, and nothing has been
\* asked of it before that.
KnownEnv ==
  \A r \in Runner : /\ run[r].env \in Env <=> Busy(r)
                    /\ run[r].phase = "created" => track[r] = "wait"

\* The entry of a runner that uses an environment is that environment.
Filed ==
  \A r \in Runner : task_to_service_map[r] # NoEnv =>
    \/ run[r].phase = "ended"
    \/ Busy(r) /\ task_to_service_map[r] = run[r].env

LifeInv == OneReport /\ ResultEnded /\ IdSent /\ KnownEnv /\ Filed

\* No runner has a task at the start.
LEMMA InitLife == Init => LifeInv
<1>. SUFFICES ASSUME Init PROVE LifeInv
  OBVIOUS
<1>1. Len(mail) = 0
  BY DEF Init
<1>. QED
  BY <1>1, CoordinatorAssumption DEF Init, LifeInv, OneReport, ResultEnded, IdSent, KnownEnv,
     Filed, Idle, Busy

\* A report is put at the end of the mail.
LEMMA AppendMail ==
  ASSUME TypeOK, NEW m \in Message, mail' = Append(mail, m)
  PROVE  /\ Len(mail) \in Nat /\ Len(mail') = Len(mail) + 1
         /\ \A i \in 1 .. Len(mail) : mail'[i] = mail[i]
         /\ mail'[Len(mail) + 1] = m
<1>1. mail \in Seq(Message)
  BY DEF TypeOK
<1>. QED  BY <1>1, AppendProperties, LenProperties

\* Where the j-th report was before the i-th was taken.
Before(i, j) == IF j < i THEN j ELSE j + 1

\* The other reports stay, in their order.
LEMMA TakenMail ==
  ASSUME TypeOK, NEW i \in 1 .. Len(mail), mail' = Taken(i)
  PROVE  /\ Len(mail') \in Nat
         /\ \A j \in 1 .. Len(mail') :
              Before(i, j) \in 1 .. Len(mail) /\ Before(i, j) # i
              /\ mail'[j] = mail[Before(i, j)]
         /\ \A k \in 1 .. Len(mail) : k # i => \E j \in 1 .. Len(mail') : Before(i, j) = k
         /\ \A j, k \in 1 .. Len(mail') : Before(i, j) < Before(i, k) <=> j < k
<1>1. Len(mail) \in Nat /\ Len(mail) - 1 \in Nat
  BY LenProperties DEF TypeOK
<1>2. Len(mail') = Len(mail) - 1
  BY <1>1, LenProperties, TakenType DEF Taken, TypeOK
<1>3. \A j \in 1 .. Len(mail') : mail'[j] = mail[Before(i, j)]
  BY <1>1, <1>2 DEF Taken, Before
<1>4. ASSUME NEW k \in 1 .. Len(mail), k # i
      PROVE  \E j \in 1 .. Len(mail') : Before(i, j) = k
  <2>1. CASE k < i
    BY <1>1, <1>2, <2>1 DEF Before
  <2>2. CASE i < k
    <3>1. k - 1 \in 1 .. Len(mail') /\ Before(i, k - 1) = k
      BY <1>1, <1>2, <2>2 DEF Before
    <3>. QED  BY <3>1
  <2>. QED  BY <1>4, <2>1, <2>2
<1>5. \A j \in 1 .. Len(mail') : Before(i, j) \in 1 .. Len(mail) /\ Before(i, j) # i
  BY <1>1, <1>2 DEF Before
<1>6. \A j, k \in 1 .. Len(mail') : Before(i, j) < Before(i, k) <=> j < k
  BY <1>1, <1>2 DEF Before
<1>7. Len(mail') \in Nat
  BY <1>1, <1>2
<1>. QED  BY <1>3, <1>4, <1>5, <1>6, <1>7

\* The end of an episode changes only the entry of its runner.
LEMMA EndedEffect ==
  ASSUME TypeOK, NEW r \in Runner, Ended(r)
  PROVE  /\ run'[r].phase = "ended" /\ run'[r].env = NoEnv
         /\ \A q \in Runner \ {r} : run'[q] = run[q]
BY DEF TypeOK, Ended

\* However an episode ends, it is reported once.
LEMMA EndLife ==
  ASSUME TypeOK, LifeInv, NEW r \in Runner, NEW ok \in BOOLEAN,
         run[r].phase \in {"created", "running", "closing"},
         Ended(r), Report(r, ok), UNCHANGED task_to_service_map,
         \/ UNCHANGED track
         \/ run[r].phase = "created" /\ track' = [track EXCEPT ![r] = "done"]
  PROVE  LifeInv'
<1>. USE CoordinatorAssumption DEF LifeInv
<1>1. /\ Len(mail) \in Nat /\ Len(mail') = Len(mail) + 1
      /\ \A i \in 1 .. Len(mail) : mail'[i] = mail[i]
      /\ mail'[Len(mail) + 1].kind = "result" /\ mail'[Len(mail) + 1].from = r
  BY AppendMail, MessageType DEF Report, Result
<1>2. \A i \in 1 .. Len(mail') : i \in 1 .. Len(mail) \/ i = Len(mail) + 1
  BY <1>1
<1>3. \A i \in 1 .. Len(mail) : mail[i].from = r => mail[i].kind # "result"
  BY DEF ResultEnded
<1>4. OneReport'
  BY <1>1, <1>2, <1>3 DEF OneReport
<1>5. ResultEnded'
  <2>1. ASSUME NEW i \in 1 .. Len(mail'), mail'[i].kind = "result"
        PROVE  run'[mail'[i].from].phase = "ended"
    BY <1>1, <1>2, <1>3, <2>1, EndedEffect, MailType DEF ResultEnded
  <2>2. ASSUME NEW q \in Runner, run'[q].phase = "ended"
        PROVE  \E i \in 1 .. Len(mail') : mail'[i].kind = "result" /\ mail'[i].from = q
    <3>1. CASE q = r
      BY <1>1, <3>1
    <3>2. CASE q # r
      <4>1. PICK i \in 1 .. Len(mail) : mail[i].kind = "result" /\ mail[i].from = q
        BY <2>2, <3>2, EndedEffect DEF ResultEnded
      <4>. QED  BY <1>1, <4>1
    <3>. QED  BY <3>1, <3>2
  <2>. QED  BY <2>1, <2>2 DEF ResultEnded
<1>6. IdSent'
  <2>. SUFFICES ASSUME NEW i \in 1 .. Len(mail'), mail'[i].kind = "id"
                PROVE  /\ track'[mail'[i].from] = "sent"
                       /\ Busy(mail[i].from)' => mail'[i].env = run'[mail'[i].from].env
    BY DEF IdSent
  <2>1. i \in 1 .. Len(mail) /\ mail'[i] = mail[i] /\ mail[i].from \in Runner
    BY <1>1, <1>2, MailType
  <2>2. track[mail[i].from] = "sent" /\ track'[mail[i].from] = "sent"
    BY <2>1 DEF IdSent, KnownEnv, TypeOK
  <2>. QED  BY <2>1, <2>2, EndedEffect DEF IdSent, Busy
<1>7. KnownEnv'
  BY EndedEffect DEF KnownEnv, Busy, TypeOK
<1>8. Filed'
  BY EndedEffect DEF Filed, Busy
<1>. QED  BY <1>4, <1>5, <1>6, <1>7, <1>8

\* The steps of a runner keep LifeInv.
LEMMA ActorLife ==
  ASSUME TypeOK, LifeInv, NEW r \in Runner, Actor(r)
  PROVE  LifeInv'
<1>. USE CoordinatorAssumption DEF LifeInv, bookVars
<1>1. CASE Lock(r)
  <2>1. PICK e \in Env :
          run' = [run EXCEPT ![r] = [run[r] EXCEPT !.phase = "running", !.env = e]]
    BY <1>1 DEF Lock
  <2>2. /\ run'[r].phase = "running" /\ run'[r].env = e
        /\ \A q \in Runner \ {r} : run'[q] = run[q]
    BY <2>1 DEF TypeOK
  <2>3. run[r].phase = "created" /\ UNCHANGED <<mail, track, task_to_service_map>>
    BY <1>1 DEF Lock
  <2>4. \A i \in 1 .. Len(mail) : mail[i].from # r
    BY <2>3, MailType DEF ResultEnded, IdSent, KnownEnv
  <2>5. OneReport' /\ ResultEnded'
    BY <2>2, <2>3, <2>4, MailType DEF OneReport, ResultEnded
  <2>6. IdSent'
    BY <2>2, <2>3, <2>4, MailType DEF IdSent, Busy
  <2>7. KnownEnv' /\ Filed'
    BY <2>2, <2>3 DEF KnownEnv, Filed, Busy
  <2>. QED  BY <2>5, <2>6, <2>7
<1>2. CASE AnswerLost(r)
  BY <1>2 DEF AnswerLost, OneReport, ResultEnded, IdSent, KnownEnv, Filed, Busy
<1>3. CASE LockFails(r) \/ ConfigFails(r) \/ Close(r) \/ CloseFails(r) \/ Crash(r)
  BY <1>3, EndLife DEF LockFails, ConfigFails, Close, CloseFails, Crash
<1>4. CASE AnswerId(r)
  <2>1. /\ track[r] = "wait" /\ run[r].phase # "created"
        /\ UNCHANGED <<run, task_to_service_map>>
        /\ track'[r] = "sent" /\ \A q \in Runner \ {r} : track'[q] = track[q]
    BY <1>4 DEF AnswerId, TypeOK
  <2>2. run[r].env \in Env \cup {NoEnv}
    BY DEF TypeOK
  <2>3. /\ Len(mail) \in Nat /\ Len(mail') = Len(mail) + 1
        /\ \A i \in 1 .. Len(mail) : mail'[i] = mail[i]
        /\ mail'[Len(mail) + 1].kind = "id" /\ mail'[Len(mail) + 1].from = r
        /\ mail'[Len(mail) + 1].env = run[r].env
    BY <1>4, <2>2, AppendMail, MessageType DEF AnswerId, Id
  <2>4. \A i \in 1 .. Len(mail') : i \in 1 .. Len(mail) \/ i = Len(mail) + 1
    BY <2>3
  <2>5. OneReport'
    BY <2>1, <2>3, <2>4 DEF OneReport, IdSent
  <2>6. ResultEnded'
    BY <2>1, <2>3, <2>4 DEF ResultEnded
  <2>7. IdSent'
    BY <2>1, <2>3, <2>4, MailType DEF IdSent, Busy
  <2>8. KnownEnv' /\ Filed'
    BY <2>1 DEF KnownEnv, Filed, Busy
  <2>. QED  BY <2>5, <2>6, <2>7, <2>8
<1>5. CASE Finish(r) \/ Abort(r)
  <2>1. /\ UNCHANGED <<mail, track, task_to_service_map>>
        /\ run[r].phase = "running"
        /\ run'[r].phase = "closing" /\ run'[r].env = run[r].env
        /\ \A q \in Runner \ {r} : run'[q] = run[q]
    BY <1>5 DEF Finish, Abort, TypeOK
  <2>2. OneReport' /\ ResultEnded'
    BY <2>1, MailType DEF OneReport, ResultEnded
  <2>3. IdSent' /\ KnownEnv' /\ Filed'
    BY <2>1, MailType DEF IdSent, KnownEnv, Filed, Busy
  <2>. QED  BY <2>2, <2>3
<1>. QED
  BY <1>1, <1>2, <1>3, <1>4, <1>5 DEF Actor

\* Handling a report keeps LifeInv.
LEMMA CallbackLife ==
  ASSUME TypeOK, LifeInv, NEW i \in 1 .. Len(mail), Complete(i) \/ Register(i)
  PROVE  LifeInv'
<1>. DEFINE q == mail[i].from
<1>. USE CoordinatorAssumption DEF LifeInv
<1>1. /\ Len(mail') \in Nat
      /\ \A j \in 1 .. Len(mail') :
           Before(i, j) \in 1 .. Len(mail) /\ Before(i, j) # i /\ mail'[j] = mail[Before(i, j)]
      /\ \A k \in 1 .. Len(mail) : k # i => \E j \in 1 .. Len(mail') : Before(i, j) = k
      /\ \A j, k \in 1 .. Len(mail') : Before(i, j) < Before(i, k) <=> j < k
  BY TakenMail DEF Complete, Register
<1>2. q \in Runner /\ mail[i].env \in Env \cup {NoEnv}
  BY MailType
<1>3. OneReport'
  <2>. SUFFICES ASSUME NEW j \in 1 .. Len(mail'), NEW k \in 1 .. Len(mail'),
                       mail'[j].kind = mail'[k].kind, mail'[j].from = mail'[k].from
                PROVE  j = k
    BY DEF OneReport
  <2>1. Before(i, j) = Before(i, k)
    <3>1. /\ Before(i, j) \in 1 .. Len(mail) /\ mail'[j] = mail[Before(i, j)]
          /\ Before(i, k) \in 1 .. Len(mail) /\ mail'[k] = mail[Before(i, k)]
      BY <1>1
    <3>. QED  BY <3>1 DEF OneReport
  <2>2. ~(j < k) /\ ~(k < j)
    BY <1>1, <2>1, LenProperties DEF TypeOK
  <2>. QED  BY <1>1, <2>2
<1>4. CASE Complete(i)
  <2>1. /\ mail[i].kind = "result" /\ run[q].phase = "ended"
        /\ run'[q].phase = "none" /\ run'[q].env = NoEnv
        /\ \A r \in Runner \ {q} : run'[r] = run[r]
    BY <1>2, <1>4 DEF Complete, Idle, TypeOK, ResultEnded
  <2>2. /\ track'[q] = track[q] \/ track[q] = "wait"
        /\ \A r \in Runner \ {q} : track'[r] = track[r]
        /\ task_to_service_map'[q] = NoEnv
        /\ \A r \in Runner \ {q} : task_to_service_map'[r] = task_to_service_map[r]
    BY <1>2, <1>4 DEF Complete, Forget, TypeOK
  <2>3. \A k \in 1 .. Len(mail) : mail[k].kind = "result" /\ mail[k].from = q => k = i
    BY <2>1 DEF OneReport
  <2>4. ResultEnded'
    <3>1. ASSUME NEW j \in 1 .. Len(mail'), mail'[j].kind = "result"
          PROVE  run'[mail'[j].from].phase = "ended"
      <4>1. mail[Before(i, j)].from # q /\ mail[Before(i, j)].from \in Runner
        BY <1>1, <2>3, <3>1, MailType
      <4>. QED  BY <1>1, <2>1, <3>1, <4>1 DEF ResultEnded
    <3>2. ASSUME NEW r \in Runner, run'[r].phase = "ended"
          PROVE  \E j \in 1 .. Len(mail') : mail'[j].kind = "result" /\ mail'[j].from = r
      <4>1. r # q /\ run[r].phase = "ended"
        BY <2>1, <3>2
      <4>2. PICK k \in 1 .. Len(mail) : mail[k].kind = "result" /\ mail[k].from = r
        BY <4>1 DEF ResultEnded
      <4>3. k # i
        BY <4>1, <4>2
      <4>. QED  BY <1>1, <4>2, <4>3
    <3>. QED  BY <3>1, <3>2 DEF ResultEnded
  <2>5. IdSent'
    <3>. SUFFICES ASSUME NEW j \in 1 .. Len(mail'), mail'[j].kind = "id"
                  PROVE  /\ track'[mail'[j].from] = "sent"
                         /\ Busy(mail[j].from)' => mail'[j].env = run'[mail'[j].from].env
      BY DEF IdSent
    <3>1. /\ mail[Before(i, j)].from \in Runner /\ mail'[j] = mail[Before(i, j)]
          /\ track[mail'[j].from] = "sent"
          /\ Busy(mail'[j].from) => mail'[j].env = run[mail'[j].from].env
      BY <1>1, MailType DEF IdSent
    <3>. QED  BY <2>1, <2>2, <3>1 DEF Busy
  <2>6. KnownEnv' /\ Filed'
    BY <2>1, <2>2 DEF KnownEnv, Filed, Busy
  <2>. QED  BY <1>3, <2>4, <2>5, <2>6
<1>5. CASE Register(i)
  <2>1. /\ mail[i].kind = "id" /\ UNCHANGED run
        /\ track[q] = "sent"
        /\ Busy(q) => mail[i].env = run[q].env
    BY <1>5 DEF Register, IdSent
  <2>2. /\ track'[q] = "done" /\ \A r \in Runner \ {q} : track'[r] = track[r]
    BY <1>2, <1>5 DEF Register, TypeOK
  <2>3. /\ \A r \in Runner \ {q} : task_to_service_map'[r] = task_to_service_map[r]
        /\ \/ task_to_service_map'[q] = task_to_service_map[q]
           \/ run[q].phase # "none" /\ task_to_service_map'[q] = mail[i].env
    BY <1>2, <1>5 DEF Register, Record, TypeOK, active_tasks, bookVars
  <2>4. ResultEnded'
    <3>1. \A j \in 1 .. Len(mail') : mail'[j].kind = "result" => run'[mail'[j].from].phase = "ended"
      BY <1>1, <2>1 DEF ResultEnded
    <3>2. ASSUME NEW r \in Runner, run'[r].phase = "ended"
          PROVE  \E j \in 1 .. Len(mail') : mail'[j].kind = "result" /\ mail'[j].from = r
      <4>1. PICK k \in 1 .. Len(mail) : mail[k].kind = "result" /\ mail[k].from = r
        BY <2>1, <3>2 DEF ResultEnded
      <4>2. k # i
        BY <2>1, <4>1
      <4>. QED  BY <1>1, <4>1, <4>2
    <3>. QED  BY <3>1, <3>2 DEF ResultEnded
  <2>5. IdSent'
    <3>. SUFFICES ASSUME NEW j \in 1 .. Len(mail'), mail'[j].kind = "id"
                  PROVE  /\ track'[mail'[j].from] = "sent"
                         /\ Busy(mail[j].from)' => mail'[j].env = run'[mail'[j].from].env
      BY DEF IdSent
    <3>1. /\ Before(i, j) \in 1 .. Len(mail) /\ Before(i, j) # i
          /\ mail[Before(i, j)].from \in Runner /\ mail'[j] = mail[Before(i, j)]
      BY <1>1, MailType
    <3>2. mail'[j].from # q
      BY <2>1, <3>1 DEF OneReport
    <3>3. /\ track[mail'[j].from] = "sent"
          /\ Busy(mail'[j].from) => mail'[j].env = run[mail'[j].from].env
      BY <3>1 DEF IdSent
    <3>. QED  BY <2>1, <2>2, <3>1, <3>2, <3>3 DEF Busy
  <2>6. KnownEnv'
    BY <2>1, <2>2 DEF KnownEnv, Busy
  <2>7. Filed'
    <3>1. run[q].phase # "none" => run[q].phase = "ended" \/ Busy(q)
      BY <1>2, <2>1 DEF KnownEnv, Busy, TypeOK, Phase
    <3>. QED  BY <1>2, <2>1, <2>3, <3>1 DEF Filed, Busy
  <2>. QED  BY <1>3, <2>4, <2>5, <2>6, <2>7
<1>. QED  BY <1>4, <1>5

\* Every step keeps LifeInv.
LEMMA StepLife == TypeOK /\ LifeInv /\ [Next]_vars => LifeInv'
<1>. SUFFICES ASSUME TypeOK, LifeInv, [Next]_vars PROVE LifeInv'
  OBVIOUS
<1>. USE CoordinatorAssumption DEF LifeInv
<1>1. CASE Main
  <2>1. CASE \E e \in Env : ReleaseOrphan(e)
    <3>1. UNCHANGED <<run, track, mail>>
      BY <2>1 DEF ReleaseOrphan
    <3>2. \A r \in Runner : task_to_service_map'[r] \in {task_to_service_map[r], NoEnv}
      BY <2>1 DEF ReleaseOrphan, TypeOK
    <3>. QED
      BY <3>1, <3>2 DEF OneReport, ResultEnded, IdSent, KnownEnv, Filed, Busy
  <2>2. CASE \E r \in Runner : Start(r)
    <3>1. PICK r \in Runner : Start(r)
      BY <2>2
    <3>2. /\ run[r].phase = "none" /\ track[r] = "done"
          /\ UNCHANGED <<mail, task_to_service_map>>
          /\ run'[r].phase = "created" /\ run'[r].env = NoEnv /\ track'[r] = "wait"
          /\ \A q \in Runner \ {r} : run'[q] = run[q] /\ track'[q] = track[q]
      BY <3>1 DEF Start, TypeOK, bookVars
    <3>3. \A i \in 1 .. Len(mail) : mail[i].from # r
      BY <3>2, MailType DEF ResultEnded, IdSent
    <3>4. OneReport' /\ ResultEnded'
      BY <3>2, <3>3, MailType DEF OneReport, ResultEnded
    <3>5. IdSent'
      BY <3>2, <3>3, MailType DEF IdSent, Busy
    <3>6. KnownEnv' /\ Filed'
      BY <3>2 DEF KnownEnv, Filed, Busy
    <3>. QED  BY <3>4, <3>5, <3>6
  <2>3. CASE UNCHANGED <<run, track, mail, task_to_service_map>>
    BY <2>3 DEF OneReport, ResultEnded, IdSent, KnownEnv, Filed, Busy
  <2>. QED
    BY <1>1, <2>1, <2>2, <2>3 DEF Main, Clean, SkipCleaning, Cleaned, Fill, SkipFill,
       LoadFails, StartFails, StartDone, Wake, bookVars
<1>2. CASE Callback
  BY <1>2, CallbackLife DEF Callback
<1>3. CASE \E r \in Runner : Actor(r)
  BY <1>3, ActorLife
<1>4. CASE (\E e \in Env : Age(e)) \/ UNCHANGED vars
  BY <1>4 DEF Age, vars, bookVars, OneReport, ResultEnded, IdSent, KnownEnv, Filed, Busy
<1>5. CASE Restart
  <2>1. /\ Len(mail') = 0
        /\ \A r \in Runner : /\ run'[r].phase = "none" /\ run'[r].env = NoEnv
                             /\ task_to_service_map'[r] = NoEnv
    BY <1>5 DEF Restart, Idle
  <2>. QED
    BY <2>1 DEF OneReport, ResultEnded, IdSent, KnownEnv, Filed, Busy
<1>. QED
  BY <1>1, <1>2, <1>3, <1>4, <1>5 DEF Next, Over

-----------------------------------------------------------------------------
(* What the server says is locked by a runner is what the runner uses.     *)

\* What the server counts as a runner's own is the one the runner uses.  This
\* needs no order of the reports and survives every fault.
HeldInv == \A e \in Env : holder[e] \in Runner => run[holder[e]].env = e

\* Nothing is locked at the start.
LEMMA InitHeld == Init => HeldInv
BY CoordinatorAssumption DEF Init, HeldInv

\* The steps of a runner keep HeldInv.
LEMMA ActorHeld ==
  ASSUME TypeOK, LifeInv, HeldInv, NEW r \in Runner, Actor(r)
  PROVE  HeldInv'
<1>. USE CoordinatorAssumption DEF LifeInv, HeldInv, KnownEnv, Busy
<1>1. CASE Lock(r)
  <2>1. PICK e \in Env :
          /\ holder[e] = NoRunner
          /\ holder' = [holder EXCEPT ![e] = r]
          /\ run' = [run EXCEPT ![r] = [run[r] EXCEPT !.phase = "running", !.env = e]]
    BY <1>1 DEF Lock
  <2>2. /\ run'[r].phase = "running" /\ run'[r].env = e
        /\ \A q \in Runner \ {r} : run'[q] = run[q]
    BY <2>1 DEF TypeOK
  <2>3. \A f \in Env : holder'[f] = IF f = e THEN r ELSE holder[f]
    BY <2>1 DEF TypeOK
  <2>4. \A f \in Env : holder[f] # r
    BY <1>1 DEF Lock
  <2>. QED  BY <2>2, <2>3, <2>4
<1>2. CASE AnswerLost(r)
  BY <1>2 DEF AnswerLost, TypeOK
<1>3. CASE LockFails(r) \/ ConfigFails(r)
  <2>1. holder' = holder /\ Ended(r) /\ run[r].phase = "created"
    BY <1>3 DEF LockFails, ConfigFails, envVars
  <2>. QED  BY <2>1, EndedEffect
<1>4. CASE AnswerId(r)
  BY <1>4 DEF AnswerId, envVars
<1>5. CASE Finish(r) \/ Abort(r)
  <2>1. /\ holder' = holder /\ run[r].phase = "running"
        /\ run'[r].phase = "closing" /\ run'[r].env = run[r].env
        /\ \A q \in Runner \ {r} : run'[q] = run[q]
    BY <1>5 DEF Finish, Abort, envVars, TypeOK
  <2>. QED  BY <2>1
<1>6. CASE Close(r)
  <2>1. \A e \in Env : holder'[e] = IF e = run[r].env THEN NoRunner ELSE holder[e]
    BY <1>6 DEF Close, ReleaseEnv, TypeOK
  <2>. QED  BY <1>6, <2>1, EndedEffect DEF Close
<1>7. CASE CloseFails(r) \/ Crash(r)
  <2>1. /\ Ended(r)
        /\ \A e \in Env : holder'[e] = IF holder[e] = r THEN Lost ELSE holder[e]
    BY <1>7 DEF CloseFails, Crash, Leave
  <2>. QED  BY <2>1, EndedEffect
<1>. QED
  BY <1>1, <1>2, <1>3, <1>4, <1>5, <1>6, <1>7 DEF Actor

\* So does every other step.
LEMMA StepHeld == TypeOK /\ LifeInv /\ HeldInv /\ [Next]_vars => HeldInv'
<1>. SUFFICES ASSUME TypeOK, LifeInv, HeldInv, [Next]_vars PROVE HeldInv'
  OBVIOUS
<1>. USE CoordinatorAssumption DEF LifeInv, HeldInv, KnownEnv, Busy
<1>1. CASE Main
  <2>1. CASE \E e \in Env : ReleaseOrphan(e)
    <3>1. run' = run /\ \A e \in Env : holder'[e] \in {holder[e], NoRunner}
      BY <2>1 DEF ReleaseOrphan, TypeOK
    <3>. QED  BY <3>1
  <2>2. CASE \E r \in Runner : Start(r)
    <3>1. PICK r \in Runner : Start(r)
      BY <2>2
    <3>2. /\ run'[r].phase = "created" /\ run'[r].env = NoEnv
          /\ \A q \in Runner \ {r} : run'[q] = run[q]
      BY <3>1 DEF Start, TypeOK
    <3>. QED  BY <3>1, <3>2 DEF Start, envVars
  <2>3. CASE ~ \/ \E e \in Env : ReleaseOrphan(e)
               \/ \E r \in Runner : Start(r)
    BY <1>1, <2>3 DEF Main, Clean, SkipCleaning, Cleaned, Fill, SkipFill, LoadFails,
       StartFails, StartDone, Wake, envVars
  <2>. QED  BY <2>1, <2>2, <2>3
<1>2. CASE Callback
  <2>1. PICK i \in 1 .. Len(mail) : Complete(i) \/ Register(i)
    BY <1>2 DEF Callback
  <2>2. mail[i].from \in Runner
    BY MailType
  <2>3. CASE Complete(i)
    <3>1. run[mail[i].from].phase = "ended"
      BY <2>3 DEF Complete, ResultEnded
    <3>2. \A q \in Runner \ {mail[i].from} : run'[q] = run[q]
      BY <2>2, <2>3 DEF Complete, TypeOK
    <3>3. holder' = holder
      BY <2>3 DEF Complete, envVars
    <3>. QED  BY <2>2, <3>1, <3>2, <3>3
  <2>4. CASE Register(i)
    BY <2>4 DEF Register, envVars
  <2>. QED  BY <2>1, <2>3, <2>4
<1>3. CASE \E r \in Runner : Actor(r)
  BY <1>3, ActorHeld
<1>4. CASE \E e \in Env : Age(e)
  BY <1>4 DEF Age
<1>5. CASE Restart
  <2>1. /\ \A e \in Env : holder'[e] \in {Lost, NoRunner}
        /\ \A r \in Runner : run'[r].phase = "none" /\ run'[r].env = NoEnv
    BY <1>5 DEF Restart, Idle
  <2>. QED  BY <2>1
<1>6. CASE UNCHANGED vars
  BY <1>6 DEF vars, envVars
<1>. QED
  BY <1>1, <1>2, <1>3, <1>4, <1>5, <1>6 DEF Next, Over

\* When start_rollout has returned, every result has been handled.
ReturnedIdle == pc = "returned" => active_tasks = {}

\* Nothing is started, and no runner reports, after the return.
LEMMA StepReturned ==
  ASSUME "load" \notin Faults
  PROVE  TypeOK /\ ReturnedIdle /\ [Next]_vars => ReturnedIdle'
<1>. SUFFICES ASSUME TypeOK, ReturnedIdle, [Next]_vars PROVE ReturnedIdle'
  OBVIOUS
<1>. USE DEF ReturnedIdle, active_tasks
<1>1. CASE Main
  BY <1>1 DEF Main, Clean, SkipCleaning, Cleaned, ReleaseOrphan, Fill, SkipFill, LoadFails, Start,
     StartFails, StartDone, AllDone, Wake, Fault
<1>2. CASE Callback
  BY <1>2 DEF Callback, Complete, Register, Arrived, Suspended, mainVars
<1>3. CASE \E r \in Runner : Actor(r)
  BY <1>3 DEF Actor, Lock, AnswerLost, LockFails, ConfigFails, AnswerId, Finish, Abort,
     Close, CloseFails, Crash, mainVars
<1>4. CASE (\E e \in Env : Age(e)) \/ UNCHANGED vars
  BY <1>4 DEF Age, vars, mainVars
<1>5. CASE Restart
  BY <1>5 DEF Restart
<1>. QED
  BY <1>1, <1>2, <1>3, <1>4, <1>5 DEF Next, Over

\* When start_rollout returns no runner holds an environment, whatever failed
\* and in whatever order the reports came, provided that every reading of the
\* task file succeeded (trajectory_runner.py:241, agent_coordinator.py:372-377).
THEOREM HeldByNobodyAtExit ==
  "load" \notin Faults => (Spec => []NothingHeldAtExit)
<1>. SUFFICES ASSUME "load" \notin Faults
              PROVE  Spec => []NothingHeldAtExit
  OBVIOUS
<1>. DEFINE I == TypeOK /\ LifeInv /\ HeldInv /\ ReturnedIdle
<1>1. I => NothingHeldAtExit
  BY DEF LifeInv, KnownEnv, HeldInv, ReturnedIdle, active_tasks, Busy, NothingHeldAtExit
<1>2. Init => I
  <2>1. Init => ReturnedIdle
    BY DEF Init, ReturnedIdle
  <2>. QED  BY <2>1, InitTypeOK, InitLife, InitHeld
<1>3. I /\ [Next]_vars => I'
  BY StepTypeOK, StepLife, StepHeld, StepReturned
<1>. QED
  BY <1>1, <1>2, <1>3, PTL DEF Spec

-----------------------------------------------------------------------------
(* No two episodes share an environment, and the cleaner takes none away.  *)

\* EnvHeld is not inductive: the cleaner could release an environment in use if
\* its id were missing.  The id in use is forgotten with any runner it is filed
\* under; so it matters which of two runners that had the same environment one
\* after the other is heard of first.

\* The cleaner's list holds environments no runner will ever release.
SnapshotLost == \A e \in snapshot : holder[e] = Lost

\* An old environment is locked; if by a runner, its id has been handled.
AgedInv ==
  \A e \in aged : /\ holder[e] # NoRunner
                  /\ holder[e] \in Runner => track[holder[e]] = "done"

\* An id that has been handled is among the ids in use as long as it is used.
InUse == \A r \in Runner : Busy(r) /\ track[r] = "done" => run[r].env \in active_service_ids

\* The coordinator takes e for the environment of q, or soon will.
Names(q, e) ==
  \/ task_to_service_map[q] = e
  \/ \E i \in 1 .. Len(mail) : mail[i].kind = "id" /\ mail[i].from = q /\ mail[i].env = e

\* A runner that used r's environment before is heard of before r's id is.
HeardBefore(q, r) ==
  /\ track[r] # "done"
  /\ \A i, j \in 1 .. Len(mail) :
       /\ mail[i].kind = "id" /\ mail[i].from = r
       /\ mail[j].kind = "result" /\ mail[j].from = q
       => j < i

InOrder ==
  \A r, q \in Runner :
    Busy(r) /\ run[q].phase = "ended" /\ Names(q, run[r].env) => HeardBefore(q, r)

SafeInv == EnvHeld /\ SnapshotLost /\ AgedInv /\ InUse /\ InOrder

\* Everything that is known of a state before EnvHeld is kept by a step.
Known == TypeOK /\ LifeInv /\ HeldInv

\* There is nothing in use at the start.
LEMMA InitSafe == Init => SafeInv
BY CoordinatorAssumption
   DEF Init, SafeInv, EnvHeld, SnapshotLost, AgedInv, InUse, InOrder, Idle, Busy

\* Two runners never use the same environment.
LEMMA OwnEnv ==
  ASSUME Known, EnvHeld, NEW r \in Runner, NEW q \in Runner, Busy(q), run[q].env = run[r].env
  PROVE  q = r
BY DEF Known, LifeInv, KnownEnv, EnvHeld

\* An episode that ends gives up its environment and nobody else's.
LEMMA EndEffect ==
  ASSUME Known, EnvHeld, NEW r \in Runner,
         LockFails(r) \/ ConfigFails(r) \/ Close(r) \/ CloseFails(r) \/ Crash(r)
  PROVE  /\ run[r].phase \in {"created", "running", "closing"} /\ Ended(r)
         /\ \E ok \in BOOLEAN : Report(r, ok)
         /\ UNCHANGED <<snapshot, task_to_service_map, active_service_ids>>
         /\ \A q \in Runner \ {r} : track'[q] = track[q]
         /\ \A e \in Env : e # run[r].env => holder'[e] = holder[e]
         /\ \A e \in Env : e = run[r].env => holder'[e] \in {NoRunner, Lost}
         /\ aged' \subseteq aged
         /\ \A e \in aged' : holder[e] # NoRunner => holder'[e] # NoRunner
<1>. USE CoordinatorAssumption
     DEF Known, LifeInv, KnownEnv, HeldInv, EnvHeld, TypeOK, mainVars, bookVars
<1>1. CASE LockFails(r) \/ ConfigFails(r)
  <2>1. run[r].env \notin Env /\ UNCHANGED <<holder, aged>>
    BY <1>1 DEF LockFails, ConfigFails, Busy, envVars
  <2>. QED  BY <1>1, <2>1 DEF LockFails, ConfigFails
<1>2. CASE Close(r)
  <2>1. \A e \in Env : holder'[e] = IF e = run[r].env THEN NoRunner ELSE holder[e]
    BY <1>2 DEF Close, ReleaseEnv
  <2>. QED  BY <1>2, <2>1 DEF Close, ReleaseEnv
<1>3. CASE CloseFails(r) \/ Crash(r)
  <2>0. holder' = [e \in Env |-> IF holder[e] = r THEN Lost ELSE holder[e]]
    BY <1>3 DEF CloseFails, Crash, Leave
  <2>1. \A e \in Env : holder'[e] = IF holder[e] = r THEN Lost ELSE holder[e]
    BY <2>0
  <2>2. \A e \in Env : holder[e] = r <=> e = run[r].env
    OBVIOUS
  <2>. QED  BY <1>3, <2>1, <2>2 DEF CloseFails, Crash
<1>. QED  BY <1>1, <1>2, <1>3

\* An episode that ends keeps SafeInv.
LEMMA EndSafe ==
  ASSUME Known, SafeInv, NEW r \in Runner,
         LockFails(r) \/ ConfigFails(r) \/ Close(r) \/ CloseFails(r) \/ Crash(r)
  PROVE  SafeInv'
<1>. USE CoordinatorAssumption DEF SafeInv
<1>1. /\ run[r].phase \in {"created", "running", "closing"}
      /\ UNCHANGED <<snapshot, task_to_service_map, active_service_ids>>
      /\ \A q \in Runner \ {r} : track'[q] = track[q]
      /\ \A e \in Env : e # run[r].env => holder'[e] = holder[e]
      /\ \A e \in Env : e = run[r].env => holder'[e] \in {NoRunner, Lost}
      /\ aged' \subseteq aged
      /\ \A e \in aged' : holder[e] # NoRunner => holder'[e] # NoRunner
  BY EndEffect
<1>2. /\ run'[r].phase = "ended" /\ run'[r].env = NoEnv
      /\ \A q \in Runner \ {r} : run'[q] = run[q]
  BY EndEffect, EndedEffect DEF Known
<1>3. \A q \in Runner \ {r} : Busy(q) => run[q].env # run[r].env /\ run[q].env \in Env
  BY OwnEnv DEF Known, LifeInv, KnownEnv
<1>4. EnvHeld'
  BY <1>1, <1>2, <1>3 DEF EnvHeld, Busy
<1>5. SnapshotLost'
  BY <1>1 DEF Known, TypeOK, LifeInv, KnownEnv, EnvHeld, SnapshotLost
<1>6. AgedInv'
  <2>. SUFFICES ASSUME NEW e \in aged'
                PROVE  /\ holder'[e] # NoRunner
                       /\ holder'[e] \in Runner => track'[holder'[e]] = "done"
    BY DEF AgedInv
  <2>1. e \in aged /\ e \in Env
    BY <1>1 DEF Known, TypeOK
  <2>2. holder'[e] \in Runner => holder'[e] = holder[e] /\ holder[e] # r
    BY <1>1, <2>1 DEF Known, HeldInv
  <2>. QED  BY <1>1, <2>1, <2>2 DEF AgedInv
<1>7. InUse'
  BY <1>1, <1>2 DEF InUse, Busy
<1>8. InOrder'
  <2>1. PICK ok \in BOOLEAN : mail' = Append(mail, Result(r, ok))
    BY EndEffect DEF Report
  <2>2. /\ Len(mail) \in Nat /\ Len(mail') = Len(mail) + 1
        /\ \A i \in 1 .. Len(mail) : mail'[i] = mail[i]
        /\ mail'[Len(mail) + 1].kind = "result" /\ mail'[Len(mail) + 1].from = r
    BY <2>1, AppendMail, MessageType DEF Result, Known
  <2>3. \A i \in 1 .. Len(mail') : i \in 1 .. Len(mail) \/ i = Len(mail) + 1
    BY <2>2
  <2>. SUFFICES ASSUME NEW s \in Runner, NEW q \in Runner,
                       Busy(s)', run'[q].phase = "ended", Names(q, run[s].env)'
                PROVE  HeardBefore(q, s)'
    BY DEF InOrder
  <2>4. s # r /\ Busy(s) /\ run'[s] = run[s] /\ run[s].env \in Env
    BY <1>2, <1>3 DEF Busy
  <2>5. Names(q, run[s].env)
    BY <1>1, <2>2, <2>3, <2>4 DEF Names
  <2>6. q # r
    <3>1. ASSUME q = r PROVE FALSE
      <4>1. CASE task_to_service_map[r] = run[s].env
        BY <1>1, <1>3, <2>4, <4>1 DEF Known, LifeInv, Filed
      <4>2. CASE \E i \in 1 .. Len(mail) :
                   mail[i].kind = "id" /\ mail[i].from = r /\ mail[i].env = run[s].env
        BY <1>1, <1>3, <2>4, <4>2 DEF Known, LifeInv, IdSent, KnownEnv, Busy
      <4>. QED  BY <2>5, <3>1, <4>1, <4>2 DEF Names
    <3>. QED  BY <3>1
  <2>7. HeardBefore(q, s)
    BY <1>2, <2>4, <2>5, <2>6 DEF InOrder
  <2>. QED  BY <1>1, <2>2, <2>3, <2>4, <2>6, <2>7 DEF HeardBefore
<1>. QED  BY <1>4, <1>5, <1>6, <1>7, <1>8

\* The other steps of a runner keep SafeInv.
LEMMA ActorSafe ==
  ASSUME Known, SafeInv, NEW r \in Runner, Actor(r)
  PROVE  SafeInv'
<1>. USE CoordinatorAssumption DEF SafeInv
<1>1. CASE Lock(r)
  <2>1. PICK e \in Env :
          /\ holder[e] = NoRunner
          /\ holder' = [holder EXCEPT ![e] = r]
          /\ run' = [run EXCEPT ![r] = [run[r] EXCEPT !.phase = "running", !.env = e]]
    BY <1>1 DEF Lock
  <2>2. /\ run'[r].phase = "running" /\ run'[r].env = e
        /\ \A q \in Runner \ {r} : run'[q] = run[q]
        /\ \A f \in Env : holder'[f] = IF f = e THEN r ELSE holder[f]
    BY <2>1 DEF Known, TypeOK
  <2>3. /\ run[r].phase = "created" /\ ~Busy(r) /\ track[r] = "wait"
        /\ UNCHANGED <<snapshot, track, mail, task_to_service_map, active_service_ids, aged>>
    BY <1>1 DEF Lock, mainVars, bookVars, Known, LifeInv, KnownEnv, Busy
  <2>4. \A i \in 1 .. Len(mail) : mail[i].kind = "id" => mail[i].from # r
    BY <2>3 DEF Known, LifeInv, IdSent
  <2>5. EnvHeld'
    BY <2>1, <2>2, <2>3 DEF EnvHeld, Busy, Known, LifeInv, KnownEnv
  <2>6. SnapshotLost' /\ AgedInv'
    BY <2>1, <2>2, <2>3 DEF SnapshotLost, AgedInv, Known, TypeOK
  <2>7. InUse'
    BY <2>2, <2>3 DEF InUse, Busy
  <2>8. InOrder'
    <3>. SUFFICES ASSUME NEW s \in Runner, NEW q \in Runner,
                         Busy(s)', run'[q].phase = "ended", Names(q, run[s].env)'
                  PROVE  HeardBefore(q, s)'
      BY DEF InOrder
    <3>1. CASE s = r
      BY <2>3, <2>4, <3>1 DEF HeardBefore
    <3>2. CASE s # r
      <4>1. Busy(s) /\ run[q].phase = "ended" /\ Names(q, run[s].env)
        BY <2>2, <2>3, <3>2 DEF Busy, Names
      <4>. QED  BY <2>3, <4>1 DEF InOrder, HeardBefore
    <3>. QED  BY <3>1, <3>2
  <2>. QED  BY <2>5, <2>6, <2>7, <2>8
<1>2. CASE AnswerLost(r)
  <2>1. PICK e \in Env : holder[e] = NoRunner /\ holder' = [holder EXCEPT ![e] = Lost]
    BY <1>2 DEF AnswerLost
  <2>2. /\ UNCHANGED <<snapshot, run, track, mail, task_to_service_map, active_service_ids, aged>>
        /\ \A f \in Env : holder'[f] = IF f = e THEN Lost ELSE holder[f]
    BY <1>2, <2>1 DEF AnswerLost, mainVars, bookVars, Known, TypeOK
  <2>3. EnvHeld' /\ SnapshotLost' /\ AgedInv'
    BY <2>1, <2>2 DEF EnvHeld, SnapshotLost, AgedInv, Busy, Known, TypeOK, LifeInv, KnownEnv
  <2>4. InUse' /\ InOrder'
    BY <2>2 DEF InUse, InOrder, HeardBefore, Names, Busy
  <2>. QED  BY <2>3, <2>4
<1>3. CASE LockFails(r) \/ ConfigFails(r) \/ Close(r) \/ CloseFails(r) \/ Crash(r)
  BY <1>3, EndSafe
<1>4. CASE AnswerId(r)
  <2>1. /\ track[r] = "wait"
        /\ UNCHANGED <<snapshot, run, task_to_service_map, active_service_ids, holder, aged>>
        /\ track'[r] = "sent" /\ \A q \in Runner \ {r} : track'[q] = track[q]
    BY <1>4 DEF AnswerId, mainVars, bookVars, envVars, Known, TypeOK
  <2>2. run[r].env \in Env \cup {NoEnv}
    BY DEF Known, TypeOK
  <2>3. /\ Len(mail) \in Nat /\ Len(mail') = Len(mail) + 1
        /\ \A i \in 1 .. Len(mail) : mail'[i] = mail[i]
        /\ mail'[Len(mail) + 1].kind = "id" /\ mail'[Len(mail) + 1].from = r
        /\ mail'[Len(mail) + 1].env = run[r].env
    BY <1>4, <2>2, AppendMail, MessageType DEF AnswerId, Id, Known
  <2>4. \A i \in 1 .. Len(mail') : i \in 1 .. Len(mail) \/ i = Len(mail) + 1
    BY <2>3
  <2>5. EnvHeld' /\ SnapshotLost' /\ AgedInv' /\ InUse'
    BY <2>1 DEF EnvHeld, SnapshotLost, AgedInv, InUse, Busy
  <2>6. InOrder'
    <3>. SUFFICES ASSUME NEW s \in Runner, NEW q \in Runner,
                         Busy(s)', run'[q].phase = "ended", Names(q, run[s].env)'
                  PROVE  HeardBefore(q, s)'
      BY DEF InOrder
    <3>1. Busy(s) /\ run[q].phase = "ended" /\ run[s].env \in Env
      BY <2>1 DEF Busy, Known, LifeInv, KnownEnv
    <3>2. q = r => run[r].env \notin Env
      BY <3>1 DEF Busy, Known, LifeInv, KnownEnv
    <3>3. Names(q, run[s].env)
      BY <2>1, <2>3, <2>4, <3>1, <3>2 DEF Names
    <3>4. HeardBefore(q, s)
      BY <3>1, <3>3 DEF InOrder
    <3>. QED  BY <2>1, <2>3, <2>4, <3>4 DEF HeardBefore
  <2>. QED  BY <2>5, <2>6
<1>5. CASE Finish(r) \/ Abort(r)
  <2>1. /\ UNCHANGED <<snapshot, track, mail, task_to_service_map, active_service_ids, holder, aged>>
        /\ run[r].phase = "running"
        /\ run'[r].phase = "closing" /\ run'[r].env = run[r].env
        /\ \A q \in Runner \ {r} : run'[q] = run[q]
    BY <1>5 DEF Finish, Abort, mainVars, bookVars, envVars, Known, TypeOK
  <2>2. /\ \A q \in Runner : run'[q].env = run[q].env /\ (Busy(q)' <=> Busy(q))
        /\ \A q \in Runner : run'[q].phase = "ended" <=> run[q].phase = "ended"
    BY <2>1 DEF Busy
  <2>3. EnvHeld' /\ SnapshotLost' /\ AgedInv' /\ InUse'
    BY <2>1, <2>2 DEF EnvHeld, SnapshotLost, AgedInv, InUse
  <2>4. InOrder'
    <3>. SUFFICES ASSUME NEW s \in Runner, NEW q \in Runner,
                         Busy(s)', run'[q].phase = "ended", Names(q, run[s].env)'
                  PROVE  HeardBefore(q, s)'
      BY DEF InOrder
    <3>1. Busy(s) /\ run[q].phase = "ended" /\ Names(q, run[s].env)
      BY <2>1, <2>2 DEF Names
    <3>. QED  BY <2>1, <3>1 DEF InOrder, HeardBefore
  <2>. QED  BY <2>3, <2>4
<1>. QED
  BY <1>1, <1>2, <1>3, <1>4, <1>5 DEF Actor

\* With reports in order, handling one keeps SafeInv.
LEMMA CallbackSafe ==
  ASSUME ~Overtaking, Known, SafeInv, NEW i \in 1 .. Len(mail), Complete(i) \/ Register(i)
  PROVE  SafeInv'
<1>. DEFINE q == mail[i].from
<1>. USE CoordinatorAssumption DEF SafeInv
<1>1. /\ Len(mail') \in Nat
      /\ \A j \in 1 .. Len(mail') :
           Before(i, j) \in 1 .. Len(mail) /\ Before(i, j) # i /\ mail'[j] = mail[Before(i, j)]
      /\ \A j, k \in 1 .. Len(mail') : Before(i, j) < Before(i, k) <=> j < k
  BY TakenMail DEF Complete, Register, Known
<1>2. q \in Runner /\ mail[i].env \in Env \cup {NoEnv}
  BY MailType DEF Known
<1>3. i = 1
  BY DEF Complete, Register, Arrived
<1>4. UNCHANGED <<snapshot, holder, aged>>
  BY DEF Complete, Register, mainVars, envVars
<1>5. ASSUME NEW s \in Runner, NEW p \in Runner, HeardBefore(p, s), track'[s] # "done"
      PROVE  HeardBefore(p, s)'
  BY <1>1, <1>5 DEF HeardBefore
<1>6. CASE Complete(i)
  <2>1. /\ mail[i].kind = "result" /\ run[q].phase = "ended"
        /\ run'[q].phase = "none" /\ run'[q].env = NoEnv
        /\ \A r \in Runner \ {q} : run'[r] = run[r]
    BY <1>2, <1>6 DEF Complete, Idle, TypeOK, ResultEnded, Known, LifeInv
  <2>2. /\ track'[q] \in {track[q], "done"}
        /\ \A r \in Runner \ {q} : track'[r] = track[r]
    BY <1>2, <1>6 DEF Complete, Known, TypeOK
  <2>3. /\ task_to_service_map'[q] = NoEnv
        /\ \A r \in Runner \ {q} : task_to_service_map'[r] = task_to_service_map[r]
        /\ active_service_ids' = active_service_ids \ {task_to_service_map[q]}
    BY <1>2, <1>6 DEF Complete, Forget, Known, TypeOK
  <2>4. EnvHeld' /\ SnapshotLost' /\ AgedInv'
    BY <1>4, <2>1, <2>2 DEF EnvHeld, SnapshotLost, AgedInv, Busy, Known, HeldInv, TypeOK
  <2>5. InUse'
    <3>. SUFFICES ASSUME NEW s \in Runner, Busy(s)', track'[s] = "done"
                  PROVE  run'[s].env \in active_service_ids'
      BY DEF InUse
    <3>1. s # q /\ Busy(s) /\ track[s] = "done" /\ run'[s] = run[s]
      BY <2>1, <2>2 DEF Busy
    <3>2. ~Names(q, run[s].env)
      BY <2>1, <1>2, <3>1 DEF InOrder, HeardBefore
    <3>. QED  BY <2>3, <3>1, <3>2 DEF Names, InUse
  <2>6. InOrder'
    <3>. SUFFICES ASSUME NEW s \in Runner, NEW p \in Runner,
                         Busy(s)', run'[p].phase = "ended", Names(p, run[s].env)'
                  PROVE  HeardBefore(p, s)'
      BY DEF InOrder
    <3>1. s # q /\ p # q /\ Busy(s) /\ run[p].phase = "ended"
      BY <2>1 DEF Busy
    <3>2. Names(p, run[s].env)
      BY <1>1, <2>1, <2>3, <3>1 DEF Names
    <3>3. HeardBefore(p, s) /\ track'[s] # "done"
      BY <2>2, <3>1, <3>2 DEF InOrder, HeardBefore
    <3>. QED  BY <1>5, <3>3
  <2>. QED  BY <2>4, <2>5, <2>6
<1>7. CASE Register(i)
  <2>1. /\ mail[i].kind = "id" /\ UNCHANGED run
        /\ track[q] = "sent"
        /\ Busy(q) => mail[i].env = run[q].env
    BY <1>7 DEF Register, IdSent, Known, LifeInv
  <2>2. /\ track'[q] = "done" /\ \A r \in Runner \ {q} : track'[r] = track[r]
    BY <1>2, <1>7 DEF Register, Known, TypeOK
  <2>3. /\ \A r \in Runner \ {q} : task_to_service_map'[r] = task_to_service_map[r]
        /\ task_to_service_map'[q] \in {task_to_service_map[q], mail[i].env}
    BY <1>2, <1>7 DEF Register, Record, Known, TypeOK, bookVars
  <2>4. /\ active_service_ids \subseteq active_service_ids'
        /\ mail[i].env # NoEnv => mail[i].env \in active_service_ids'
    BY <1>7 DEF Register, Record, bookVars
  <2>5. EnvHeld' /\ SnapshotLost'
    BY <1>4, <2>1 DEF EnvHeld, SnapshotLost, Busy
  <2>6. AgedInv'
    BY <1>2, <1>4, <2>2 DEF AgedInv, Known, TypeOK
  <2>7. InUse'
    <3>. SUFFICES ASSUME NEW s \in Runner, Busy(s), track'[s] = "done"
                  PROVE  run[s].env \in active_service_ids'
      BY <2>1 DEF InUse, Busy
    <3>1. run[s].env \in Env
      BY DEF Known, LifeInv, KnownEnv
    <3>. QED  BY <1>2, <2>1, <2>2, <2>4, <3>1 DEF InUse
  <2>8. InOrder'
    <3>. SUFFICES ASSUME NEW s \in Runner, NEW p \in Runner,
                         Busy(s)', run'[p].phase = "ended", Names(p, run[s].env)'
                  PROVE  HeardBefore(p, s)'
      BY DEF InOrder
    <3>1. Busy(s) /\ run[p].phase = "ended"
      BY <2>1 DEF Busy
    <3>2. Names(p, run[s].env)
      <4>1. CASE task_to_service_map'[p] = run[s].env
        <5>1. task_to_service_map[p] = run[s].env \/ (p = q /\ mail[i].env = run[s].env)
          BY <2>3, <4>1
        <5>. QED  BY <2>1, <5>1 DEF Names
      <4>2. CASE \E j \in 1 .. Len(mail') :
                   mail'[j].kind = "id" /\ mail'[j].from = p /\ mail'[j].env = run[s].env
        BY <1>1, <4>2 DEF Names
      <4>. QED  BY <2>1, <4>1, <4>2 DEF Names
    <3>3. HeardBefore(p, s)
      BY <3>1, <3>2 DEF InOrder
    <3>4. PICK j \in 1 .. Len(mail) : mail[j].kind = "result" /\ mail[j].from = p
      BY <3>1 DEF Known, LifeInv, ResultEnded
    <3>5. s # q
      <4>1. s = q => j < i
        BY <2>1, <3>3, <3>4 DEF HeardBefore
      <4>. QED  BY <1>3, <4>1
    <3>6. track'[s] # "done"
      BY <2>2, <3>3, <3>5 DEF HeardBefore
    <3>. QED  BY <1>5, <3>3, <3>6
  <2>. QED  BY <2>5, <2>6, <2>7, <2>8
<1>. QED  BY <1>6, <1>7

\* What the cleaner lists is lost: what a runner holds is young or in use.
LEMMA OrphansLost ==
  ASSUME Known, SafeInv
  PROVE  \A e \in Orphans : holder[e] = Lost
<1>. SUFFICES ASSUME NEW e \in Env, e \in aged, holder[e] # NoRunner,
                     e \notin active_service_ids
              PROVE  holder[e] = Lost
  BY DEF Orphans, Known, TypeOK
<1>1. CASE holder[e] \in Runner
  <2>1. Busy(holder[e]) /\ run[holder[e]].env = e
    BY <1>1 DEF Known, LifeInv, KnownEnv, HeldInv
  <2>2. track[holder[e]] = "done"
    BY <1>1 DEF SafeInv, AgedInv
  <2>. QED  BY <1>1, <2>1, <2>2 DEF SafeInv, InUse
<1>. QED  BY <1>1 DEF Known, TypeOK

\* With reports in order, every step keeps SafeInv.
LEMMA StepSafe ==
  ASSUME ~Overtaking
  PROVE  Known /\ SafeInv /\ [Next]_vars => SafeInv'
<1>. SUFFICES ASSUME Known, SafeInv, [Next]_vars PROVE SafeInv'
  OBVIOUS
<1>. USE CoordinatorAssumption DEF SafeInv
<1>1. CASE UNCHANGED <<run, track, mail, task_to_service_map, active_service_ids, holder, aged>>
           /\ (snapshot' = snapshot \/ snapshot' = Orphans)
  <2>1. SnapshotLost'
    BY <1>1, OrphansLost DEF SnapshotLost
  <2>2. EnvHeld' /\ AgedInv' /\ InUse' /\ InOrder'
    BY <1>1 DEF EnvHeld, AgedInv, InUse, InOrder, HeardBefore, Names, Busy
  <2>. QED  BY <2>1, <2>2
<1>2. CASE \E e \in Env : ReleaseOrphan(e)
  <2>1. PICK e \in Env : ReleaseOrphan(e)
    BY <1>2
  <2>2. holder[e] = Lost /\ snapshot' = snapshot \ {e}
    BY <2>1 DEF ReleaseOrphan, SnapshotLost
  <2>3. UNCHANGED <<run, track, mail, active_service_ids>>
    BY <2>1 DEF ReleaseOrphan
  <2>4. /\ \A f \in Env \ {e} : holder'[f] = holder[f]
        /\ aged' \subseteq aged
        /\ e \in aged' => holder'[e] = Lost
        /\ holder'[e] \in {Lost, NoRunner}
    BY <2>1, <2>2 DEF ReleaseOrphan, Known, TypeOK
  <2>5. \A r \in Runner : task_to_service_map'[r] \in {task_to_service_map[r], NoEnv}
    BY <2>1 DEF ReleaseOrphan, Known, TypeOK
  <2>6. EnvHeld' /\ SnapshotLost' /\ AgedInv' /\ InUse'
    BY <2>2, <2>3, <2>4
       DEF EnvHeld, SnapshotLost, AgedInv, InUse, Busy, Known, TypeOK, LifeInv, KnownEnv
  <2>7. InOrder'
    <3>. SUFFICES ASSUME NEW s \in Runner, NEW q \in Runner,
                         Busy(s), run[q].phase = "ended", Names(q, run[s].env)'
                  PROVE  HeardBefore(q, s)'
      BY <2>3 DEF InOrder, Busy
    <3>1. run[s].env # NoEnv
      BY DEF Known, LifeInv, KnownEnv
    <3>2. Names(q, run[s].env)
      BY <2>3, <2>5, <3>1 DEF Names
    <3>. QED  BY <2>3, <3>2 DEF InOrder, HeardBefore
  <2>. QED  BY <2>6, <2>7
<1>3. CASE \E r \in Runner : Start(r)
  <2>1. PICK r \in Runner : Start(r)
    BY <1>3
  <2>2. /\ run[r].phase = "none" /\ run'[r].phase = "created" /\ track'[r] = "wait"
        /\ \A q \in Runner \ {r} : run'[q] = run[q] /\ track'[q] = track[q]
        /\ UNCHANGED <<snapshot, mail, task_to_service_map, active_service_ids, holder, aged>>
    BY <2>1 DEF Start, bookVars, envVars, Known, TypeOK
  <2>3. \A e \in Env : holder[e] # r
    BY <2>2 DEF Known, HeldInv, LifeInv, KnownEnv, Busy
  <2>4. EnvHeld' /\ SnapshotLost' /\ AgedInv' /\ InUse'
    BY <2>2, <2>3 DEF EnvHeld, SnapshotLost, AgedInv, InUse, Busy, Known, TypeOK
  <2>5. InOrder'
    <3>. SUFFICES ASSUME NEW s \in Runner, NEW q \in Runner,
                         Busy(s)', run'[q].phase = "ended", Names(q, run[s].env)'
                  PROVE  HeardBefore(q, s)'
      BY DEF InOrder
    <3>1. s # r /\ Busy(s) /\ run[q].phase = "ended" /\ Names(q, run[s].env)
      BY <2>2 DEF Busy, Names
    <3>. QED  BY <2>2, <3>1 DEF InOrder, HeardBefore
  <2>. QED  BY <2>4, <2>5
<1>4. CASE Main
  BY <1>1, <1>2, <1>3, <1>4 DEF Main, Clean, SkipCleaning, Cleaned, Fill, SkipFill,
     LoadFails, StartFails, StartDone, Wake, bookVars, envVars
<1>5. CASE Callback
  BY <1>5, CallbackSafe DEF Callback
<1>6. CASE \E r \in Runner : Actor(r)
  BY <1>6, ActorSafe
<1>7. CASE \E e \in Env : Age(e)
  <2>1. PICK e \in Env : Age(e)
    BY <1>7
  <2>2. UNCHANGED <<snapshot, run, track, mail, task_to_service_map, active_service_ids, holder>>
    BY <2>1 DEF Age, mainVars, bookVars
  <2>3. AgedInv'
    BY <2>1, <2>2 DEF Age, AgedInv
  <2>4. EnvHeld' /\ SnapshotLost' /\ InUse' /\ InOrder'
    BY <2>2 DEF EnvHeld, SnapshotLost, InUse, InOrder, HeardBefore, Names, Busy
  <2>. QED  BY <2>3, <2>4
<1>8. CASE Restart
  <2>1. /\ snapshot' = {}
        /\ \A r \in Runner : run'[r].phase = "none"
        /\ \A e \in aged' : e \in Env /\ holder'[e] = Lost
    BY <1>8 DEF Restart, Idle, Known, TypeOK
  <2>. QED
    BY <2>1 DEF EnvHeld, SnapshotLost, AgedInv, InUse, InOrder, Busy
<1>9. CASE UNCHANGED vars
  BY <1>1, <1>9 DEF vars, mainVars, bookVars, envVars
<1>. QED
  BY <1>4, <1>5, <1>6, <1>7, <1>8, <1>9 DEF Next, Over

\* All of it holds always, as long as reports of different runners are handled
\* in the order they are sent.
LEMMA AlwaysSafe == ~Overtaking => (Spec => [](Known /\ SafeInv))
<1>. SUFFICES ASSUME ~Overtaking
              PROVE  Spec => [](Known /\ SafeInv)
  OBVIOUS
<1>1. Init => Known /\ SafeInv
  BY InitTypeOK, InitLife, InitHeld, InitSafe DEF Known
<1>2. Known /\ [Next]_vars => Known'
  BY StepTypeOK, StepLife, StepHeld DEF Known
<1>3. Known /\ SafeInv /\ [Next]_vars => (Known /\ SafeInv)'
  BY <1>2, StepSafe
<1>. QED
  BY <1>1, <1>3, PTL DEF Spec

\* No two episodes ever share a desktop: whatever crashes, leaks or is
\* restarted, an environment stays locked by the runner that uses it, if the
\* coordinator hears of its runners in order (trajectory_runner.py:102-249).
THEOREM DesktopsNotShared == ~Overtaking => (Spec => []EnvHeld)
<1>. SUFFICES ASSUME ~Overtaking PROVE Spec => []EnvHeld
  OBVIOUS
<1>1. Known /\ SafeInv => EnvHeld
  BY DEF SafeInv
<1>. QED  BY <1>1, AlwaysSafe, PTL

\* Under the same condition the cleaner releases no environment that an episode
\* uses, however old its list (agent_coordinator.py:83-230).
THEOREM CleanerSparesEpisodes == ~Overtaking => (Spec => CleanupOnlyOrphans)
<1>. SUFFICES ASSUME ~Overtaking PROVE Spec => CleanupOnlyOrphans
  OBVIOUS
<1>. DEFINE Spares == \A e \in Env : ReleaseOrphan(e) => holder[e] \notin Runner
<1>1. Known /\ SafeInv => Spares
  BY CoordinatorAssumption DEF SafeInv, SnapshotLost, ReleaseOrphan
<1>2. Known /\ SafeInv /\ [Next]_vars => [Spares]_vars
  BY <1>1
<1>. HIDE DEF Spares
<1>3. Spec => [][Spares]_vars
  BY <1>2, AlwaysSafe, PTL DEF Spec
<1>. QED  BY <1>3 DEF CleanupOnlyOrphans, Spares

-----------------------------------------------------------------------------
(* The rollout side implements EnvLease.                                   *)

\* Only what a runner and the server say of each other matters to the leases.
LEMMA SameLeases ==
  ASSUME UNCHANGED <<run, holder>>
  PROVE  UNCHANGED Leases!leaseVars
BY DEF Leases!leaseVars, LeaseOf, LostEnvs, Busy

\* What is leased is locked by the runner that uses it, and the other way round.
LEMMA LeasedEnvs ==
  ASSUME Known, EnvHeld
  PROVE  /\ \A r \in Runner : LeaseOf[r] = IF Busy(r) THEN run[r].env ELSE NoEnv
         /\ \A r \in Runner : Busy(r) => run[r].env \in Env /\ run[r].env # NoEnv
         /\ Leases!Leased = {e \in Env : holder[e] \in Runner}
<1>1. \A r \in Runner : LeaseOf[r] = IF Busy(r) THEN run[r].env ELSE NoEnv
  BY DEF LeaseOf
<1>2. \A r \in Runner : Busy(r) => run[r].env \in Env /\ run[r].env # NoEnv
  BY CoordinatorAssumption DEF Known, LifeInv, KnownEnv
<1>3. ASSUME NEW e, e \in Leases!Leased PROVE e \in Env /\ holder[e] \in Runner
  <2>1. PICK r \in Runner : e = LeaseOf[r] /\ e # NoEnv
    BY <1>3 DEF Leases!Leased
  <2>2. Busy(r) /\ e = run[r].env
    BY <1>1, <2>1
  <2>. QED  BY <1>2, <2>2 DEF EnvHeld
<1>4. ASSUME NEW e \in Env, holder[e] \in Runner PROVE e \in Leases!Leased
  <2>1. run[holder[e]].env = e /\ e # NoEnv
    BY <1>4, CoordinatorAssumption DEF Known, HeldInv
  <2>2. Busy(holder[e])
    BY <1>4, <2>1 DEF Known, LifeInv, KnownEnv
  <2>3. LeaseOf[holder[e]] = e
    BY <1>1, <1>4, <2>1, <2>2
  <2>. QED  BY <1>4, <2>1, <2>3 DEF Leases!Leased
<1>. QED  BY <1>1, <1>2, <1>3, <1>4

\* A step of one runner changes one lease.
LEMMA OneLease ==
  ASSUME NEW r \in Runner, \A q \in Runner \ {r} : run'[q] = run[q]
  PROVE  LeaseOf' = [LeaseOf EXCEPT ![r] = IF Busy(r)' THEN run'[r].env ELSE NoEnv]
BY DEF LeaseOf, Busy

\* The end of an episode, in whatever way, is the end of its lease and of no other.
LEMMA EndLease ==
  ASSUME Known, EnvHeld, NEW r \in Runner,
         LockFails(r) \/ ConfigFails(r) \/ Close(r) \/ CloseFails(r) \/ Crash(r)
  PROVE  [Leases!Next]_(Leases!leaseVars)
<1>1. /\ \A e \in Env : e # run[r].env => holder'[e] = holder[e]
      /\ \A e \in Env : e = run[r].env => holder'[e] \in {NoRunner, Lost}
  BY EndEffect
<1>2. /\ run'[r].phase = "ended"
      /\ \A q \in Runner \ {r} : run'[q] = run[q]
  BY EndEffect, EndedEffect DEF Known
<1>3. LeaseOf' = [LeaseOf EXCEPT ![r] = NoEnv]
  BY <1>2, OneLease DEF Busy
<1>4. LeaseOf \in [Runner -> Env \cup {NoEnv}]
  BY DEF LeaseOf, Known, TypeOK
<1>5. CASE Busy(r)
  <2>1. LeaseOf[r] = run[r].env /\ run[r].env \in Env /\ run[r].env # NoEnv
    BY <1>5, LeasedEnvs
  <2>2. holder[run[r].env] = r /\ r # Lost
    BY <1>5, CoordinatorAssumption DEF EnvHeld
  <2>3. LostEnvs' \in {LostEnvs, LostEnvs \cup {run[r].env}}
    BY <1>1, <2>1, <2>2 DEF LostEnvs
  <2>4. Leases!End(r)
    BY <1>3, <2>1, <2>3 DEF Leases!End
  <2>. QED  BY <2>4 DEF Leases!Next
<1>6. CASE ~Busy(r)
  <2>1. run[r].env \notin Env
    BY <1>6, CoordinatorAssumption DEF Known, LifeInv, KnownEnv
  <2>2. LostEnvs' = LostEnvs
    BY <1>1, <2>1 DEF LostEnvs
  <2>3. LeaseOf[r] = NoEnv
    BY <1>6 DEF LeaseOf
  <2>4. LeaseOf' = LeaseOf
    BY <1>3, <1>4, <2>3
  <2>. QED  BY <2>2, <2>4 DEF Leases!leaseVars
<1>. QED  BY <1>5, <1>6

\* The other steps of a runner.
LEMMA ActorLease ==
  ASSUME Known, EnvHeld, NEW r \in Runner, Actor(r)
  PROVE  [Leases!Next]_(Leases!leaseVars)
<1>. USE CoordinatorAssumption
<1>1. CASE Lock(r)
  <2>1. PICK e \in Env :
          /\ holder[e] = NoRunner
          /\ holder' = [holder EXCEPT ![e] = r]
          /\ run' = [run EXCEPT ![r] = [run[r] EXCEPT !.phase = "running", !.env = e]]
    BY <1>1 DEF Lock
  <2>2. /\ run'[r].phase = "running" /\ run'[r].env = e
        /\ \A q \in Runner \ {r} : run'[q] = run[q]
    BY <2>1 DEF Known, TypeOK
  <2>3. LeaseOf' = [LeaseOf EXCEPT ![r] = e]
    BY <2>2, OneLease DEF Busy
  <2>4. \A f \in Env : holder'[f] = IF f = e THEN r ELSE holder[f]
    BY <2>1 DEF Known, TypeOK
  <2>5. LostEnvs' = LostEnvs
    BY <2>1, <2>4 DEF LostEnvs
  <2>6. e \notin Leases!Leased \cup LostEnvs
    BY <2>1, LeasedEnvs DEF LostEnvs
  <2>7. LeaseOf[r] = NoEnv
    BY <1>1, LeasedEnvs DEF Lock, Busy
  <2>8. Leases!Grant(r, e)
    BY <2>3, <2>5, <2>6, <2>7 DEF Leases!Grant
  <2>. QED  BY <2>8 DEF Leases!Next
<1>2. CASE AnswerLost(r)
  <2>1. PICK e \in Env : holder[e] = NoRunner /\ holder' = [holder EXCEPT ![e] = Lost]
    BY <1>2 DEF AnswerLost
  <2>2. \A f \in Env : holder'[f] = IF f = e THEN Lost ELSE holder[f]
    BY <2>1 DEF Known, TypeOK
  <2>3. LostEnvs' = LostEnvs \cup {e}
    BY <2>2 DEF LostEnvs
  <2>4. e \notin Leases!Leased \cup LostEnvs
    BY <2>1, LeasedEnvs DEF LostEnvs
  <2>5. LeaseOf' = LeaseOf
    BY <1>2 DEF AnswerLost, LeaseOf, Busy
  <2>6. Leases!Mislay(e)
    BY <2>3, <2>4, <2>5 DEF Leases!Mislay
  <2>. QED  BY <2>6 DEF Leases!Next
<1>3. CASE AnswerId(r)
  BY <1>3, SameLeases DEF AnswerId, envVars
<1>4. CASE Finish(r) \/ Abort(r)
  <2>1. /\ Busy(r) /\ run'[r].phase = "closing" /\ run'[r].env = run[r].env
        /\ \A q \in Runner \ {r} : run'[q] = run[q]
        /\ holder' = holder
    BY <1>4 DEF Finish, Abort, Busy, envVars, Known, TypeOK
  <2>2. LeaseOf' = LeaseOf /\ LostEnvs' = LostEnvs
    BY <2>1 DEF LeaseOf, LostEnvs, Busy
  <2>. QED  BY <2>2 DEF Leases!leaseVars
<1>5. CASE LockFails(r) \/ ConfigFails(r) \/ Close(r) \/ CloseFails(r) \/ Crash(r)
  BY <1>5, EndLease
<1>. QED  BY <1>1, <1>2, <1>3, <1>4, <1>5 DEF Actor

\* Every step of the rollout side is one of EnvLease, or none.
LEMMA LeaseStep ==
  Known /\ SafeInv /\ [Next]_vars => [Leases!Next]_(Leases!leaseVars)
<1>. SUFFICES ASSUME Known, SafeInv, [Next]_vars
              PROVE  [Leases!Next]_(Leases!leaseVars)
  OBVIOUS
<1>0. EnvHeld
  BY DEF SafeInv
<1>1. CASE UNCHANGED <<run, holder>>
  BY <1>1, SameLeases
<1>2. CASE \E e \in Env : ReleaseOrphan(e)
  <2>1. PICK e \in Env : ReleaseOrphan(e)
    BY <1>2
  <2>2. e \in LostEnvs
    BY <2>1 DEF ReleaseOrphan, SafeInv, SnapshotLost, LostEnvs
  <2>3. LeaseOf' = LeaseOf
    BY <2>1 DEF ReleaseOrphan, LeaseOf, Busy
  <2>4. CASE holder' = [holder EXCEPT ![e] = NoRunner]
    <3>1. \A f \in Env : holder'[f] = IF f = e THEN NoRunner ELSE holder[f]
      BY <2>4 DEF Known, TypeOK
    <3>2. LostEnvs' = LostEnvs \ {e}
      BY <3>1, CoordinatorAssumption DEF LostEnvs
    <3>3. Leases!Reclaim(e)
      BY <2>2, <2>3, <3>2 DEF Leases!Reclaim
    <3>. QED  BY <3>3 DEF Leases!Next
  <2>5. CASE holder' = holder
    BY <2>3, <2>5 DEF LostEnvs, Leases!leaseVars
  <2>. QED  BY <2>1, <2>4, <2>5 DEF ReleaseOrphan
<1>3. CASE \E r \in Runner : Start(r)
  <2>1. PICK r \in Runner : Start(r)
    BY <1>3
  <2>2. /\ run[r].phase = "none" /\ run'[r].phase = "created"
        /\ \A q \in Runner \ {r} : run'[q] = run[q]
        /\ holder' = holder
    BY <2>1 DEF Start, envVars, Known, TypeOK
  <2>3. LeaseOf' = LeaseOf /\ LostEnvs' = LostEnvs
    BY <2>2 DEF LeaseOf, LostEnvs, Busy
  <2>. QED  BY <2>3 DEF Leases!leaseVars
<1>4. CASE Main
  BY <1>1, <1>2, <1>3, <1>4 DEF Main, Clean, SkipCleaning, Cleaned, Fill, SkipFill,
     LoadFails, StartFails, StartDone, Wake, envVars
<1>5. CASE Callback
  <2>1. PICK i \in 1 .. Len(mail) : Complete(i) \/ Register(i)
    BY <1>5 DEF Callback
  <2>2. CASE Register(i)
    BY <2>2, SameLeases DEF Register, envVars
  <2>3. CASE Complete(i)
    <3>. DEFINE r == mail[i].from
    <3>1. mail[i].kind = "result" /\ run' = [run EXCEPT ![r] = Idle] /\ holder' = holder
      BY <2>3 DEF Complete, envVars
    <3>2. r \in Runner /\ run[r].phase = "ended"
      BY <3>1, MailType DEF Known, LifeInv, ResultEnded
    <3>. HIDE DEF r
    <3>3. run'[r].phase = "none" /\ \A q \in Runner \ {r} : run'[q] = run[q]
      BY <3>1, <3>2 DEF Idle, Known, TypeOK
    <3>4. LeaseOf' = LeaseOf /\ LostEnvs' = LostEnvs
      BY <3>1, <3>2, <3>3 DEF LeaseOf, LostEnvs, Busy
    <3>. QED  BY <3>4 DEF Leases!leaseVars
  <2>. QED  BY <2>1, <2>2, <2>3
<1>6. CASE \E r \in Runner : Actor(r)
  BY <1>0, <1>6, ActorLease
<1>7. CASE \E e \in Env : Age(e)
  BY <1>7, SameLeases DEF Age
<1>8. CASE Restart
  <2>1. LeaseOf' = Leases!Nobody
    BY <1>8 DEF Restart, LeaseOf, Busy, Idle, Leases!Nobody
  <2>2. PICK kept \in SUBSET {e \in Env : holder[e] # NoRunner} :
          holder' = [e \in Env |-> IF e \in kept THEN Lost ELSE NoRunner]
    BY <1>8 DEF Restart
  <2>3. LostEnvs' \subseteq kept
    BY <2>2, CoordinatorAssumption DEF LostEnvs
  <2>4. \A e \in kept : e \in LostEnvs \cup Leases!Leased
    BY <1>0, <2>2, LeasedEnvs DEF LostEnvs, Known, TypeOK
  <2>5. Leases!EndAll
    BY <2>1, <2>3, <2>4 DEF Leases!EndAll
  <2>. QED  BY <2>5 DEF Leases!Next
<1>9. CASE UNCHANGED vars
  BY <1>9, SameLeases DEF vars, envVars
<1>. QED
  BY <1>4, <1>5, <1>6, <1>7, <1>8, <1>9 DEF Next, Over

\* The rollout side implements the leases: under every fault and any number of restarts a
\* desktop is handed from episode to episode, and a lock that nobody will give back is
\* freed by the cleaner or a restart alone, if the coordinator hears of its runners in
\* order (trajectory_runner.py:102-249, agent_coordinator.py:83-230).
THEOREM RolloutImplementsLeases == ~Overtaking => (Spec => LeasesKept)
<1>. SUFFICES ASSUME ~Overtaking PROVE Spec => LeasesKept
  OBVIOUS
<1>1. Init => Leases!Init
  BY CoordinatorAssumption
     DEF Init, Idle, Busy, LeaseOf, LostEnvs, Leases!Init, Leases!Nobody
<1>. QED
  BY <1>1, AlwaysSafe, LeaseStep, PTL DEF Spec, LeasesKept, Leases!Spec
=============================================================================
