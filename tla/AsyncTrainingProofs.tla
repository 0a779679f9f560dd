------------------------- MODULE AsyncTrainingProofs -------------------------
(***************************************************************************)
(* Theorems about AsyncTraining, for every number of workers, tasks and    *)
(* rows and every setting of the dataset and the trainer.                  *)
(***************************************************************************)
EXTENDS AsyncTraining, SequenceTheorems, FiniteSetTheorems, WellFoundedInduction, TLAPS

-----------------------------------------------------------------------------
(* The filter.                                                             *)

\* A repaired group holds rows of the table, and its failures are unused rows of the
\* window: the rows that the repair brings in are successes.
LEMMA RepairedRows ==
  ASSUME NEW rows, NEW mvs, NEW t, NEW i \in Repaired(rows, mvs, t)
  PROVE  /\ i \in DOMAIN rows
         /\ i \notin Positive(rows) => i \in Base(rows, mvs)
BY DEF Repaired, Group, Base, Positive, Newest

\* Trimming only leaves rows out.
LEMMA TrimmedSubset ==
  ASSUME NEW rows, NEW g, NEW s \in Trimmed(rows, g)
  PROVE  s \subseteq g
BY DEF Trimmed

\* What a selection consists of.
LEMMA SelectionRows ==
  ASSUME NEW rows, NEW mvs, NEW sel \in filter_fn(rows, mvs),
         NEW t \in DOMAIN sel, NEW i \in sel[t]
  PROVE  /\ i \in DOMAIN rows
         /\ i \notin Positive(rows) => i \in Base(rows, mvs)
<1>1. /\ DOMAIN sel = Trainable(rows, mvs)
      /\ sel[t] \in Trimmed(rows, Repaired(rows, mvs, t))
  BY DEF filter_fn
<1>2. i \in Repaired(rows, mvs, t)
  BY <1>1, TrimmedSubset
<1>. QED  BY <1>2, RepairedRows

\* The tasks of a selection are tasks of rows.
LEMMA SelectionTasks ==
  ASSUME NEW rows, NEW mvs, NEW sel \in filter_fn(rows, mvs), NEW t \in DOMAIN sel
  PROVE  \E i \in DOMAIN rows : t = rows[i].task_id
BY DEF filter_fn, Trainable, Eligible, TasksOf, Base

\* Of finite sets some is the smallest: none of the others is a part of it.
LEMMA SmallestOf ==
  ASSUME NEW T, T # {}, \A s \in T : IsFiniteSet(s)
  PROVE  \E s \in T : \A r \in T : r \subseteq s => r = s
<1>. DEFINE U == UNION T
<1>1. T \subseteq FiniteSubsetsOf(U)
  BY DEF FiniteSubsetsOf
<1>2. IsWellFoundedOn(StrictSubsetOrdering(U), FiniteSubsetsOf(U))
  BY FS_StrictSubsetOrderingWellFounded
<1>3. PICK s \in T : \A r \in T : ~ (<<r, s>> \in StrictSubsetOrdering(U))
  BY <1>1, <1>2, WFMin
<1>. QED  BY <1>3 DEF StrictSubsetOrdering

\* Among any rows of a table there is an oldest one.
LEMMA OldestIsOne ==
  ASSUME NEW n \in Nat, NEW S \in SUBSET (1 .. n), S # {}
  PROVE  \E i \in S : Oldest(S) = {i}
<1>. DEFINE upTo(i) == {j \in S : j <= i}
            T == {upTo(i) : i \in S}
<1>1. T # {} /\ \A s \in T : IsFiniteSet(s)
  <2>1. IsFiniteSet(S)
    <3>1. IsFiniteSet(1 .. n)
      BY FS_Interval
    <3>. QED  BY <3>1, FS_Subset
  <2>2. ASSUME NEW s \in T PROVE s \subseteq S
    OBVIOUS
  <2>. HIDE DEF T
  <2>3. ASSUME NEW s \in T PROVE IsFiniteSet(s)
    BY <2>1, <2>2, FS_Subset
  <2>4. T # {}
    BY DEF T
  <2>. QED  BY <2>2, <2>3, <2>4
<1>2. PICK s \in T : \A r \in T : r \subseteq s => r = s
  <2>. HIDE DEF T
  <2>1. \E s \in T : \A r \in T : r \subseteq s => r = s
    BY <1>1, SmallestOf
  <2>. QED  BY <2>1
<1>3. PICK i \in S : s = upTo(i)
  BY <1>2
<1>4. \A j \in S : i <= j
  <2>. SUFFICES ASSUME NEW j \in S, j < i PROVE FALSE
    OBVIOUS
  <2>0. i \in Int /\ j \in Int /\ S \subseteq Int
    OBVIOUS
  <2>1. ASSUME NEW k \in upTo(j) PROVE k \in upTo(i)
    <3>1. k \in S /\ k \in Int
      BY <2>0
    <3>. QED  BY <2>0, <3>1
  <2>2. i \in upTo(i) /\ i \notin upTo(j)
    BY <2>0
  <2>3. upTo(j) \in T
    OBVIOUS
  <2>. HIDE DEF T, upTo
  <2>. QED  BY <1>2, <1>3, <2>1, <2>2, <2>3
<1>5. i \in Oldest(S)
  BY <1>4 DEF Oldest
<1>6. ASSUME NEW j \in Oldest(S) PROVE j = i
  <2>1. i <= j /\ j <= i /\ i \in Int /\ j \in Int
    BY <1>4 DEF Oldest
  <2>. QED  BY <2>1
<1>. QED  BY <1>5, <1>6

\* And there is a newest one.
LEMMA NewestIsOne ==
  ASSUME NEW n \in Nat, NEW S \in SUBSET (1 .. n), S # {}
  PROVE  \E i \in S : Newest(S) = {i}
<1>. DEFINE from(i) == {j \in S : i <= j}
            T == {from(i) : i \in S}
<1>1. T # {} /\ \A s \in T : IsFiniteSet(s)
  <2>1. IsFiniteSet(S)
    <3>1. IsFiniteSet(1 .. n)
      BY FS_Interval
    <3>. QED  BY <3>1, FS_Subset
  <2>2. ASSUME NEW s \in T PROVE s \subseteq S
    OBVIOUS
  <2>. HIDE DEF T
  <2>3. ASSUME NEW s \in T PROVE IsFiniteSet(s)
    BY <2>1, <2>2, FS_Subset
  <2>4. T # {}
    BY DEF T
  <2>. QED  BY <2>2, <2>3, <2>4
<1>2. PICK s \in T : \A r \in T : r \subseteq s => r = s
  <2>. HIDE DEF T
  <2>1. \E s \in T : \A r \in T : r \subseteq s => r = s
    BY <1>1, SmallestOf
  <2>. QED  BY <2>1
<1>3. PICK i \in S : s = from(i)
  BY <1>2
<1>4. \A j \in S : j <= i
  <2>. SUFFICES ASSUME NEW j \in S, i < j PROVE FALSE
    OBVIOUS
  <2>0. i \in Int /\ j \in Int /\ S \subseteq Int
    OBVIOUS
  <2>1. ASSUME NEW k \in from(j) PROVE k \in from(i)
    <3>1. k \in S /\ k \in Int
      BY <2>0
    <3>. QED  BY <2>0, <3>1
  <2>2. i \in from(i) /\ i \notin from(j)
    BY <2>0
  <2>3. from(j) \in T
    OBVIOUS
  <2>. HIDE DEF T, from
  <2>. QED  BY <1>2, <1>3, <2>1, <2>2, <2>3
<1>5. i \in Newest(S)
  BY <1>4 DEF Newest
<1>6. ASSUME NEW j \in Newest(S) PROVE j = i
  <2>1. i <= j /\ j <= i /\ i \in Int /\ j \in Int
    BY <1>4 DEF Newest
  <2>. QED  BY <2>1
<1>. QED  BY <1>5, <1>6

\* Exchanging a row for one that is not there does not change how many there are.
LEMMA Exchanged ==
  ASSUME NEW S, IsFiniteSet(S), NEW i \in S, NEW j, j \notin S
  PROVE  /\ IsFiniteSet((S \ {i}) \cup {j})
         /\ Cardinality((S \ {i}) \cup {j}) = Cardinality(S)
<1>1. /\ IsFiniteSet(S \ {i}) /\ Cardinality(S \ {i}) = Cardinality(S) - 1
      /\ Cardinality(S) \in Nat
  BY FS_RemoveElement, FS_CardinalityType
<1>2. j \notin S \ {i}
  OBVIOUS
<1>3. /\ IsFiniteSet((S \ {i}) \cup {j})
      /\ Cardinality((S \ {i}) \cup {j}) = Cardinality(S \ {i}) + 1
  BY <1>1, <1>2, FS_AddElement
<1>. QED  BY <1>1, <1>3

\* Rows a table may have.
Table(rows) ==
  /\ Len(rows) \in Nat /\ DOMAIN rows = 1 .. Len(rows)
  /\ \A i \in DOMAIN rows : rows[i].reward \in {-1} \cup 0..Full

\* The rewards of full successes add up to their number.
LEMMA TotalOfFull ==
  ASSUME NEW rows, NEW S, IsFiniteSet(S), \A i \in S : rows[i].reward = Full
  PROVE  Total(rows, S) = Cardinality(S) * Full
<1>1. IsFiniteSet(1..Full) /\ Cardinality(1..Full) = Full
  BY FilterAssumption, FS_Interval
<1>2. {p \in S \X (1..Full) : p[2] <= rows[p[1]].reward} = S \X (1..Full)
  BY FilterAssumption
<1>. QED  BY <1>1, <1>2, FS_Product DEF Total

\* A group of an eligible task has a failure, if its episodes fail or succeed entirely.
LEMMA EligibleHasFailure ==
  ASSUME NEW rows, Table(rows), NEW mvs, NEW t \in Eligible(rows, mvs),
         \A i \in Group(rows, mvs, t) : rows[i].reward \in {0, Full}
  PROVE  Group(rows, mvs, t) \cap Negative(rows) # {}
<1>. DEFINE g == Group(rows, mvs, t)
            c == Cardinality(g)
<1>1. g \subseteq DOMAIN rows
  BY DEF Group, Base
<1>2. IsFiniteSet(g) /\ c \in Nat
  <2>1. IsFiniteSet(DOMAIN rows)
    BY FS_Interval DEF Table
  <2>. HIDE DEF g
  <2>2. IsFiniteSet(g)
    BY <1>1, <2>1, FS_Subset
  <2>. QED  BY <2>2, FS_CardinalityType
<1>3. SUFFICES ASSUME g \cap Negative(rows) = {} PROVE FALSE
  OBVIOUS
<1>4. \A i \in g : rows[i].reward = Full
  BY <1>1, <1>3 DEF Negative
<1>5. Total(rows, g) < acc_max * c
  BY DEF Eligible
<1>. HIDE DEF g, c
<1>6. Total(rows, g) = c * Full
  BY <1>2, <1>4, TotalOfFull DEF c
<1>7. acc_max \in Nat /\ Full \in Nat /\ acc_max <= Full
  BY FilterAssumption
<1>8. acc_max * c <= c * Full
  BY <1>2, <1>7
<1>9. c * Full \in Nat /\ acc_max * c \in Nat
  BY <1>2, <1>7
<1>. QED  BY <1>5, <1>6, <1>8, <1>9

\* What of a group of rows g the comparison needs, if the window has `pool' of its task.
Comparable(rows, pool, g) ==
  /\ g \cap Positive(rows) # {}
  /\ \/ pool \cap Negative(rows) # {}
     \/ \A i \in pool : rows[i].reward \in {0, Full}
     => g \cap Negative(rows) # {}

\* A repaired group of a task has at least rollout_n rows of it, and can be compared.
LEMMA RepairedContrasts ==
  ASSUME NEW rows, Table(rows), NEW mvs, NEW t \in Trainable(rows, mvs)
  PROVE  LET g == Repaired(rows, mvs, t)
         IN  /\ g \subseteq DOMAIN rows /\ IsFiniteSet(g) /\ Cardinality(g) >= rollout_n
             /\ \A i \in g : rows[i].task_id = t
             /\ Comparable(rows, Group(rows, mvs, t), g)
<1>. DEFINE g == Group(rows, mvs, t)
            P == Positive(rows)
            success == {i \in P : rows[i].task_id = t}
<1>1. IsFiniteSet(DOMAIN rows)
  BY FS_Interval DEF Table
<1>2. g \subseteq DOMAIN rows /\ \A i \in g : rows[i].task_id = t /\ rows[i].reward \in 0..Full
  BY DEF Group, Base, Table
<1>3. IsFiniteSet(g) /\ Cardinality(g) \in Nat
  BY <1>1, <1>2, FS_Subset, FS_CardinalityType
<1>4. Cardinality(g) >= rollout_n /\ t \in Eligible(rows, mvs)
  BY DEF Trainable, Eligible
<1>5. (\A i \in g : rows[i].reward \in {0, Full}) => g \cap Negative(rows) # {}
  BY <1>4, EligibleHasFailure
<1>6. success \subseteq DOMAIN rows /\ g \cap P = g \cap success
  BY <1>2 DEF Positive
<1>7. CASE g \cap success # {}
  <2>1. Repaired(rows, mvs, t) = g
    BY <1>7 DEF Repaired
  <2>2. Comparable(rows, g, g)
    BY <1>5, <1>6, <1>7 DEF Comparable
  <2>. QED  BY <2>1, <2>2, <1>2, <1>3, <1>4
<1>8. CASE g \cap success = {}
  <2>1. success # {} /\ Repaired(rows, mvs, t) = (g \ Oldest(g)) \cup Newest(success)
    BY <1>8 DEF Trainable, Repaired
  <2>2. PICK j \in success : Newest(success) = {j}
    BY <1>6, <2>1, NewestIsOne DEF Table
  <2>3. rollout_n \in Nat /\ rollout_n >= 2
    BY FilterAssumption
  <2>4. g # {}
    BY <1>3, <1>4, <2>3, FS_EmptySet
  <2>5. PICK i \in g : Oldest(g) = {i}
    BY <1>2, <2>4, OldestIsOne DEF Table
  <2>6. j \notin g /\ j \in P /\ j \in DOMAIN rows /\ rows[j].task_id = t
    BY <1>6, <1>8
  <2>7. Repaired(rows, mvs, t) = (g \ {i}) \cup {j}
    BY <2>1, <2>2, <2>5
  <2>8. IsFiniteSet((g \ {i}) \cup {j}) /\ Cardinality((g \ {i}) \cup {j}) = Cardinality(g)
    BY <1>3, <2>6, Exchanged
  <2>9. g \ {i} # {}
    <3>1. Cardinality(g \ {i}) = Cardinality(g) - 1 /\ IsFiniteSet(g \ {i})
      BY <1>3, FS_RemoveElement
    <3>2. Cardinality(g \ {i}) # 0
      BY <1>3, <1>4, <2>3, <3>1
    <3>. QED  BY <3>1, <3>2, FS_EmptySet
  <2>10. g \ {i} \subseteq Negative(rows)
    <3>1. \A x \in g : ~ (rows[x].reward > 0)
      BY <1>2, <1>6, <1>8 DEF Positive
    <3>2. \A x \in g : rows[x].reward = 0
      BY <1>2, <3>1, FilterAssumption
    <3>. QED  BY <1>2, <3>2 DEF Negative
  <2>. DEFINE r == (g \ {i}) \cup {j}
  <2>11. r \subseteq DOMAIN rows /\ \A x \in r : rows[x].task_id = t
    BY <1>2, <2>6
  <2>12. r \cap P # {} /\ r \cap Negative(rows) # {}
    BY <2>6, <2>9, <2>10
  <2>13. Cardinality(r) >= rollout_n /\ IsFiniteSet(r)
    BY <1>4, <2>8
  <2>14. Repaired(rows, mvs, t) = r
    BY <2>7
  <2>. HIDE DEF r, g
  <2>. QED  BY <2>11, <2>12, <2>13, <2>14 DEF g, Comparable
<1>. QED  BY <1>7, <1>8

\* What trimming leaves of it has exactly rollout_n rows, and still both kinds.
LEMMA SelectionContrasts ==
  ASSUME NEW rows, Table(rows), NEW mvs, NEW sel \in filter_fn(rows, mvs), NEW t \in DOMAIN sel
  PROVE  /\ sel[t] \subseteq DOMAIN rows /\ Cardinality(sel[t]) = rollout_n
         /\ \A i \in sel[t] : rows[i].task_id = t
         /\ Comparable(rows, Group(rows, mvs, t), sel[t])
<1>. DEFINE g == Repaired(rows, mvs, t)
            P == Positive(rows)
            N == Negative(rows)
<1>1. t \in Trainable(rows, mvs) /\ sel[t] \in Trimmed(rows, g)
  BY DEF filter_fn
<1>2. /\ g \subseteq DOMAIN rows /\ IsFiniteSet(g) /\ Cardinality(g) >= rollout_n
      /\ \A i \in g : rows[i].task_id = t
      /\ Comparable(rows, Group(rows, mvs, t), g)
  BY <1>1, RepairedContrasts
<1>3. Cardinality(g) \in Nat /\ rollout_n \in Nat
  BY <1>2, FS_CardinalityType, FilterAssumption
<1>4. /\ sel[t] \subseteq g /\ Cardinality(sel[t]) = rollout_n
      /\ g \cap P # {} => sel[t] \cap P # {}
      /\ g \cap N # {} => sel[t] \cap N # {}
  <2>1. CASE Cardinality(g) <= rollout_n
    <3>1. sel[t] = g
      BY <1>1, <2>1 DEF Trimmed
    <3>. QED  BY <1>2, <1>3, <2>1, <3>1
  <2>2. CASE ~ (Cardinality(g) <= rollout_n)
    <3>1. /\ sel[t] \in SUBSET g /\ Cardinality(sel[t]) = rollout_n
          /\ g \cap P # {} => sel[t] \cap (g \cap P) # {}
          /\ g \cap N # {} => sel[t] \cap (g \cap N) # {}
      BY <1>1, <2>2 DEF Trimmed
    <3>. QED  BY <3>1
  <2>. QED  BY <2>1, <2>2
<1>5. Comparable(rows, Group(rows, mvs, t), sel[t])
  BY <1>2, <1>4 DEF Comparable
<1>. QED  BY <1>2, <1>4, <1>5
-----------------------------------------------------------------------------
(* Types.                                                                  *)

\* Adding to the use counters keeps the table a table of the same rows.
LEMMA MarkKeepsRows ==
  ASSUME TypeOK, NEW M, Mark(M)
  PROVE  /\ rollout_run' \in Seq(Row) /\ Len(rollout_run') = Len(rollout_run)
         /\ DOMAIN rollout_run' = DOMAIN rollout_run
         /\ \A i \in DOMAIN rollout_run :
              /\ rollout_run'[i].reward = rollout_run[i].reward
              /\ rollout_run'[i].used = IF i \in M THEN rollout_run[i].used + 1
                                        ELSE rollout_run[i].used
<1>. DEFINE n == Len(rollout_run)
            new(i) == IF i \in M THEN [rollout_run[i] EXCEPT !.used = @ + 1]
                      ELSE rollout_run[i]
<1>1. n \in Nat /\ DOMAIN rollout_run = 1..n
  BY DEF TypeOK
<1>2. \A i \in 1..n : rollout_run[i] \in Row
  BY DEF TypeOK
<1>3. \A i \in 1..n : /\ new(i) \in Row
                      /\ new(i).reward = rollout_run[i].reward
                      /\ new(i).used = IF i \in M THEN rollout_run[i].used + 1
                                       ELSE rollout_run[i].used
  BY <1>2 DEF Row
<1>4. rollout_run' = [i \in 1..n |-> new(i)]
  BY <1>1 DEF Mark
<1>5. rollout_run' \in [1..n -> Row]
  BY <1>3, <1>4
<1>6. rollout_run' \in Seq(Row)
  BY <1>1, <1>5, SeqDef
<1>7. DOMAIN rollout_run' = 1..n /\ Len(rollout_run') = n
  BY <1>1, <1>5, <1>6
<1>. QED  BY <1>1, <1>3, <1>4, <1>6, <1>7

\* The initial state is typed.
LEMMA InitTypeOK == Init => TypeOK
<1>. SUFFICES ASSUME Init PROVE TypeOK
  OBVIOUS
<1>1. rollout_run = <<>> /\ checkpoint = <<>> /\ saved = <<>>
  BY DEF Init
<1>2. /\ rollout_run \in Seq(Row) /\ Len(rollout_run) <= MaxRows
      /\ checkpoint \in Seq(Nat) /\ saved \in Seq(Nat)
  BY <1>1, TrainingAssumption, EmptySeq
<1>3. /\ default_ckpt \in Nat /\ last_ckpt \in Nat /\ serving \subseteq Nat
      /\ model_path \in [Worker -> Nat \cup {NoModel}]
  BY DEF Init, Service!Init
<1>4. /\ pc \in Phase /\ global_steps \in Nat /\ batch \subseteq DOMAIN rollout_run
      /\ last_used_task_id \in Task \cup {NoTask} /\ wait_num \in 0..max_wait_num
      /\ disk \subseteq Nat /\ latest \in Nat
  BY TrainingAssumption DEF Init, Phase
<1>5. trained \in [1..MaxRows -> Nat] /\ faults \in [Kinds -> 0..MaxFaults]
  BY TrainingAssumption DEF Init
<1>. QED  BY <1>2, <1>3, <1>4, <1>5 DEF TypeOK

\* A fault stays within its bound.
LEMMA FaultTyped ==
  ASSUME TypeOK, NEW k, Fault(k)
  PROVE  faults' \in [Kinds -> 0..MaxFaults]
BY TrainingAssumption DEF TypeOK, Fault

\* The rows a selection takes, and the tasks they belong to, are those of the table.
LEMMA SelectTypeOK == TypeOK /\ Select => TypeOK'
<1>. SUFFICES ASSUME TypeOK, Select PROVE TypeOK'
  OBVIOUS
<1>1. PICK sel \in filter_fn(rollout_run, top_mvs) :
        LET taken == {t \in DOMAIN sel : Turn(sel, t) < batch_max}
            rows  == UNION {sel[t] : t \in taken}
        IN
        \/ /\ \/ Mark(rows) /\ UNCHANGED faults
              \/ Fault("mark") /\ \E i \in rows : Mark(rows \ {i})
           /\ pc' = "train" /\ batch' = rows /\ wait_num' = 0
           /\ IF rotate_task_groups
              THEN \E t \in taken : /\ \A u \in taken : Turn(sel, u) <= Turn(sel, t)
                                    /\ last_used_task_id' = t
              ELSE UNCHANGED last_used_task_id
           /\ UNCHANGED saved
        \/ /\ Fault("trainer") /\ \E M \in SUBSET rows : Mark(M)
           /\ pc' = "down" /\ batch' = {} /\ wait_num' = 0
           /\ last_used_task_id' = NoTask /\ saved' = <<>>
  BY DEF Select
<1>. DEFINE rows == UNION {sel[t] : t \in {t \in DOMAIN sel : Turn(sel, t) < batch_max}}
<1>2. rows \subseteq DOMAIN rollout_run
  BY SelectionRows
<1>3. \A t \in DOMAIN sel : t \in Task
  <2>. SUFFICES ASSUME NEW t \in DOMAIN sel PROVE t \in Task
    OBVIOUS
  <2>1. PICK i \in DOMAIN rollout_run : t = rollout_run[i].task_id
    BY SelectionTasks
  <2>2. rollout_run[i] \in Row
    BY DEF TypeOK
  <2>. QED  BY <2>1, <2>2 DEF Row
<1>4. \E M : Mark(M)
  BY <1>1
<1>5. /\ rollout_run' \in Seq(Row) /\ Len(rollout_run') = Len(rollout_run)
      /\ DOMAIN rollout_run' = DOMAIN rollout_run
  BY <1>4, MarkKeepsRows
<1>6. batch' \subseteq DOMAIN rollout_run'
  BY <1>1, <1>2, <1>5
<1>7. last_used_task_id' \in Task \cup {NoTask}
  BY <1>1, <1>3 DEF TypeOK
<1>8. faults' \in [Kinds -> 0..MaxFaults]
  BY <1>1, FaultTyped DEF TypeOK
<1>9. saved' \in Seq(Nat)
  BY <1>1, EmptySeq DEF TypeOK
<1>10. pc' \in Phase /\ wait_num' \in 0..max_wait_num
  BY <1>1, TrainingAssumption DEF Phase
<1>. QED  BY <1>5, <1>6, <1>7, <1>8, <1>9, <1>10 DEF TypeOK, Select, poolVars

\* An episode adds one row of the type of the table.
LEMMA StoreTypeOK ==
  ASSUME TypeOK, NEW w \in Worker, Store(w)
  PROVE  TypeOK'
<1>1. PICK t \in Task, r \in Reward :
        rollout_run' = Append(rollout_run,
          [task_id |-> t, model_version |-> model_path[w], reward |-> r, used |-> 0])
  BY DEF Store
<1>2. [task_id |-> t, model_version |-> model_path[w], reward |-> r, used |-> 0] \in Row
  BY DEF TypeOK, Store, Row
<1>3. /\ rollout_run' \in Seq(Row) /\ Len(rollout_run') = Len(rollout_run) + 1
      /\ DOMAIN rollout_run \subseteq DOMAIN rollout_run'
  BY <1>1, <1>2, AppendProperties DEF TypeOK
<1>4. Len(rollout_run') <= MaxRows
  BY <1>3, TrainingAssumption DEF TypeOK, Store
<1>5. model_path' \in [Worker -> Nat \cup {NoModel}]
  BY DEF TypeOK, Store
<1>. QED  BY <1>3, <1>4, <1>5 DEF TypeOK, Store, poolVars, datasetVars, diskVars, trainerVars

\* What remains of the saved paths is a part of them, in their order.
LEMMA KeptProperties ==
  ASSUME TypeOK
  PROVE  /\ Surplus \in 0..Len(saved)
         /\ max_ckpt_to_keep > 1 /\ saved # <<>> => Surplus < Len(saved)
         /\ Kept \in Seq(Nat) /\ Len(Kept) = Len(saved) - Surplus
         /\ \A i \in 1..Len(Kept) : Kept[i] = saved[Surplus + i]
<1>1. /\ saved \in Seq(Nat) /\ Len(saved) \in Nat /\ max_ckpt_to_keep \in Nat \ {0}
      /\ saved # <<>> => Len(saved) > 0
  BY TrainingAssumption, EmptySeq DEF TypeOK
<1>2. /\ Surplus \in 0..Len(saved)
      /\ max_ckpt_to_keep > 1 /\ saved # <<>> => Surplus < Len(saved)
  BY <1>1 DEF Surplus
<1>3. \A i \in (Surplus + 1)..Len(saved) : saved[i] \in Nat
  BY <1>1, <1>2
<1>4. /\ Kept \in Seq(Nat)
      /\ Len(Kept) = IF Surplus + 1 <= Len(saved) THEN Len(saved) - (Surplus + 1) + 1 ELSE 0
      /\ \A i \in 1..(Len(saved) - (Surplus + 1) + 1) : Kept[i] = saved[Surplus + 1 + i - 1]
  <2>. DEFINE a == Surplus + 1
  <2>1. a \in Int /\ Len(saved) \in Int
    BY <1>1, <1>2
  <2>2. \A i \in a..Len(saved) : saved[i] \in Nat
    BY <1>3
  <2>. HIDE DEF a
  <2>3. /\ SubSeq(saved, a, Len(saved)) \in Seq(Nat)
        /\ Len(SubSeq(saved, a, Len(saved))) = IF a <= Len(saved) THEN Len(saved) - a + 1 ELSE 0
        /\ \A i \in 1..(Len(saved) - a + 1) : SubSeq(saved, a, Len(saved))[i] = saved[a + i - 1]
    BY <2>1, <2>2, SubSeqProperties
  <2>. QED  BY <2>3 DEF a, Kept
<1>. QED  BY <1>1, <1>2, <1>4

\* Steps of the trainer.
LEMMA TrainerTypeOK == TypeOK /\ TrainerStep => TypeOK'
<1>. SUFFICES ASSUME TypeOK, TrainerStep PROVE TypeOK'
  OBVIOUS
<1>. USE DEF poolVars, datasetVars, diskVars, trainerVars
<1>1. CASE Start
  <2>1. checkpoint' \in Seq(Nat)
    BY <1>1 DEF TypeOK, Start
  <2>2. saved' \in Seq(Nat)
    BY <1>1, EmptySeq DEF Start
  <2>. QED  BY <1>1, <2>1, <2>2, TrainingAssumption DEF TypeOK, Start, Phase
<1>2. CASE Train
  <2>1. pc' \in Phase /\ global_steps' \in Nat
    BY <1>2 DEF TypeOK, Train, Advance, Phase
  <2>2. trained' \in [1..MaxRows -> Nat]
    BY <1>2 DEF TypeOK, Train
  <2>. QED  BY <1>2, <2>1, <2>2 DEF TypeOK, Train
<1>3. CASE Save
  <2>1. saved' \in Seq(Nat)
    BY <1>3, KeptProperties, AppendProperties DEF TypeOK, Save
  <2>. QED  BY <1>3, <2>1 DEF TypeOK, Save, Phase
<1>4. CASE Insert
  <2>1. checkpoint' \in Seq(Nat)
    BY <1>4, AppendProperties DEF TypeOK, Insert
  <2>. QED  BY <1>4, <2>1 DEF TypeOK, Insert, Phase
<1>5. CASE Reload
  <2>1. faults' \in [Kinds -> 0..MaxFaults]
    BY <1>5, FaultTyped DEF TypeOK, Reload
  <2>2. default_ckpt' \in Nat /\ last_ckpt' \in Nat /\ serving' \subseteq Nat
    BY <1>5 DEF TypeOK, Reload, Service!Switch
  <2>3. pc' \in Phase /\ global_steps' \in Nat
    BY <1>5 DEF TypeOK, Reload, Advance, Phase
  <2>. QED  BY <1>5, <2>1, <2>2, <2>3 DEF TypeOK, Reload
<1>6. CASE Crash
  <2>1. faults' \in [Kinds -> 0..MaxFaults]
    BY <1>6, FaultTyped DEF Crash
  <2>2. saved' \in Seq(Nat) /\ disk' \subseteq Nat
    BY <1>6, EmptySeq DEF TypeOK, Crash
  <2>. QED  BY <1>6, <2>1, <2>2, TrainingAssumption DEF TypeOK, Crash, Phase
<1>. QED  BY <1>1, <1>2, <1>3, <1>4, <1>5, <1>6 DEF TrainerStep

\* Every step keeps the types.
LEMMA NextTypeOK == TypeOK /\ [Next]_vars => TypeOK'
<1>. SUFFICES ASSUME TypeOK, [Next]_vars PROVE TypeOK'
  OBVIOUS
<1>. USE DEF poolVars, datasetVars, diskVars, trainerVars
<1>1. ASSUME NEW w \in Worker, Answer(w) PROVE TypeOK'
  BY <1>1 DEF TypeOK, Answer
<1>2. ASSUME NEW w \in Worker, NoAnswer(w) PROVE TypeOK'
  BY <1>2, FaultTyped DEF TypeOK, NoAnswer
<1>3. CASE PoolStep
  BY <1>3 DEF TypeOK, PoolStep, Service!Turnover
<1>4. CASE Wait
  <2>1. wait_num' \in 0..max_wait_num
    BY <1>4, TrainingAssumption DEF TypeOK, Wait
  <2>. QED  BY <1>4, <2>1 DEF TypeOK, Wait
<1>5. CASE GiveUp
  BY <1>5 DEF TypeOK, GiveUp, Phase
<1>6. CASE UNCHANGED vars
  BY <1>6 DEF TypeOK, vars
<1>. QED  BY <1>1, <1>2, <1>3, <1>4, <1>5, <1>6, StoreTypeOK, SelectTypeOK, TrainerTypeOK
          DEF Next, RolloutStep, DatasetStep

\* The tables, the dataset, the files and the trainer are typed in every behaviour of
\* the training loop.
THEOREM TrainingTypeCorrect == Spec => []TypeOK
BY InitTypeOK, NextTypeOK, PTL DEF Spec

-----------------------------------------------------------------------------
(* Versions and files.                                                     *)

\* Where the trainer is, relative to the tracker file: ahead of it while a step is
\* prepared and saved, on it until the step is handed to the pool.
StepsInv ==
  /\ pc \in {"poll", "train", "save"} => global_steps > latest
  /\ pc \in {"insert", "reload"} => global_steps = latest

\* No registered version is newer than the tracker file, and the step just saved is not
\* registered yet.
RegisteredInv ==
  /\ VersionsInOrder
  /\ \A i \in DOMAIN checkpoint :
       /\ checkpoint[i] <= latest
       /\ pc = "insert" => checkpoint[i] < latest

\* The manager's list ends with the step of the tracker file, the others are older.
SavedInv ==
  /\ \A i, j \in DOMAIN saved : i < j => saved[i] < saved[j]
  /\ saved # <<>> => saved[Len(saved)] = latest
  /\ LatestOnDisk

VersionsInv == StepsInv /\ RegisteredInv /\ SavedInv

LEMMA InitVersionsInv == Init => VersionsInv
BY DEF Init, VersionsInv, StepsInv, RegisteredInv, VersionsInOrder, SavedInv, LatestOnDisk

\* While nothing of the trainer or its files changes, nothing of the invariant does.
LEMMA VersionsUnchanged ==
  ASSUME VersionsInv, UNCHANGED <<checkpoint, pc, global_steps, saved, disk, latest>>
  PROVE  VersionsInv'
BY DEF VersionsInv, StepsInv, RegisteredInv, VersionsInOrder, SavedInv, LatestOnDisk

\* The step the tracker file names is not among the checkpoints to be removed.
LEMMA LatestNotRemoved ==
  ASSUME TypeOK, VersionsInv, max_ckpt_to_keep > 1
  PROVE  latest \notin Removed
<1>. SUFFICES ASSUME NEW i \in 1..Surplus, latest = saved[i] PROVE FALSE
  BY DEF Removed
<1>1. saved \in Seq(Nat) /\ Len(saved) \in Nat
  BY DEF TypeOK
<1>2. Surplus \in 0..Len(saved) /\ saved # <<>>
  BY <1>1, KeptProperties, EmptySeq
<1>3. Surplus < Len(saved)
  BY <1>2, KeptProperties
<1>4. i \in DOMAIN saved /\ Len(saved) \in DOMAIN saved /\ i < Len(saved)
  BY <1>1, <1>2, <1>3
<1>5. saved[i] < saved[Len(saved)] /\ saved[Len(saved)] = latest
  BY <1>2, <1>4 DEF VersionsInv, SavedInv
<1>6. saved[i] \in Nat
  BY <1>1, <1>4
<1>. QED  BY <1>5, <1>6

\* Arithmetic, away from what else is known of a step.
LEMMA LessChain ==
  ASSUME NEW a \in Nat, NEW b \in Nat, NEW c \in Nat, a <= b, b < c
  PROVE  a < c
OBVIOUS

\* A save keeps the list in order and leaves the new step on disk.
LEMMA SaveVersions == TypeOK /\ VersionsInv /\ Save => VersionsInv'
<1>. SUFFICES ASSUME TypeOK, VersionsInv, Save PROVE VersionsInv'
  OBVIOUS
<1>. DEFINE k == Len(saved) - Surplus
<1>1. /\ pc = "save" /\ pc' = "insert" /\ latest' = global_steps
      /\ global_steps' = global_steps /\ checkpoint' = checkpoint
      /\ saved' = Append(Kept, global_steps) /\ global_steps \in disk'
  BY DEF Save, poolVars, datasetVars
<1>2. /\ global_steps \in Nat /\ latest \in Nat /\ latest < global_steps
  BY <1>1 DEF TypeOK, VersionsInv, StepsInv
<1>3. StepsInv'
  BY <1>1 DEF StepsInv
<1>4. RegisteredInv'
  <2>1. \A i \in DOMAIN checkpoint : checkpoint[i] \in Nat /\ checkpoint[i] <= latest
    BY DEF TypeOK, VersionsInv, RegisteredInv
  <2>2. VersionsInOrder'
    BY <1>1 DEF VersionsInv, RegisteredInv, VersionsInOrder
  <2>. QED  BY <1>1, <1>2, <2>1, <2>2 DEF RegisteredInv
<1>5. /\ saved \in Seq(Nat) /\ Len(saved) \in Nat /\ Surplus \in 0..Len(saved)
      /\ Kept \in Seq(Nat) /\ Len(Kept) = k /\ k \in Nat
      /\ \A i \in 1..k : Kept[i] = saved[Surplus + i]
  BY KeptProperties DEF TypeOK
<1>6. /\ saved' \in Seq(Nat) /\ Len(saved') = k + 1 /\ saved'[k + 1] = global_steps
      /\ \A i \in 1..k : saved'[i] = saved[Surplus + i]
  <2>. HIDE DEF k
  <2>1. Kept \in Seq(Nat) /\ Len(Kept) = k /\ global_steps \in Nat
    BY <1>2, <1>5
  <2>2. /\ Append(Kept, global_steps) \in Seq(Nat) /\ Len(Append(Kept, global_steps)) = k + 1
        /\ Append(Kept, global_steps)[k + 1] = global_steps
        /\ \A i \in 1..k : Append(Kept, global_steps)[i] = Kept[i]
    BY <2>1, AppendProperties
  <2>. QED  BY <1>1, <1>5, <2>2
<1>7. \A i \in 1..k : /\ Surplus + i \in DOMAIN saved /\ saved[Surplus + i] \in Nat
                      /\ saved[Surplus + i] <= latest
  <2>. SUFFICES ASSUME NEW i \in 1..k
                PROVE  /\ Surplus + i \in DOMAIN saved /\ saved[Surplus + i] \in Nat
                       /\ saved[Surplus + i] <= latest
    OBVIOUS
  <2>. DEFINE m == Surplus + i
  <2>1. m \in 1..Len(saved) /\ Len(saved) \in 1..Len(saved)
    BY <1>5
  <2>2. m \in DOMAIN saved /\ Len(saved) \in DOMAIN saved
    BY <1>5, <2>1
  <2>3. saved[m] \in Nat
    BY <1>5, <2>2
  <2>4. saved[Len(saved)] = latest
    BY <2>2 DEF VersionsInv, SavedInv
  <2>. HIDE DEF m
  <2>5. saved[m] <= latest
    <3>1. CASE m = Len(saved)
      BY <2>3, <2>4, <3>1
    <3>2. CASE m < Len(saved)
      <4>1. saved[m] < saved[Len(saved)]
        BY <2>2, <3>2 DEF VersionsInv, SavedInv
      <4>. QED  BY <2>3, <2>4, <4>1, <1>2
    <3>. QED  BY <2>1, <3>1, <3>2
  <2>. QED  BY <2>2, <2>3, <2>5 DEF m
<1>8. \A i, j \in 1..(k + 1) : i < j => saved'[i] < saved'[j]
  <2>. SUFFICES ASSUME NEW i \in 1..(k + 1), NEW j \in 1..(k + 1), i < j
                PROVE  saved'[i] < saved'[j]
    OBVIOUS
  <2>1. CASE j = k + 1
    <3>1. i \in 1..k
      BY <2>1, <1>5
    <3>. HIDE DEF k
    <3>2. saved'[i] \in Nat /\ saved'[i] <= latest
      BY <3>1, <1>6, <1>7
    <3>3. saved'[j] = global_steps
      BY <2>1, <1>6
    <3>. QED  BY <3>2, <3>3, <1>2, LessChain, Zenon
  <2>2. CASE j # k + 1
    <3>. HIDE DEF k
    <3>1. i \in 1..k /\ j \in 1..k
      BY <2>2, <1>5
    <3>2. /\ Surplus + i \in DOMAIN saved /\ Surplus + j \in DOMAIN saved
          /\ Surplus + i < Surplus + j
      <4>1. Surplus \in Nat
        BY <1>5
      <4>. QED  BY <3>1, <4>1, <1>7
    <3>3. saved[Surplus + i] < saved[Surplus + j]
      BY <3>2 DEF VersionsInv, SavedInv
    <3>. QED  BY <3>1, <3>3, <1>6
  <2>. QED  BY <2>1, <2>2
<1>9. SavedInv'
  <2>1. DOMAIN saved' = 1..(k + 1)
    BY <1>5, <1>6
  <2>. QED  BY <1>1, <1>6, <1>8, <2>1 DEF SavedInv, LatestOnDisk
<1>. QED  BY <1>3, <1>4, <1>9 DEF VersionsInv

\* The new version follows all others.
LEMMA InsertVersions == TypeOK /\ VersionsInv /\ Insert => VersionsInv'
<1>. SUFFICES ASSUME TypeOK, VersionsInv, Insert PROVE VersionsInv'
  OBVIOUS
<1>. DEFINE n == Len(checkpoint)
<1>1. /\ pc = "insert" /\ pc' = "reload" /\ checkpoint' = Append(checkpoint, global_steps)
      /\ UNCHANGED <<global_steps, saved, disk, latest>>
  BY DEF Insert, diskVars
<1>2. /\ global_steps \in Nat /\ latest = global_steps /\ checkpoint \in Seq(Nat) /\ n \in Nat
  BY <1>1 DEF TypeOK, VersionsInv, StepsInv
<1>3. \A i \in 1..n : checkpoint[i] \in Nat /\ checkpoint[i] < latest
  BY <1>1, <1>2 DEF VersionsInv, RegisteredInv
<1>4. /\ DOMAIN checkpoint' = 1..(n + 1) /\ checkpoint'[n + 1] = latest
      /\ \A i \in 1..n : checkpoint'[i] = checkpoint[i]
  BY <1>1, <1>2, AppendProperties
<1>. HIDE DEF n
<1>5. VersionsInOrder'
  <2>. SUFFICES ASSUME NEW i \in 1..(n + 1), NEW j \in 1..(n + 1), i < j
                PROVE  checkpoint'[i] < checkpoint'[j]
    BY <1>4 DEF VersionsInOrder
  <2>1. CASE j = n + 1
    <3>1. i \in 1..n
      BY <1>2, <2>1
    <3>2. checkpoint'[i] = checkpoint[i] /\ checkpoint[i] < latest
      BY <1>3, <1>4, <3>1, Zenon
    <3>3. checkpoint'[j] = latest
      BY <1>4, <2>1, Zenon
    <3>. QED  BY <3>2, <3>3, Zenon
  <2>2. CASE j # n + 1
    <3>1. i \in 1..n /\ j \in 1..n
      BY <1>2, <2>2
    <3>2. checkpoint'[i] = checkpoint[i] /\ checkpoint'[j] = checkpoint[j]
      BY <1>4, <3>1, Zenon
    <3>3. i \in DOMAIN checkpoint /\ j \in DOMAIN checkpoint
      BY <1>2, <3>1 DEF n
    <3>4. checkpoint[i] < checkpoint[j]
      BY <3>3, Zenon DEF VersionsInv, RegisteredInv, VersionsInOrder
    <3>. QED  BY <3>2, <3>4, Zenon
  <2>. QED  BY <2>1, <2>2
<1>6. RegisteredInv'
  <2>1. \A i \in 1..(n + 1) : checkpoint'[i] <= latest
    BY <1>2, <1>3, <1>4
  <2>. QED  BY <1>1, <1>4, <1>5, <2>1 DEF RegisteredInv
<1>7. StepsInv'
  BY <1>1, <1>2 DEF StepsInv
<1>8. SavedInv'
  BY <1>1 DEF VersionsInv, SavedInv, LatestOnDisk
<1>. QED  BY <1>6, <1>7, <1>8 DEF VersionsInv

\* v0 is registered once, and the trainer goes on behind the step of the tracker file.
LEMMA StartVersions == TypeOK /\ VersionsInv /\ Start => VersionsInv'
<1>. SUFFICES ASSUME TypeOK, VersionsInv, Start PROVE VersionsInv'
  OBVIOUS
<1>1. /\ pc' = "poll" /\ global_steps' = latest + 1 /\ saved' = <<>> /\ latest \in Nat
      /\ checkpoint' = IF checkpoint = <<>> THEN <<0>> ELSE checkpoint
      /\ UNCHANGED <<disk, latest>>
  BY DEF TypeOK, Start, diskVars
<1>2. StepsInv'
  BY <1>1 DEF StepsInv
<1>3. RegisteredInv'
  <2>1. CASE checkpoint = <<>>
    BY <1>1, <2>1 DEF RegisteredInv, VersionsInOrder
  <2>2. CASE checkpoint # <<>>
    BY <1>1, <2>2 DEF VersionsInv, RegisteredInv, VersionsInOrder
  <2>. QED  BY <2>1, <2>2
<1>4. SavedInv'
  BY <1>1 DEF VersionsInv, SavedInv, LatestOnDisk
<1>. QED  BY <1>2, <1>3, <1>4 DEF VersionsInv

\* A death of the trainer, in a save as well, leaves the step of the tracker file.
LEMMA CrashVersions == TypeOK /\ VersionsInv /\ Crash => VersionsInv'
<1>. SUFFICES ASSUME TypeOK, VersionsInv, Crash PROVE VersionsInv'
  OBVIOUS
<1>1. /\ pc' = "down" /\ saved' = <<>> /\ UNCHANGED <<checkpoint, latest>>
      /\ disk' \in {disk, disk \ Removed, (disk \ Removed) \cup {global_steps}}
  BY DEF Crash
<1>2. StepsInv' /\ RegisteredInv'
  BY <1>1 DEF VersionsInv, StepsInv, RegisteredInv, VersionsInOrder
<1>3. LatestOnDisk'
  BY <1>1, LatestNotRemoved DEF VersionsInv, SavedInv, LatestOnDisk
<1>4. SavedInv'
  BY <1>1, <1>3 DEF SavedInv
<1>. QED  BY <1>2, <1>4 DEF VersionsInv

\* Training and handing over go on to the next step, or finish.
LEMMA AdvanceVersions ==
  ASSUME TypeOK, VersionsInv, global_steps >= latest, UNCHANGED <<checkpoint, saved, disk, latest>>,
         \/ Advance
         \/ pc = "train" /\ pc' = "save" /\ UNCHANGED global_steps
  PROVE  VersionsInv'
<1>1. global_steps \in Nat /\ latest \in Nat
  BY DEF TypeOK
<1>2. StepsInv'
  BY <1>1 DEF VersionsInv, StepsInv, Advance
<1>3. pc' # "insert"
  BY DEF Advance
<1>4. RegisteredInv'
  BY <1>3 DEF VersionsInv, RegisteredInv, VersionsInOrder
<1>5. SavedInv'
  BY DEF VersionsInv, SavedInv, LatestOnDisk
<1>. QED  BY <1>2, <1>4, <1>5 DEF VersionsInv

LEMMA NextVersionsInv == TypeOK /\ VersionsInv /\ [Next]_vars => VersionsInv'
<1>. SUFFICES ASSUME TypeOK, VersionsInv, [Next]_vars PROVE VersionsInv'
  OBVIOUS
<1>. USE DEF poolVars, datasetVars, diskVars, trainerVars
<1>1. CASE RolloutStep \/ PoolStep \/ Wait \/ UNCHANGED vars
  BY <1>1, VersionsUnchanged
     DEF RolloutStep, Answer, NoAnswer, Store, PoolStep, Service!Turnover, Wait, vars
<1>2. CASE GiveUp
  BY <1>2 DEF GiveUp, VersionsInv, StepsInv, RegisteredInv, VersionsInOrder, SavedInv,
              LatestOnDisk
<1>3. CASE Select
  <2>1. /\ pc = "poll" /\ pc' \in {"train", "down"} /\ UNCHANGED <<checkpoint, disk, latest, global_steps>>
        /\ saved' = saved \/ saved' = <<>>
    BY <1>3 DEF Select
  <2>. QED  BY <2>1 DEF VersionsInv, StepsInv, RegisteredInv, VersionsInOrder, SavedInv,
                        LatestOnDisk
<1>4. CASE Train \/ Reload
  <2>1. global_steps \in Nat /\ latest \in Nat
    BY DEF TypeOK
  <2>2. global_steps >= latest
    BY <1>4, <2>1 DEF VersionsInv, StepsInv, Train, Reload
  <2>. QED  BY <1>4, <2>2, AdvanceVersions DEF Train, Reload
<1>. QED  BY <1>1, <1>2, <1>3, <1>4, StartVersions, SaveVersions, InsertVersions, CrashVersions
          DEF Next, DatasetStep, TrainerStep

LEMMA VersionsInvariant == Spec => []VersionsInv
BY InitTypeOK, NextTypeOK, InitVersionsInv, NextVersionsInv, PTL DEF Spec

\* Every version registered in the table is that of a later step than the versions
\* before it, whatever the trainer's deaths and restarts.
THEOREM VersionsNeverRepeat == Spec => []VersionsInOrder
<1>1. VersionsInv => VersionsInOrder
  BY DEF VersionsInv, RegisteredInv
<1>. QED  BY <1>1, VersionsInvariant, PTL

\* With at least two checkpoints kept, the step a restarted trainer looks for is on disk
\* at every moment, in the middle of a save as well.
THEOREM RestartPossible == Spec => []LatestOnDisk
<1>1. VersionsInv => LatestOnDisk
  BY DEF VersionsInv, SavedInv
<1>. QED  BY <1>1, VersionsInvariant, PTL

-----------------------------------------------------------------------------
(* The use of rows.                                                        *)

\* How often row i has been trained on, the batch in training included.
Uses(i) == trained[i] + (IF i \in batch THEN 1 ELSE 0)

\* A failed row that is not marked as used has been used as often as marks were lost; once
\* it is marked, one time more.  Only a trainer in training has a batch, and what is not
\* in the table has not been trained on.
UsesInv ==
  /\ pc # "train" => batch = {}
  /\ \A i \in DOMAIN rollout_run : rollout_run[i].reward <= 0 =>
       Uses(i) <= (IF rollout_run[i].used = 0 THEN 0 ELSE 1) + faults["mark"]
  /\ \A i \in 1..MaxRows : i > Len(rollout_run) => trained[i] = 0

\* The types the counts are made of.
LEMMA UsesTypes ==
  ASSUME TypeOK
  PROVE  /\ MaxRows \in Nat /\ Len(rollout_run) \in 0..MaxRows
         /\ DOMAIN rollout_run = 1..Len(rollout_run)
         /\ batch \subseteq 1..Len(rollout_run)
         /\ \A i \in 1..MaxRows : trained[i] \in Nat
         /\ faults["mark"] \in Nat
         /\ \A i \in DOMAIN rollout_run : rollout_run[i] \in Row
<1>1. MaxRows \in Nat
  BY TrainingAssumption
<1>2. /\ Len(rollout_run) \in 0..MaxRows
      /\ DOMAIN rollout_run = 1..Len(rollout_run)
      /\ \A i \in DOMAIN rollout_run : rollout_run[i] \in Row
  BY <1>1 DEF TypeOK
<1>3. batch \subseteq 1..Len(rollout_run)
  BY <1>2 DEF TypeOK
<1>4. (\A i \in 1..MaxRows : trained[i] \in Nat) /\ faults["mark"] \in Nat
  BY DEF TypeOK, Kinds
<1>. QED  BY <1>1, <1>2, <1>3, <1>4

LEMMA InitUsesInv == Init => UsesInv
BY DEF Init, UsesInv

\* While rows, batch and counters stay, the invariant does, whatever faults of other
\* kinds there are.
LEMMA UsesUnchanged ==
  ASSUME TypeOK, UsesInv, UNCHANGED <<rollout_run, trained, batch>>,
         faults'["mark"] = faults["mark"], pc = "train" => pc' = "train" \/ batch = {}
  PROVE  UsesInv'
BY DEF UsesInv, Uses

\* A fault adds to the counter of its kind only.
LEMMA FaultCounts ==
  ASSUME TypeOK, NEW k \in Kinds, Fault(k)
  PROVE  /\ faults'["mark"] = IF k = "mark" THEN faults["mark"] + 1 ELSE faults["mark"]
         /\ faults["mark"] \in Nat
BY DEF TypeOK, Fault, Kinds

\* A new row is unused and has not been trained on.
LEMMA StoreUses ==
  ASSUME TypeOK, UsesInv, NEW w \in Worker, Store(w)
  PROVE  UsesInv'
<1>. DEFINE n == Len(rollout_run)
<1>1. PICK row : row.used = 0 /\ rollout_run' = Append(rollout_run, row) /\ row \in Row
  <2>1. PICK t \in Task, r \in Reward :
          rollout_run' = Append(rollout_run,
            [task_id |-> t, model_version |-> model_path[w], reward |-> r, used |-> 0])
    BY DEF Store
  <2>2. [task_id |-> t, model_version |-> model_path[w], reward |-> r, used |-> 0] \in Row
    BY DEF TypeOK, Store, Row
  <2>. QED  BY <2>1, <2>2
<1>2. /\ n \in Nat /\ n < MaxRows /\ rollout_run \in Seq(Row) /\ MaxRows \in Nat
      /\ batch \subseteq 1..n /\ faults["mark"] \in Nat
      /\ UNCHANGED <<batch, trained, pc, faults>>
  <2>1. n < MaxRows /\ UNCHANGED <<batch, trained, pc, faults>>
    BY DEF Store, datasetVars, trainerVars
  <2>2. rollout_run \in Seq(Row)
    BY DEF TypeOK
  <2>3. n \in Nat
    BY <2>2
  <2>. QED  BY <2>1, <2>2, <2>3, UsesTypes
<1>3. /\ DOMAIN rollout_run' = 1..(n + 1) /\ Len(rollout_run') = n + 1
      /\ rollout_run'[n + 1] = row
      /\ \A i \in 1..n : rollout_run'[i] = rollout_run[i]
  BY <1>1, <1>2, AppendProperties
<1>4. \A i : i = n + 1 => Uses(i)' = 0
  <2>1. n + 1 \in 1..MaxRows /\ n + 1 > Len(rollout_run) /\ n + 1 \notin batch
    BY <1>2
  <2>2. trained[n + 1] = 0
    BY <2>1 DEF UsesInv
  <2>. QED  BY <1>2, <2>1, <2>2 DEF Uses
<1>5. \A i \in 1..n : Uses(i)' = Uses(i)
  BY <1>2 DEF Uses
<1>6. \A i \in 1..(n + 1) : rollout_run'[i].reward <= 0 =>
        Uses(i)' <= (IF rollout_run'[i].used = 0 THEN 0 ELSE 1) + faults["mark"]
  <2>1. \A i \in 1..n : rollout_run[i].reward <= 0 =>
          Uses(i) <= (IF rollout_run[i].used = 0 THEN 0 ELSE 1) + faults["mark"]
    BY <1>2 DEF UsesInv
  <2>2. 0 <= (IF rollout_run'[n + 1].used = 0 THEN 0 ELSE 1) + faults["mark"]
    BY <1>2
  <2>3. \A i \in 1..(n + 1) : i \in 1..n \/ i = n + 1
    BY <1>2
  <2>. SUFFICES ASSUME NEW i \in 1..(n + 1), rollout_run'[i].reward <= 0
                PROVE  Uses(i)' <= (IF rollout_run'[i].used = 0 THEN 0 ELSE 1) + faults["mark"]
    OBVIOUS
  <2>4. CASE i \in 1..n
    BY <1>3, <1>5, <2>1, <2>4
  <2>5. CASE i = n + 1
    BY <1>4, <2>2, <2>5
  <2>. QED  BY <2>3, <2>4, <2>5
<1>. QED  BY <1>2, <1>3, <1>6 DEF UsesInv

\* The failed rows of a batch were unused, and are marked but for one, whose mark is lost.
LEMMA SelectUses ==
  ASSUME TypeOK, UsesInv, Select
  PROVE  UsesInv'
<1>1. PICK sel \in filter_fn(rollout_run, top_mvs) :
        LET taken == {t \in DOMAIN sel : Turn(sel, t) < batch_max}
            rows  == UNION {sel[t] : t \in taken}
        IN
        \/ /\ \/ Mark(rows) /\ UNCHANGED faults
              \/ Fault("mark") /\ \E i \in rows : Mark(rows \ {i})
           /\ pc' = "train" /\ batch' = rows
        \/ /\ Fault("trainer") /\ \E M \in SUBSET rows : Mark(M)
           /\ pc' = "down" /\ batch' = {}
  BY DEF Select
<1>. DEFINE rows == UNION {sel[t] : t \in {t \in DOMAIN sel : Turn(sel, t) < batch_max}}
<1>2. ASSUME NEW i \in rows
      PROVE  i \in DOMAIN rollout_run
             /\ (rollout_run[i].reward <= 0 => rollout_run[i].used = 0)
  <2>1. PICK t \in DOMAIN sel : i \in sel[t]
    OBVIOUS
  <2>2. i \in DOMAIN rollout_run /\ (i \notin Positive(rollout_run) => i \in Base(rollout_run, top_mvs))
    BY <2>1, SelectionRows
  <2>3. rollout_run[i].reward \in Reward
    BY <2>2, UsesTypes DEF Row
  <2>4. rollout_run[i].reward <= 0 => ~(rollout_run[i].reward > 0)
    <3>1. \A r \in Reward : r \in Int
      BY TrainingAssumption, FilterAssumption
    <3>. QED  BY <2>3, <3>1
  <2>5. rollout_run[i].reward <= 0 => i \in Base(rollout_run, top_mvs)
    BY <2>2, <2>4 DEF Positive
  <2>. QED  BY <2>2, <2>5 DEF Base
<1>3. /\ batch = {} /\ trained' = trained /\ faults["mark"] \in Nat
      /\ \A i \in DOMAIN rollout_run : trained[i] \in Nat /\ rollout_run[i].used \in Nat
  <2>1. batch = {} /\ trained' = trained
    BY DEF Select, UsesInv
  <2>2. \A i \in DOMAIN rollout_run : rollout_run[i].used \in Nat
    BY UsesTypes DEF Row
  <2>. QED  BY <2>1, <2>2, UsesTypes
<1>4. \A i \in DOMAIN rollout_run : rollout_run[i].reward <= 0 =>
        trained[i] <= (IF rollout_run[i].used = 0 THEN 0 ELSE 1) + faults["mark"]
  BY <1>3 DEF UsesInv, Uses
\* What a step keeps that marks M, a part of the rows of the batch.
<1>5. ASSUME NEW M \in SUBSET rows, Mark(M)
      PROVE  /\ DOMAIN rollout_run' = DOMAIN rollout_run
             /\ Len(rollout_run') = Len(rollout_run)
             /\ \A i \in DOMAIN rollout_run : rollout_run'[i].reward <= 0 =>
                  /\ rollout_run[i].reward <= 0
                  /\ trained[i] <= (IF rollout_run'[i].used = 0 THEN 0 ELSE 1) + faults["mark"]
                  /\ i \in M => /\ trained[i] + 1 <= 1 + faults["mark"]
                                /\ rollout_run'[i].used # 0
                  /\ i \in rows => trained[i] <= faults["mark"]
  <2>1. /\ DOMAIN rollout_run' = DOMAIN rollout_run
        /\ Len(rollout_run') = Len(rollout_run)
        /\ \A i \in DOMAIN rollout_run :
              /\ rollout_run'[i].reward = rollout_run[i].reward
              /\ rollout_run'[i].used = IF i \in M THEN rollout_run[i].used + 1
                                        ELSE rollout_run[i].used
    BY <1>5, MarkKeepsRows
  <2>2. ASSUME NEW i \in DOMAIN rollout_run, rollout_run'[i].reward <= 0
        PROVE  /\ rollout_run[i].reward <= 0
               /\ trained[i] <= (IF rollout_run'[i].used = 0 THEN 0 ELSE 1) + faults["mark"]
               /\ i \in M => /\ trained[i] + 1 <= 1 + faults["mark"]
                             /\ rollout_run'[i].used # 0
               /\ i \in rows => trained[i] <= faults["mark"]
    <3>1. rollout_run[i].reward <= 0
      BY <2>1, <2>2
    <3>2. trained[i] <= (IF rollout_run[i].used = 0 THEN 0 ELSE 1) + faults["mark"]
      BY <1>4, <3>1
    <3>3. i \in rows => rollout_run[i].used = 0
      BY <1>2, <3>1
    <3>4. i \in M => i \in rows
      OBVIOUS
    <3>. HIDE DEF rows
    <3>5. trained[i] \in Nat /\ rollout_run[i].used \in Nat /\ faults["mark"] \in Nat
      BY <1>3
    <3>. QED  BY <2>1, <3>1, <3>2, <3>3, <3>4, <3>5
  <2>. QED  BY <2>1, <2>2
<1>6. CASE /\ Mark(rows) /\ UNCHANGED faults
           /\ pc' = "train" /\ batch' = rows
  <2>. HIDE DEF rows
  <2>. QED  BY <1>3, <1>5, <1>6 DEF UsesInv, Uses
<1>7. CASE /\ Fault("mark") /\ \E i \in rows : Mark(rows \ {i})
           /\ pc' = "train" /\ batch' = rows
  <2>1. faults'["mark"] = faults["mark"] + 1
    BY <1>7, FaultCounts DEF Kinds
  <2>2. PICK j \in rows : Mark(rows \ {j})
    BY <1>7
  <2>. HIDE DEF rows
  <2>3. rows \ {j} \in SUBSET rows
    OBVIOUS
  <2>. QED  BY <1>3, <1>5, <1>7, <2>1, <2>2, <2>3 DEF UsesInv, Uses
<1>8. CASE /\ Fault("trainer") /\ \E M \in SUBSET rows : Mark(M)
           /\ pc' = "down" /\ batch' = {}
  <2>1. faults'["mark"] = faults["mark"]
    BY <1>8, FaultCounts DEF Kinds
  <2>. HIDE DEF rows
  <2>. QED  BY <1>3, <1>5, <1>8, <2>1 DEF UsesInv, Uses
<1>. QED  BY <1>1, <1>6, <1>7, <1>8

\* Training moves a row from the batch to what has been trained on.
LEMMA TrainUses ==
  ASSUME TypeOK, UsesInv, Train
  PROVE  UsesInv'
<1>1. /\ pc = "train" /\ pc' # "train" /\ batch' = {} /\ UNCHANGED <<rollout_run, faults>>
      /\ trained' = [i \in 1..MaxRows |-> IF i \in batch \ Positive(rollout_run)
                                          THEN trained[i] + 1 ELSE trained[i]]
  BY DEF Train, Advance
<1>2. /\ DOMAIN rollout_run \subseteq 1..MaxRows
      /\ \A i \in 1..MaxRows : trained[i] \in Nat
      /\ \A i \in batch : i \in Nat /\ i <= Len(rollout_run)
      /\ Len(rollout_run) \in Nat
  BY UsesTypes
<1>3. ASSUME NEW i \in DOMAIN rollout_run, rollout_run[i].reward <= 0
      PROVE  Uses(i)' = Uses(i)
  <2>1. i \notin Positive(rollout_run)
    <3>1. rollout_run[i].reward \in Int
      <4>1. rollout_run[i].reward \in Reward
        BY UsesTypes DEF Row
      <4>2. \A r \in Reward : r \in Int
        BY TrainingAssumption, FilterAssumption
      <4>. QED  BY <4>1, <4>2
    <3>. QED  BY <1>3, <3>1 DEF Positive
  <2>. QED  BY <1>1, <1>2, <2>1 DEF Uses
<1>4. \A i \in 1..MaxRows : i > Len(rollout_run) => trained'[i] = 0
  BY <1>1, <1>2 DEF UsesInv
<1>. QED  BY <1>1, <1>3, <1>4 DEF UsesInv

LEMMA NextUsesInv == TypeOK /\ UsesInv /\ [Next]_vars => UsesInv'
<1>. SUFFICES ASSUME TypeOK, UsesInv, [Next]_vars PROVE UsesInv'
  OBVIOUS
<1>. USE DEF poolVars, datasetVars, diskVars, trainerVars
<1>1. ASSUME NEW w \in Worker, Answer(w) PROVE UsesInv'
  BY <1>1, UsesUnchanged DEF Answer
<1>2. ASSUME NEW w \in Worker, NoAnswer(w) PROVE UsesInv'
  BY <1>2, UsesUnchanged DEF NoAnswer
<1>3. CASE PoolStep \/ Wait \/ UNCHANGED vars
  BY <1>3, UsesUnchanged DEF PoolStep, Service!Turnover, Wait, vars
<1>4. CASE GiveUp
  BY <1>4, UsesUnchanged DEF GiveUp
<1>5. CASE Start
  BY <1>5 DEF Start, UsesInv, Uses
<1>6. CASE Save \/ Insert
  BY <1>6, UsesUnchanged DEF Save, Insert
<1>7. CASE Reload
  <2>1. faults'["mark"] = faults["mark"]
    BY <1>7, FaultCounts DEF Reload, Kinds
  <2>. QED  BY <1>7, <2>1, UsesUnchanged DEF Reload
<1>8. CASE Crash
  <2>1. faults'["mark"] = faults["mark"] /\ batch' = {} /\ UNCHANGED <<rollout_run, trained>>
    BY <1>8, FaultCounts DEF Crash, Kinds
  <2>2. /\ DOMAIN rollout_run \subseteq 1..MaxRows /\ faults["mark"] \in Nat
        /\ \A i \in 1..MaxRows : trained[i] \in Nat
    BY UsesTypes
  <2>3. \A i \in DOMAIN rollout_run : Uses(i)' <= Uses(i) /\ Uses(i) \in Nat /\ Uses(i)' \in Nat
    BY <2>1, <2>2 DEF Uses
  <2>. QED  BY <2>1, <2>2, <2>3 DEF UsesInv
<1>. QED  BY <1>1, <1>2, <1>3, <1>4, <1>5, <1>6, <1>7, <1>8, StoreUses, SelectUses, TrainUses
          DEF Next, RolloutStep, DatasetStep, TrainerStep

\* No failed rollout is trained on twice, however the trainer dies between marking rows
\* and using them; only a lost mark lets a row come back.
THEOREM FailuresTrainedOnce == Spec => []TrainedOnce
<1>1. TypeOK /\ UsesInv => TrainedOnce
  <2>. SUFFICES ASSUME TypeOK, UsesInv, NEW i \in DOMAIN rollout_run, rollout_run[i].reward <= 0
                PROVE  trained[i] <= 1 + faults["mark"]
    BY DEF TrainedOnce
  <2>1. Uses(i) <= 1 + faults["mark"] /\ trained[i] <= Uses(i)
    <3>1. trained[i] \in Nat /\ faults["mark"] \in Nat
      BY UsesTypes
    <3>. QED  BY <3>1 DEF UsesInv, Uses
  <2>2. Uses(i) \in Nat /\ trained[i] \in Nat /\ faults["mark"] \in Nat
    BY UsesTypes DEF Uses
  <2>. QED  BY <2>1, <2>2
<1>. QED  BY <1>1, InitTypeOK, NextTypeOK, InitUsesInv, NextUsesInv, PTL DEF Spec

-----------------------------------------------------------------------------
(* What the pool serves.                                                   *)

\* Registrations the pool may not have followed.
Missed == faults["reload"] + faults["trainer"] + (IF pc = "reload" THEN 1 ELSE 0)

\* The pool's checkpoint is a registered one, and the registrations after it are those
\* whose reload was lost or is still to come.
FollowsInv ==
  /\ checkpoint = <<>> => pc = "down" /\ default_ckpt = 0
  /\ pc = "reload" => /\ checkpoint # <<>>
                      /\ checkpoint[Len(checkpoint)] = global_steps
  /\ checkpoint # <<>> =>
       \E d \in DOMAIN checkpoint : /\ checkpoint[d] = default_ckpt
                                    /\ Len(checkpoint) - d <= Missed

\* The pool starts with the model that is registered first.
LEMMA InitFollows == Init => FollowsInv
BY DEF Init, FollowsInv, Service!Init

\* The counters of faults are numbers, and a fault adds to the one of its kind.
LEMMA FaultsGrow ==
  ASSUME TypeOK
  PROVE  /\ \A k \in Kinds : faults[k] \in Nat
         /\ \A k \in Kinds : Fault(k) =>
              \A l \in Kinds : faults'[l] = IF l = k THEN faults[l] + 1 ELSE faults[l]
BY DEF TypeOK, Fault

\* While the tables and the pool stay, a step that loses nothing, or counts what it
\* loses, keeps FollowsInv.
LEMMA FollowsUnchanged ==
  ASSUME TypeOK, FollowsInv, UNCHANGED <<checkpoint, default_ckpt>>, checkpoint # <<>>,
         pc' # "reload", Missed \in Int, Missed' \in Int, Missed <= Missed'
  PROVE  FollowsInv'
<1>1. PICK d \in DOMAIN checkpoint : /\ checkpoint[d] = default_ckpt
                                     /\ Len(checkpoint) - d <= Missed
  BY DEF FollowsInv
<1>2. d \in Int /\ Len(checkpoint) \in Int
  BY DEF TypeOK
<1>3. Len(checkpoint) - d <= Missed'
  BY <1>1, <1>2
<1>. QED  BY <1>1, <1>3 DEF FollowsInv

\* Every step keeps FollowsInv.
LEMMA NextFollows == TypeOK /\ FollowsInv /\ [Next]_vars => FollowsInv'
<1>. SUFFICES ASSUME TypeOK, FollowsInv, [Next]_vars PROVE FollowsInv'
  OBVIOUS
<1>. USE DEF poolVars, datasetVars, diskVars, trainerVars
<1>1. /\ faults["reload"] \in Nat /\ faults["trainer"] \in Nat
      /\ \A k \in Kinds : Fault(k) =>
           /\ faults'["reload"] = IF k = "reload" THEN faults["reload"] + 1 ELSE faults["reload"]
           /\ faults'["trainer"] = IF k = "trainer" THEN faults["trainer"] + 1
                                   ELSE faults["trainer"]
  BY FaultsGrow DEF Kinds
<1>2. {"trainer", "reload", "mark"} \subseteq Kinds
  BY DEF Kinds
<1>3. CASE UNCHANGED <<checkpoint, default_ckpt, pc, global_steps>>
           /\ faults'["reload"] = faults["reload"] /\ faults'["trainer"] = faults["trainer"]
  BY <1>3 DEF FollowsInv, Missed
<1>4. CASE RolloutStep \/ PoolStep \/ Wait \/ UNCHANGED vars
  <2>1. UNCHANGED <<checkpoint, default_ckpt, pc, global_steps>>
    BY <1>4 DEF RolloutStep, Answer, NoAnswer, Store, PoolStep, Service!Turnover, Wait, vars
  <2>2. faults' = faults
    BY <1>4 DEF RolloutStep, Answer, NoAnswer, Store, PoolStep, Wait, vars
  <2>. QED  BY <1>1, <1>2, <1>3, <2>1, <2>2
<1>5. CASE GiveUp \/ Select
  <2>1. /\ pc = "poll" /\ pc' # "reload" /\ UNCHANGED <<checkpoint, default_ckpt>>
        /\ faults' = faults \/ Fault("mark") \/ Fault("trainer")
    BY <1>5 DEF GiveUp, Select
  <2>2. checkpoint # <<>>
    BY <2>1 DEF FollowsInv
  <2>3. Missed \in Int /\ Missed' \in Int /\ Missed <= Missed'
    BY <1>1, <1>2, <2>1 DEF Missed
  <2>. QED  BY <2>1, <2>2, <2>3, FollowsUnchanged
<1>6. CASE Train \/ Save
  <2>1. /\ pc \in {"train", "save"} /\ pc' # "reload"
        /\ UNCHANGED <<checkpoint, default_ckpt, faults>>
    BY <1>6 DEF Train, Save, Advance
  <2>2. checkpoint # <<>>
    BY <2>1 DEF FollowsInv
  <2>3. Missed \in Int /\ Missed' \in Int /\ Missed <= Missed'
    BY <1>1, <2>1 DEF Missed
  <2>. QED  BY <2>1, <2>2, <2>3, FollowsUnchanged
<1>7. CASE Insert
  <2>1. /\ pc = "insert" /\ pc' = "reload" /\ checkpoint' = Append(checkpoint, global_steps)
        /\ UNCHANGED <<default_ckpt, global_steps, faults>>
    BY <1>7 DEF Insert
  <2>2. checkpoint \in Seq(Nat) /\ Len(checkpoint) \in Nat /\ global_steps \in Nat
    BY DEF TypeOK
  <2>3. /\ Len(checkpoint') = Len(checkpoint) + 1
        /\ DOMAIN checkpoint' = 1 .. Len(checkpoint) + 1
        /\ DOMAIN checkpoint = 1 .. Len(checkpoint)
        /\ checkpoint'[Len(checkpoint) + 1] = global_steps
        /\ \A i \in 1 .. Len(checkpoint) : checkpoint'[i] = checkpoint[i]
    BY <2>1, <2>2, AppendProperties
  <2>4. PICK d \in DOMAIN checkpoint : /\ checkpoint[d] = default_ckpt
                                       /\ Len(checkpoint) - d <= Missed
    BY <2>1 DEF FollowsInv
  <2>5. Missed' = Missed + 1 /\ Missed \in Int
    BY <1>1, <2>1 DEF Missed
  <2>6. d \in DOMAIN checkpoint' /\ checkpoint'[d] = default_ckpt'
        /\ Len(checkpoint') - d <= Missed'
    BY <2>1, <2>2, <2>3, <2>4, <2>5
  <2>7. checkpoint' # <<>>
    BY <2>2, <2>3
  <2>. QED  BY <2>1, <2>3, <2>6, <2>7 DEF FollowsInv
<1>8. CASE Reload
  <2>1. /\ pc = "reload" /\ pc' # "reload" /\ UNCHANGED checkpoint
        /\ checkpoint # <<>> /\ checkpoint[Len(checkpoint)] = global_steps
    BY <1>8 DEF Reload, Advance, FollowsInv
  <2>2. CASE default_ckpt' = global_steps /\ UNCHANGED faults
    <3>1. Len(checkpoint) \in DOMAIN checkpoint /\ Len(checkpoint) \in Nat
      BY <2>1 DEF TypeOK
    <3>2. Len(checkpoint) - Len(checkpoint) <= Missed'
      BY <1>1, <2>1, <2>2, <3>1 DEF Missed
    <3>. QED  BY <2>1, <2>2, <3>1, <3>2 DEF FollowsInv
  <2>3. CASE Fault("reload") /\ UNCHANGED default_ckpt
    <3>1. Missed \in Int /\ Missed' \in Int /\ Missed <= Missed'
      BY <1>1, <1>2, <2>1, <2>3 DEF Missed
    <3>. QED  BY <2>1, <2>3, <3>1, FollowsUnchanged
  <2>. QED  BY <1>8, <2>2, <2>3 DEF Reload, Service!Switch
<1>9. CASE Crash
  <2>1. /\ pc # "down" /\ pc' = "down" /\ Fault("trainer") /\ UNCHANGED <<checkpoint, default_ckpt>>
    BY <1>9 DEF Crash
  <2>2. checkpoint # <<>>
    BY <2>1 DEF FollowsInv
  <2>3. Missed \in Int /\ Missed' \in Int /\ Missed <= Missed'
    BY <1>1, <1>2, <2>1 DEF Missed
  <2>. QED  BY <2>1, <2>2, <2>3, FollowsUnchanged
<1>10. CASE Start
  <2>1. /\ pc \in {"down", "failed"} /\ pc' = "poll" /\ UNCHANGED <<default_ckpt, faults>>
        /\ checkpoint' = IF checkpoint = <<>> THEN <<0>> ELSE checkpoint
    BY <1>10 DEF Start
  <2>2. Missed \in Nat /\ Missed' \in Nat /\ Missed <= Missed'
    BY <1>1, <2>1 DEF Missed
  <2>3. CASE checkpoint = <<>>
    <3>1. checkpoint' = <<0>> /\ default_ckpt' = 0
      BY <2>1, <2>3 DEF FollowsInv
    <3>2. 1 \in DOMAIN checkpoint' /\ checkpoint'[1] = default_ckpt' /\ Len(checkpoint') - 1 = 0
      BY <3>1
    <3>. QED  BY <2>1, <2>2, <3>1, <3>2 DEF FollowsInv
  <2>4. CASE checkpoint # <<>>
    BY <2>1, <2>2, <2>4, FollowsUnchanged
  <2>. QED  BY <2>3, <2>4
<1>. QED  BY <1>4, <1>5, <1>6, <1>7, <1>8, <1>9, <1>10 DEF Next, DatasetStep, TrainerStep

\* While fewer reloads are missing than the window has versions, the rollouts that the
\* pool produces are ones the trainer may use, for every schedule of saves, deaths and
\* lost reloads (ray_trainer_async.py:391-462).
THEOREM PoolServesWindow == Spec => []ServedOnPolicy
<1>1. TypeOK /\ FollowsInv => ServedOnPolicy
  <2>. SUFFICES ASSUME TypeOK, FollowsInv, Missed < top_mvs_n, checkpoint # <<>>
                PROVE  default_ckpt \in top_mvs
    BY DEF ServedOnPolicy, Missed
  <2>1. PICK d \in DOMAIN checkpoint : /\ checkpoint[d] = default_ckpt
                                       /\ Len(checkpoint) - d <= Missed
    BY DEF FollowsInv
  <2>2. /\ d \in Int /\ Len(checkpoint) \in Int /\ top_mvs_n \in Int
        /\ faults["reload"] \in Nat /\ faults["trainer"] \in Nat
    <3>1. faults["reload"] \in Nat /\ faults["trainer"] \in Nat
      BY FaultsGrow DEF Kinds
    <3>2. d \in Int /\ Len(checkpoint) \in Int /\ top_mvs_n \in Int
      BY TrainingAssumption DEF TypeOK
    <3>. QED  BY <3>1, <3>2
  <2>3. d > Len(checkpoint) - top_mvs_n
    BY <2>1, <2>2 DEF Missed
  <2>. QED  BY <2>1, <2>3 DEF top_mvs
<1>. QED  BY <1>1, InitTypeOK, NextTypeOK, InitFollows, NextFollows, PTL DEF Spec

-----------------------------------------------------------------------------
(* How old the rollouts of a batch are.                                    *)

\* Arithmetic the solver does not find by itself.
LEMMA ScaleStep ==
  ASSUME NEW n \in Nat, NEW s \in Nat
  PROVE  n * s \in Nat /\ (n + 1) * s = n * s + s
OBVIOUS

LEMMA ScaleMono ==
  ASSUME NEW m \in Nat, NEW n \in Nat, NEW s \in Nat, m <= n
  PROVE  m * s <= n * s
<1>1. n - m \in Nat /\ n = m + (n - m)
  OBVIOUS
<1>2. (m + (n - m)) * s = m * s + (n - m) * s
  BY <1>1
<1>3. (n - m) * s \in Nat /\ m * s \in Nat
  BY <1>1
<1>. QED  BY <1>1, <1>2, <1>3

\* After a multiple comes the next one.
LEMMA NextMultiple ==
  ASSUME NEW a \in Nat, NEW s \in Nat \ {0}, a % s = 0
  PROVE  (a + s) % s = 0
<1>. DEFINE q == a \div s
            p == (a + s) \div s
            r == (a + s) % s
<1>1. q \in Int /\ p \in Int /\ r \in Int /\ 0 <= r /\ r < s
  OBVIOUS
<1>2. a = s * q /\ a + s = s * p + r
  OBVIOUS
<1>. HIDE DEF q, p, r
<1>3. s * (q + 1 - p) = r
  BY <1>1, <1>2
<1>4. q + 1 - p < 1 /\ q + 1 - p > -1
  BY <1>1, <1>3
<1>5. r = 0
  BY <1>1, <1>3, <1>4
<1>. QED  BY <1>5 DEF r

\* Steps between registered versions that are accounted for by a death of the trainer,
\* or by a checkpoint that is saved and not registered yet.
Lost == faults["trainer"] + (IF pc = "insert" THEN 1 ELSE 0)

\* Saves are at most save_freq steps apart, and the i-th last version is at most i saves
\* back, unless deaths have kept some from being registered.
PaceInv ==
  /\ checkpoint = <<>> => latest = 0 /\ pc = "down"
  /\ latest % save_freq = 0 \/ latest >= total_training_steps
  /\ pc = "save" => SaveDue
  /\ pc \in {"poll", "train", "save"} => global_steps <= latest + save_freq
  /\ \A i \in DOMAIN checkpoint :
       latest - checkpoint[i] <= (Len(checkpoint) - i + Lost) * save_freq

\* The numbers involved.
LEMMA PaceTypes ==
  ASSUME TypeOK
  PROVE  /\ save_freq \in Nat \ {0} /\ total_training_steps \in Nat /\ top_mvs_n \in Nat \ {0}
         /\ latest \in Nat /\ global_steps \in Nat /\ faults["trainer"] \in Nat /\ Lost \in Nat
         /\ Len(checkpoint) \in Nat /\ checkpoint \in Seq(Nat)
         /\ \A i \in DOMAIN checkpoint : /\ checkpoint[i] \in Nat /\ i \in Nat
                                         /\ Len(checkpoint) - i \in Nat
<1>1. faults["trainer"] \in Nat
  BY FaultsGrow DEF Kinds
<1>2. \A i \in DOMAIN checkpoint : checkpoint[i] \in Nat /\ i \in 1 .. Len(checkpoint)
  BY ElementOfSeq DEF TypeOK
<1>3. /\ save_freq \in Nat \ {0} /\ total_training_steps \in Nat /\ top_mvs_n \in Nat \ {0}
  BY TrainingAssumption
<1>4. Lost \in Nat
  BY <1>1 DEF Lost
<1>5. /\ latest \in Nat /\ global_steps \in Nat /\ checkpoint \in Seq(Nat)
      /\ Len(checkpoint) \in Nat
  BY DEF TypeOK
<1>. QED  BY <1>1, <1>2, <1>3, <1>4, <1>5

LEMMA InitPace == Init => PaceInv
<1>. SUFFICES ASSUME Init PROVE PaceInv
  OBVIOUS
<1>1. 0 % save_freq = 0
  BY TrainingAssumption
<1>. QED  BY <1>1 DEF Init, PaceInv

\* While the tables stay, losing more changes nothing.
LEMMA LagUnchanged ==
  ASSUME TypeOK, PaceInv, UNCHANGED <<checkpoint, latest>>, Lost' \in Nat, Lost <= Lost'
  PROVE  \A i \in DOMAIN checkpoint' :
           latest' - checkpoint'[i] <= (Len(checkpoint') - i + Lost') * save_freq
<1>. SUFFICES ASSUME NEW i \in DOMAIN checkpoint
              PROVE  latest - checkpoint[i] <= (Len(checkpoint) - i + Lost') * save_freq
  OBVIOUS
<1>. DEFINE m == Len(checkpoint) - i + Lost
            n == Len(checkpoint) - i + Lost'
<1>0. /\ Len(checkpoint) - i \in Nat /\ Lost \in Nat /\ save_freq \in Nat
      /\ Lost' \in Nat /\ Lost <= Lost'
  BY PaceTypes
<1>1. m \in Nat /\ n \in Nat /\ m <= n /\ save_freq \in Nat
  BY <1>0
<1>2. m * save_freq <= n * save_freq /\ m * save_freq \in Nat /\ n * save_freq \in Nat
  <2>. HIDE DEF m, n
  <2>. QED  BY <1>1, ScaleMono, ScaleStep
<1>3. latest - checkpoint[i] <= m * save_freq /\ latest - checkpoint[i] \in Int
  BY PaceTypes DEF PaceInv
<1>4. latest - checkpoint[i] <= n * save_freq
  <2>. HIDE DEF m, n
  <2>. QED  BY <1>2, <1>3
<1>. QED  BY <1>4

\* The step that is saved is at most save_freq after the one saved before.
LEMMA SavePace ==
  ASSUME TypeOK, PaceInv, Save
  PROVE  PaceInv'
<1>1. /\ pc = "save" /\ pc' = "insert" /\ latest' = global_steps
      /\ UNCHANGED <<checkpoint, faults, global_steps>>
  BY DEF Save
<1>2. global_steps % save_freq = 0 \/ global_steps >= total_training_steps
  BY <1>1 DEF PaceInv, SaveDue, is_last_step
<1>3. Lost' = Lost + 1
  BY <1>1, PaceTypes DEF Lost
<1>4. ASSUME NEW i \in DOMAIN checkpoint
      PROVE  global_steps - checkpoint[i] <= (Len(checkpoint) - i + Lost') * save_freq
  <2>. DEFINE m == Len(checkpoint) - i + Lost
  <2>0. Len(checkpoint) - i \in Nat /\ Lost \in Nat /\ save_freq \in Nat
    BY PaceTypes
  <2>1. m \in Nat /\ save_freq \in Nat
    BY <2>0
  <2>2. (m + 1) * save_freq = m * save_freq + save_freq /\ m * save_freq \in Nat
    <3>. HIDE DEF m
    <3>. QED  BY <2>1, ScaleStep
  <2>3. latest - checkpoint[i] <= m * save_freq /\ global_steps <= latest + save_freq
    BY <1>1 DEF PaceInv
  <2>4. Len(checkpoint) - i + Lost' = m + 1
    BY <1>3, <2>0
  <2>5. global_steps - checkpoint[i] <= (m + 1) * save_freq
    <3>1. global_steps \in Nat /\ latest \in Nat /\ checkpoint[i] \in Nat
      BY PaceTypes
    <3>. HIDE DEF m
    <3>. QED  BY <2>1, <2>2, <2>3, <3>1
  <2>. QED  BY <2>4, <2>5
<1>5. checkpoint # <<>>
  BY <1>1 DEF PaceInv
<1>. QED  BY <1>1, <1>2, <1>4, <1>5 DEF PaceInv

\* The version that is registered is the step just saved.
LEMMA InsertPace ==
  ASSUME TypeOK, VersionsInv, PaceInv, Insert
  PROVE  PaceInv'
<1>1. /\ pc = "insert" /\ pc' = "reload" /\ global_steps = latest
      /\ checkpoint' = Append(checkpoint, latest) /\ UNCHANGED <<latest, faults, global_steps>>
  BY DEF Insert, diskVars, VersionsInv, StepsInv
<1>2. /\ Len(checkpoint') = Len(checkpoint) + 1
      /\ DOMAIN checkpoint' = 1 .. Len(checkpoint) + 1
      /\ DOMAIN checkpoint = 1 .. Len(checkpoint)
      /\ checkpoint'[Len(checkpoint) + 1] = latest
      /\ \A i \in 1 .. Len(checkpoint) : checkpoint'[i] = checkpoint[i]
  BY <1>1, PaceTypes, AppendProperties
<1>3. Lost = Lost' + 1 /\ Lost' \in Nat
  BY <1>1, PaceTypes DEF Lost
<1>4. ASSUME NEW i \in DOMAIN checkpoint'
      PROVE  latest - checkpoint'[i] <= (Len(checkpoint') - i + Lost') * save_freq
  <2>1. CASE i = Len(checkpoint) + 1
    <3>0. Len(checkpoint') = i /\ i \in Int
      BY <1>2, <2>1, PaceTypes
    <3>1. Len(checkpoint') - i + Lost' = Lost'
      BY <1>3, <3>0
    <3>2. Lost' * save_freq \in Nat
      BY <1>3, PaceTypes, ScaleStep
    <3>. QED  BY <1>2, <2>1, <3>1, <3>2, PaceTypes
  <2>2. CASE i # Len(checkpoint) + 1
    <3>1. i \in DOMAIN checkpoint /\ checkpoint'[i] = checkpoint[i]
      BY <1>2, <2>2, PaceTypes
    <3>2. Len(checkpoint') - i + Lost' = Len(checkpoint) - i + Lost
      BY <1>2, <1>3, <3>1, PaceTypes
    <3>. QED  BY <3>1, <3>2 DEF PaceInv
  <2>. QED  BY <2>1, <2>2
<1>5. checkpoint' # <<>>
  BY <1>2, PaceTypes
<1>. QED  BY <1>1, <1>4, <1>5 DEF PaceInv

\* A step that is not saved is less than save_freq after the last one that was.
LEMMA TrainPace ==
  ASSUME TypeOK, VersionsInv, PaceInv, Train
  PROVE  PaceInv'
<1>1. /\ pc = "train" /\ pc' \in {"save", "poll", "done"}
      /\ UNCHANGED <<checkpoint, latest, faults>>
      /\ pc' = "save" => SaveDue /\ UNCHANGED global_steps
      /\ pc' = "poll" => ~SaveDue /\ global_steps' = global_steps + 1
  BY DEF Train, Advance, diskVars
<1>2. /\ latest \in Nat /\ global_steps \in Nat /\ save_freq \in Nat \ {0}
      /\ total_training_steps \in Nat
      /\ global_steps > latest /\ global_steps <= latest + save_freq
  BY <1>1, PaceTypes DEF PaceInv, VersionsInv, StepsInv
<1>3. ~SaveDue => global_steps < latest + save_freq
  <2>. SUFFICES ASSUME ~SaveDue PROVE global_steps # latest + save_freq
    BY <1>2
  <2>1. latest % save_freq = 0
    BY <1>2 DEF PaceInv, SaveDue, is_last_step
  <2>. QED  BY <1>2, <2>1, NextMultiple DEF SaveDue
<1>4. Lost' \in Nat /\ Lost <= Lost'
  BY <1>1, PaceTypes DEF Lost
<1>5. pc' \in {"poll", "train", "save"} => global_steps' <= latest' + save_freq
  BY <1>1, <1>2, <1>3
<1>6. pc' = "save" => SaveDue'
  BY <1>1 DEF SaveDue, is_last_step
<1>7. checkpoint # <<>>
  BY <1>1 DEF PaceInv
<1>8. \A i \in DOMAIN checkpoint' :
        latest' - checkpoint'[i] <= (Len(checkpoint') - i + Lost') * save_freq
  BY <1>1, <1>4, LagUnchanged
<1>. QED  BY <1>1, <1>5, <1>6, <1>7, <1>8 DEF PaceInv

\* Every step keeps the pace.
LEMMA NextPace == TypeOK /\ VersionsInv /\ PaceInv /\ [Next]_vars => PaceInv'
<1>. SUFFICES ASSUME TypeOK, VersionsInv, PaceInv, [Next]_vars PROVE PaceInv'
  OBVIOUS
<1>. USE DEF poolVars, datasetVars, diskVars, trainerVars
<1>1. /\ faults["trainer"] \in Nat
      /\ \A k \in Kinds : Fault(k) =>
           faults'["trainer"] = IF k = "trainer" THEN faults["trainer"] + 1 ELSE faults["trainer"]
  BY FaultsGrow DEF Kinds
<1>2. {"trainer", "reload", "mark"} \subseteq Kinds
  BY DEF Kinds
\* A step that leaves the tables alone, and does not go on to a save.
<1>3. ASSUME UNCHANGED <<checkpoint, latest>>, checkpoint # <<>>, pc' # "save", pc' # "insert",
             pc' \in {"poll", "train"} => global_steps' <= latest + save_freq,
             faults'["trainer"] \in Nat,
             Lost <= faults'["trainer"]
      PROVE  PaceInv'
  <2>1. Lost' = faults'["trainer"]
    BY <1>3 DEF Lost
  <2>2. \A i \in DOMAIN checkpoint' :
          latest' - checkpoint'[i] <= (Len(checkpoint') - i + Lost') * save_freq
    BY <1>3, <2>1, LagUnchanged
  <2>. QED  BY <1>3, <2>2 DEF PaceInv
<1>4. CASE RolloutStep \/ PoolStep \/ Wait \/ UNCHANGED vars
  <2>1. UNCHANGED <<checkpoint, latest, pc, global_steps>>
    BY <1>4 DEF RolloutStep, Answer, NoAnswer, Store, PoolStep, Service!Turnover, Wait, vars
  <2>2. faults' = faults
    BY <1>4 DEF RolloutStep, Answer, NoAnswer, Store, PoolStep, Wait, vars
  <2>3. Lost' = Lost
    BY <1>1, <1>2, <2>1, <2>2 DEF Lost
  <2>. QED  BY <2>1, <2>3 DEF PaceInv, SaveDue, is_last_step
<1>5. CASE GiveUp \/ Select
  <2>1. /\ pc = "poll" /\ pc' \in {"failed", "train", "down"}
        /\ UNCHANGED <<checkpoint, latest, global_steps>>
        /\ faults' = faults \/ Fault("mark") \/ Fault("trainer")
    BY <1>5 DEF GiveUp, Select
  <2>2. /\ Lost = faults["trainer"] /\ faults'["trainer"] \in Nat
        /\ faults["trainer"] <= faults'["trainer"]
    BY <1>1, <1>2, <2>1 DEF Lost
  <2>3. checkpoint # <<>> /\ global_steps <= latest + save_freq
    BY <2>1 DEF PaceInv
  <2>. QED  BY <1>3, <2>1, <2>2, <2>3
<1>6. CASE Reload
  <2>1. /\ pc = "reload" /\ pc' \in {"done", "poll"} /\ UNCHANGED <<checkpoint, latest>>
        /\ global_steps' = global_steps + 1 /\ global_steps = latest
        /\ faults' = faults \/ Fault("reload")
    BY <1>6 DEF Reload, Advance, VersionsInv, StepsInv
  <2>2. /\ Lost = faults["trainer"] /\ faults'["trainer"] = faults["trainer"]
    BY <1>1, <1>2, <2>1 DEF Lost
  <2>3. checkpoint # <<>> /\ global_steps' <= latest + save_freq
    BY <2>1, PaceTypes DEF PaceInv
  <2>. QED  BY <1>1, <1>3, <2>1, <2>2, <2>3
<1>7. CASE Crash
  <2>1. /\ pc # "down" /\ pc' = "down" /\ Fault("trainer") /\ UNCHANGED <<checkpoint, latest>>
    BY <1>7 DEF Crash
  <2>2. faults'["trainer"] = faults["trainer"] + 1
    BY <1>1, <1>2, <2>1
  <2>3. Lost <= faults'["trainer"] /\ faults'["trainer"] \in Nat
    BY <1>1, <2>2 DEF Lost
  <2>4. checkpoint # <<>>
    BY <2>1 DEF PaceInv
  <2>. QED  BY <1>3, <2>1, <2>3, <2>4
<1>8. CASE Start
  <2>1. /\ pc \in {"down", "failed"} /\ pc' = "poll" /\ UNCHANGED <<latest, faults>>
        /\ global_steps' = latest + 1
        /\ checkpoint' = IF checkpoint = <<>> THEN <<0>> ELSE checkpoint
    BY <1>8 DEF Start
  <2>2. Lost = faults["trainer"] /\ Lost' = Lost
    BY <1>1, <2>1 DEF Lost
  <2>3. global_steps' <= latest + save_freq
    BY <2>1, PaceTypes
  <2>4. CASE checkpoint = <<>>
    <3>1. latest = 0 /\ checkpoint' = <<0>>
      BY <2>1, <2>4 DEF PaceInv
    <3>2. Len(checkpoint') - 1 + Lost' = Lost /\ Lost * save_freq \in Nat
      BY <2>2, <3>1, PaceTypes, ScaleStep
    <3>3. \A i \in DOMAIN checkpoint' :
            latest' - checkpoint'[i] <= (Len(checkpoint') - i + Lost') * save_freq
      <4>. SUFFICES ASSUME NEW i \in DOMAIN checkpoint'
                    PROVE  latest' - checkpoint'[i] <= (Len(checkpoint') - i + Lost') * save_freq
        OBVIOUS
      <4>1. i = 1 /\ checkpoint'[i] = 0
        BY <3>1
      <4>. QED  BY <2>1, <3>1, <3>2, <4>1
    <3>4. checkpoint' # <<>>
      BY <3>1
    <3>. QED  BY <2>1, <2>3, <3>3, <3>4 DEF PaceInv
  <2>5. CASE checkpoint # <<>>
    BY <1>1, <1>3, <2>1, <2>2, <2>3, <2>5
  <2>. QED  BY <2>4, <2>5
<1>. QED  BY <1>4, <1>5, <1>6, <1>7, <1>8, TrainPace, SavePace, InsertPace
          DEF Next, DatasetStep, TrainerStep

\* All but the use counter of a row stays what it is.
LEMMA MarkKeepsVersions ==
  ASSUME TypeOK, NEW M, Mark(M)
  PROVE  \A i \in DOMAIN rollout_run :
           /\ rollout_run'[i].model_version = rollout_run[i].model_version
           /\ rollout_run'[i].reward = rollout_run[i].reward
           /\ rollout_run'[i].task_id = rollout_run[i].task_id
<1>1. \A i \in DOMAIN rollout_run : rollout_run[i] \in Row
  BY UsesTypes
<1>2. \A i \in DOMAIN rollout_run :
        rollout_run'[i] = IF i \in M THEN [rollout_run[i] EXCEPT !.used = @ + 1]
                          ELSE rollout_run[i]
  BY DEF Mark
<1>. QED  BY <1>1, <1>2 DEF Row

\* The batch: only a trainer in training has one, and its failures are of versions in
\* the window.
BatchInv ==
  /\ pc # "train" => batch = {}
  /\ BoundedStaleness

LEMMA InitBatch == Init => BatchInv
BY DEF Init, BatchInv, BoundedStaleness

\* The rows of a batch are rows of a selection.
LEMMA BatchRows ==
  ASSUME Select, NEW i \in batch'
  PROVE  /\ i \in DOMAIN rollout_run
         /\ i \notin Positive(rollout_run) => i \in Base(rollout_run, top_mvs)
<1>1. PICK sel \in filter_fn(rollout_run, top_mvs) : \E t \in DOMAIN sel : i \in sel[t]
  BY DEF Select
<1>. QED  BY <1>1, SelectionRows

\* The failures of a selection are of versions in the window.
LEMMA SelectStale ==
  ASSUME TypeOK, PaceInv, Select, NEW i \in batch', rollout_run[i].reward = 0
  PROVE  /\ i \in DOMAIN rollout_run
         /\ global_steps - rollout_run[i].model_version
              <= (top_mvs_n + faults["trainer"]) * save_freq
<1>2. /\ i \in DOMAIN rollout_run
      /\ i \notin Positive(rollout_run) => i \in Base(rollout_run, top_mvs)
  BY BatchRows
<1>3. rollout_run[i].model_version \in top_mvs
  BY <1>2 DEF Positive, Base
<1>4. PICK j \in DOMAIN checkpoint : /\ j > Len(checkpoint) - top_mvs_n
                                     /\ rollout_run[i].model_version = checkpoint[j]
  BY <1>3 DEF top_mvs
<1>. DEFINE f == faults["trainer"]
            m == Len(checkpoint) - j + f
<1>5. /\ Len(checkpoint) - j \in Nat /\ f \in Nat /\ top_mvs_n \in Nat /\ save_freq \in Nat
      /\ j \in Int /\ Len(checkpoint) \in Int
      /\ latest \in Nat /\ global_steps \in Nat /\ checkpoint[j] \in Nat
  BY PaceTypes
<1>6. m \in Nat /\ m + 1 \in Nat /\ top_mvs_n + f \in Nat /\ m + 1 <= top_mvs_n + f
  <2>1. Len(checkpoint) - j + 1 <= top_mvs_n
    BY <1>4, <1>5
  <2>. HIDE DEF f
  <2>. QED  BY <1>5, <2>1
<1>7. pc = "poll" /\ global_steps <= latest + save_freq
  BY DEF Select, PaceInv
<1>8. Lost = f
  BY <1>5, <1>7 DEF Lost
<1>9. latest - checkpoint[j] <= m * save_freq
  BY <1>8 DEF PaceInv
<1>10. /\ (m + 1) * save_freq = m * save_freq + save_freq /\ m * save_freq \in Nat
       /\ (m + 1) * save_freq <= (top_mvs_n + f) * save_freq
       /\ (top_mvs_n + f) * save_freq \in Nat
  <2>. HIDE DEF m, f
  <2>1. (m + 1) * save_freq = m * save_freq + save_freq /\ m * save_freq \in Nat
    BY <1>5, <1>6, ScaleStep
  <2>2. (m + 1) * save_freq <= (top_mvs_n + f) * save_freq
    BY <1>5, <1>6, ScaleMono
  <2>3. (top_mvs_n + f) * save_freq \in Nat
    BY <1>5, <1>6, ScaleStep
  <2>. QED  BY <2>1, <2>2, <2>3
<1>11. global_steps - checkpoint[j] <= (top_mvs_n + f) * save_freq
  <2>. HIDE DEF m, f
  <2>. QED  BY <1>5, <1>7, <1>9, <1>10
<1>. QED  BY <1>2, <1>4, <1>11

\* The bound does not shrink.
LEMMA BoundGrows ==
  ASSUME TypeOK, faults'["trainer"] \in Nat, faults["trainer"] <= faults'["trainer"]
  PROVE  /\ (top_mvs_n + faults["trainer"]) * save_freq \in Nat
         /\ (top_mvs_n + faults'["trainer"]) * save_freq \in Nat
         /\ (top_mvs_n + faults["trainer"]) * save_freq
              <= (top_mvs_n + faults'["trainer"]) * save_freq
<1>. DEFINE m == top_mvs_n + faults["trainer"]
            n == top_mvs_n + faults'["trainer"]
<1>0. top_mvs_n \in Nat /\ save_freq \in Nat /\ faults["trainer"] \in Nat
  BY PaceTypes
<1>1. m \in Nat /\ n \in Nat /\ m <= n
  BY <1>0
<1>2. m * save_freq \in Nat /\ n * save_freq \in Nat /\ m * save_freq <= n * save_freq
  <2>. HIDE DEF m, n
  <2>. QED  BY <1>0, <1>1, ScaleStep, ScaleMono
<1>. QED  BY <1>2

\* Every step keeps BatchInv.
LEMMA NextBatch == TypeOK /\ PaceInv /\ BatchInv /\ [Next]_vars => BatchInv'
<1>. SUFFICES ASSUME TypeOK, PaceInv, BatchInv, [Next]_vars PROVE BatchInv'
  OBVIOUS
<1>. USE DEF poolVars, datasetVars, diskVars, trainerVars
<1>1. /\ faults["trainer"] \in Nat
      /\ \A k \in Kinds : Fault(k) =>
           faults'["trainer"] = IF k = "trainer" THEN faults["trainer"] + 1 ELSE faults["trainer"]
  BY FaultsGrow DEF Kinds
<1>2. {"trainer", "reload", "mark"} \subseteq Kinds
  BY DEF Kinds
<1>3. CASE batch' = {}
  BY <1>3 DEF BatchInv, BoundedStaleness
<1>4. ASSUME UNCHANGED <<pc, batch, global_steps>>, faults'["trainer"] = faults["trainer"],
             \A i \in batch : rollout_run'[i] = rollout_run[i]
      PROVE  BatchInv'
  BY <1>4 DEF BatchInv, BoundedStaleness
<1>5. CASE RolloutStep
  <2>1. UNCHANGED <<pc, batch, global_steps>> /\ faults' = faults
    BY <1>5 DEF RolloutStep, Answer, NoAnswer, Store
  <2>2. \A i \in DOMAIN rollout_run : rollout_run'[i] = rollout_run[i]
    <3>1. CASE \E w \in Worker : Answer(w) \/ NoAnswer(w)
      BY <3>1 DEF Answer, NoAnswer
    <3>2. CASE \E w \in Worker : Store(w)
      <4>1. PICK r : rollout_run' = Append(rollout_run, r)
        BY <3>2 DEF Store
      <4>2. rollout_run \in Seq(Row \cup {r}) /\ r \in Row \cup {r}
        BY DEF TypeOK
      <4>. QED  BY <4>1, <4>2, AppendProperties
    <3>. QED  BY <1>5, <3>1, <3>2 DEF RolloutStep
  <2>3. batch \subseteq DOMAIN rollout_run
    BY DEF TypeOK
  <2>. QED  BY <1>1, <1>2, <1>4, <2>1, <2>2, <2>3
<1>6. CASE PoolStep \/ Wait \/ UNCHANGED vars
  BY <1>4, <1>6 DEF PoolStep, Service!Turnover, Wait, vars
<1>7. CASE GiveUp \/ Save \/ Insert \/ Reload \/ Crash \/ Start \/ Train
  BY <1>3, <1>7 DEF GiveUp, Save, Insert, Reload, Crash, Start, Train, BatchInv
<1>8. CASE Select
  <2>1. CASE pc' = "train"
    <3>1. UNCHANGED global_steps /\ (faults' = faults \/ Fault("mark") \/ Fault("trainer"))
      BY <1>8 DEF Select
    <3>2. faults'["trainer"] \in Nat /\ faults["trainer"] <= faults'["trainer"]
      BY <1>1, <1>2, <3>1
    <3>3. PICK M : Mark(M)
      BY <1>8 DEF Select
    <3>4. ASSUME NEW i \in batch', rollout_run'[i].reward = 0
          PROVE  global_steps' - rollout_run'[i].model_version
                   <= (top_mvs_n + faults'["trainer"]) * save_freq
      <4>1. i \in DOMAIN rollout_run
        BY <1>8, <3>4, BatchRows
      <4>2. rollout_run[i].reward = 0 /\ rollout_run'[i].model_version = rollout_run[i].model_version
        BY <3>3, <3>4, <4>1, MarkKeepsVersions
      <4>3. global_steps - rollout_run[i].model_version
              <= (top_mvs_n + faults["trainer"]) * save_freq
        BY <1>8, <3>4, <4>2, SelectStale
      <4>4. rollout_run[i].model_version \in Nat /\ global_steps \in Nat
        BY <4>1, UsesTypes, PaceTypes DEF Row
      <4>5. /\ (top_mvs_n + faults["trainer"]) * save_freq \in Nat
            /\ (top_mvs_n + faults'["trainer"]) * save_freq \in Nat
            /\ (top_mvs_n + faults["trainer"]) * save_freq
                 <= (top_mvs_n + faults'["trainer"]) * save_freq
        BY <3>2, BoundGrows
      <4>. QED  BY <3>1, <4>2, <4>3, <4>4, <4>5
    <3>. QED  BY <2>1, <3>4 DEF BatchInv, BoundedStaleness
  <2>2. CASE pc' # "train"
    BY <1>3, <1>8, <2>2 DEF Select
  <2>. QED  BY <2>1, <2>2
<1>. QED  BY <1>5, <1>6, <1>7, <1>8 DEF Next, DatasetStep, TrainerStep

\* The failures of a batch are of a model at most top_mvs_n checkpoints behind the one in
\* training, and one more for each death of the trainer: a checkpoint that was saved but
\* not registered makes room in the window for an older one
\* (ray_trainer_async.py:391-462, osworld_dataset_iter.py:276-399).
THEOREM StalenessBounded == Spec => []BoundedStaleness
<1>1. BatchInv => BoundedStaleness
  BY DEF BatchInv
<1>2. Init => TypeOK /\ VersionsInv /\ PaceInv /\ BatchInv
  BY InitTypeOK, InitVersionsInv, InitPace, InitBatch
<1>3. TypeOK /\ VersionsInv /\ PaceInv /\ BatchInv /\ [Next]_vars
        => TypeOK' /\ VersionsInv' /\ PaceInv' /\ BatchInv'
  BY NextTypeOK, NextVersionsInv, NextPace, NextBatch
<1>. QED  BY <1>1, <1>2, <1>3, PTL DEF Spec
-----------------------------------------------------------------------------
(* What a batch is made of.                                                *)

\* The table is one the filter is defined for.
LEMMA TableTyped == TypeOK => Table(rollout_run)
<1>. SUFFICES ASSUME TypeOK PROVE Table(rollout_run)
  OBVIOUS
<1>1. \A i \in DOMAIN rollout_run : rollout_run[i].reward \in {-1} \cup 0..Full
  BY UsesTypes, TrainingAssumption DEF Row
<1>2. Len(rollout_run) \in Nat /\ DOMAIN rollout_run = 1 .. Len(rollout_run)
  BY DEF TypeOK
<1>. QED  BY <1>1, <1>2 DEF Table

\* The groups of a new batch are those the filter chose.
LEMMA SelectContrasts ==
  ASSUME TypeOK, Select, pc' = "train", NEW t \in TasksOf(rollout_run, batch')
  PROVE  HasContrast(t, batch')
<1>1. PICK sel \in filter_fn(rollout_run, top_mvs) :
        \E taken \in SUBSET DOMAIN sel : batch' = UNION {sel[u] : u \in taken}
  BY DEF Select
<1>2. PICK taken \in SUBSET DOMAIN sel : batch' = UNION {sel[u] : u \in taken}
  BY <1>1
<1>3. \A u \in taken :
        /\ Cardinality(sel[u]) = rollout_n
        /\ \A i \in sel[u] : rollout_run[i].task_id = u
        /\ Comparable(rollout_run, Group(rollout_run, top_mvs, u), sel[u])
  BY <1>2, TableTyped, SelectionContrasts
<1>4. t \in taken
  BY <1>2, <1>3 DEF TasksOf
<1>5. {i \in batch' : rollout_run[i].task_id = t} = sel[t]
  BY <1>2, <1>3, <1>4
<1>. QED  BY <1>3, <1>4, <1>5 DEF HasContrast, Comparable

\* A batch is made by Select alone.
LEMMA OnlySelect ==
  ASSUME Next, pc = "poll", pc' = "train"
  PROVE  Select
BY DEF Next, RolloutStep, Answer, NoAnswer, Store, PoolStep, DatasetStep, Wait, GiveUp,
       TrainerStep, Start, Train, Save, Insert, Reload, Crash, trainerVars

\* Every task of a batch is there with rollout_n rows, a success among them, and a
\* failure wherever the window has one: what filter_fn repairs and trims is what GRPO
\* compares, for rewards of any granularity (trainable_filter.py,
\* osworld_dataset_iter.py:276-399).
THEOREM BatchesContrast == Spec => Contrastive
<1>1. TypeOK /\ [Next]_vars => [NewBatchContrasts]_vars
  <2>. SUFFICES ASSUME TypeOK, Next, pc = "poll", pc' = "train" PROVE NewBatchContrasts
    BY DEF NewBatchContrasts
  <2>. QED  BY OnlySelect, SelectContrasts DEF NewBatchContrasts
<1>. QED  BY <1>1, TrainingTypeCorrect, PTL DEF Spec, Contrastive
-----------------------------------------------------------------------------
(* Rotation.                                                               *)

\* There are finitely many tasks to choose from.
LEMMA TasksFinite ==
  ASSUME TypeOK
  PROVE  /\ IsFiniteSet(Trainable(rollout_run, top_mvs))
         /\ Cardinality(Trainable(rollout_run, top_mvs)) \in Nat
<1>. DEFINE D == DOMAIN rollout_run
            f == [i \in D |-> rollout_run[i].task_id]
            T == {rollout_run[i].task_id : i \in D}
<1>1. IsFiniteSet(D)
  <2>1. Len(rollout_run) \in Nat /\ D = 1 .. Len(rollout_run)
    BY DEF TypeOK
  <2>. QED  BY <2>1, FS_Interval
<1>2. f \in Surjection(D, T)
  BY DEF Surjection
<1>3. IsFiniteSet(T)
  <2>. HIDE DEF D, f, T
  <2>. QED  BY <1>1, <1>2, FS_Surjection
<1>4. Trainable(rollout_run, top_mvs) \subseteq T
  BY DEF Trainable, Eligible, TasksOf, Base
<1>. QED  BY <1>3, <1>4, FS_Subset, FS_CardinalityType

\* The task before the first is the last: a place taken back modulo their number.
LEMMA BehindAll ==
  ASSUME NEW n \in Nat \ {0}, NEW p \in Int
  PROVE  (p - p - 1) % n = n - 1
<1>1. p - p - 1 = n * (-1) + (n - 1) /\ n - 1 \in 0 .. n - 1
  OBVIOUS
<1>. QED  BY <1>1

\* With rotation, the task that ended the batch before comes last of all.
LEMMA LastIsLast ==
  ASSUME TypeOK, rotate_task_groups, NEW sel \in filter_fn(rollout_run, top_mvs),
         last_used_task_id \in DOMAIN sel
  PROVE  Turn(sel, last_used_task_id) = Cardinality(Trainable(rollout_run, top_mvs)) - 1
<1>. DEFINE p == Place(sel, last_used_task_id)
            n == Cardinality(DOMAIN sel)
<1>1. DOMAIN sel = Trainable(rollout_run, top_mvs)
  BY DEF filter_fn
<1>2. IsFiniteSet(DOMAIN sel) /\ n \in Nat
  BY <1>1, TasksFinite
<1>3. n # 0
  BY <1>2, FS_EmptySet
<1>4. p \in Nat
  BY <1>2, FS_Subset, FS_CardinalityType DEF Place
<1>5. Turn(sel, last_used_task_id) = (p - p - 1) % n
  BY DEF Turn
<1>. HIDE DEF p, n
<1>6. Turn(sel, last_used_task_id) = n - 1
  <2>1. n \in Nat \ {0} /\ p \in Int
    BY <1>2, <1>3, <1>4
  <2>2. (p - p - 1) % n = n - 1
    BY <2>1, BehindAll
  <2>. QED  BY <1>5, <2>2
<1>. QED  BY <1>1, <1>6 DEF n

\* A batch that does not take all tasks leaves that one out.
LEMMA SelectMovesOn ==
  ASSUME TypeOK, Select, pc' = "train", rotate_task_groups,
         Cardinality(Trainable(rollout_run, top_mvs)) > batch_max
  PROVE  last_used_task_id \notin TasksOf(rollout_run, batch')
<1>1. PICK sel \in filter_fn(rollout_run, top_mvs) :
        batch' = UNION {sel[t] : t \in {t \in DOMAIN sel : Turn(sel, t) < batch_max}}
  BY DEF Select
<1>2. \A t \in DOMAIN sel : \A i \in sel[t] : rollout_run[i].task_id = t
  BY TableTyped, SelectionContrasts
<1>3. SUFFICES ASSUME last_used_task_id \in TasksOf(rollout_run, batch') PROVE FALSE
  OBVIOUS
<1>4. last_used_task_id \in DOMAIN sel /\ Turn(sel, last_used_task_id) < batch_max
  BY <1>1, <1>2, <1>3 DEF TasksOf
<1>5. Turn(sel, last_used_task_id) = Cardinality(Trainable(rollout_run, top_mvs)) - 1
  BY <1>4, LastIsLast
<1>6. Cardinality(Trainable(rollout_run, top_mvs)) \in Nat /\ batch_max \in Nat
  BY TasksFinite, TrainingAssumption
<1>. QED  BY <1>4, <1>5, <1>6

\* With rotate_task_groups the task that ended one batch is not in the next, unless a
\* batch has room for all tasks there are (osworld_dataset_iter.py:322-350).
THEOREM RotationGoesOn == Spec => RotationMovesOn
<1>. DEFINE Moves == /\ pc = "poll" /\ pc' = "train" /\ rotate_task_groups
                     /\ Cardinality(Trainable(rollout_run, top_mvs)) > batch_max
                     => last_used_task_id \notin TasksOf(rollout_run, batch')
<1>1. TypeOK /\ [Next]_vars => [Moves]_vars
  <2>. SUFFICES ASSUME TypeOK, Next, pc = "poll", pc' = "train", rotate_task_groups,
                       Cardinality(Trainable(rollout_run, top_mvs)) > batch_max
                PROVE  last_used_task_id \notin TasksOf(rollout_run, batch')
    OBVIOUS
  <2>. QED  BY OnlySelect, SelectMovesOn
<1>. HIDE DEF Moves
<1>2. Spec => [][Moves]_vars
  BY <1>1, TrainingTypeCorrect, PTL DEF Spec
<1>. QED  BY <1>2 DEF RotationMovesOn, Moves
=============================================================================
