--------------------------- MODULE TrainableFilter ---------------------------
(***************************************************************************)
(* filter_fn of verl/utils/dataset/trainable_filter.py: which rollouts of  *)
(* the table the next training batch may take.  `rows' is the content of   *)
(* rollout_run in the order of (create_at, id); a row is known by its      *)
(* position.  The random sampling of the code is a choice here, so that    *)
(* filter_fn denotes the set of all its possible results.  A reward is a   *)
(* double in the table; here it is an integer, in units of 1/Full.         *)
(***************************************************************************)
EXTENDS Integers, Sequences, FiniteSets

CONSTANTS
  rollout_n,   \* per_task_limit: rollouts of one task in a batch
  Full,        \* the reward 1.0 of a full success
  acc_max      \* tasks whose mean reward is not below this are left out

\* With rollout_n = 1 the code keeps a positive and a negative row all the same.
ASSUME FilterAssumption == /\ rollout_n \in Nat /\ rollout_n >= 2
                           /\ Full \in Nat \ {0}
                           /\ acc_max \in 0..Full

\* head(1) of the rows S, in ascending and in descending order.
Oldest(S) == {i \in S : \A j \in S : i <= j}
Newest(S) == {i \in S : \A j \in S : j <= i}

Positive(rows) == {i \in DOMAIN rows : rows[i].reward > 0}
Negative(rows) == {i \in DOMAIN rows : rows[i].reward = 0}

\* Mutant: rows are taken whether or not they have been used.
BaseAnyUse(rows, top_mvs) ==
  {i \in DOMAIN rows : /\ rows[i].model_version \in top_mvs
                       /\ rows[i].reward # -1}

\* Rows of the given model versions that no batch has used; -1 is no reward.
Base(rows, top_mvs) ==
  {i \in DOMAIN rows : /\ rows[i].model_version \in top_mvs
                       /\ rows[i].used = 0
                       /\ rows[i].reward # -1}

Group(rows, top_mvs, t) == {i \in Base(rows, top_mvs) : rows[i].task_id = t}

TasksOf(rows, S) == {rows[i].task_id : i \in S}

\* The sum of the rewards of the rows S: the units in them.
Total(rows, S) == Cardinality({p \in S \X (1..Full) : p[2] <= rows[p[1]].reward})

\* Enough rollouts, and a mean reward below acc_max.
Eligible(rows, top_mvs) ==
  {t \in TasksOf(rows, Base(rows, top_mvs)) :
     LET g == Group(rows, top_mvs, t)
     IN  /\ Cardinality(g) >= rollout_n
         /\ Total(rows, g) < acc_max * Cardinality(g)}

\* Mutant: a group without success is handed on as it is.
NotRepaired(rows, top_mvs, t) == Group(rows, top_mvs, t)

\* A group with mean 0, that is without a positive reward, gets the task's latest row
\* with one, of whatever version and used or not, in the place of its oldest row;
\* where there is none the task is dropped.
Repaired(rows, top_mvs, t) ==
  LET g == Group(rows, top_mvs, t)
      success == {i \in Positive(rows) : rows[i].task_id = t}
  IN  IF g \cap success # {} THEN g
      ELSE IF success = {} THEN {}
      ELSE (g \ Oldest(g)) \cup Newest(success)

\* rollout_n rows at random, with a positive and a zero reward where there are both:
\* how high a positive one is does not count.
Trimmed(rows, g) ==
  IF Cardinality(g) <= rollout_n THEN {g}
  ELSE {s \in SUBSET g :
          /\ Cardinality(s) = rollout_n
          /\ \A kind \in {g \cap Positive(rows), g \cap Negative(rows)} :
               kind # {} => s \cap kind # {}}

Trainable(rows, top_mvs) ==
  {t \in Eligible(rows, top_mvs) : Repaired(rows, top_mvs, t) # {}}

filter_fn(rows, top_mvs) ==
  LET kept(t) == Trimmed(rows, Repaired(rows, top_mvs, t))
      T == Trainable(rows, top_mvs)
  IN  {sel \in [T -> UNION {kept(t) : t \in T}] : \A t \in T : sel[t] \in kept(t)}
=============================================================================
