--------------------------- MODULE SeqlenBalancing --------------------------
(***************************************************************************)
(* Splitting the rows of a batch into micro-batches of nearly equal length *)
(* (verl/utils/seqlen_balancing.py): the largest differencing method of    *)
(* Karmarkar and Karp, as get_seqlen_balanced_partitions uses it, with     *)
(* equal_size False, for dynamic batch sizes.                              *)
(*                                                                         *)
(* len[i] is the number of tokens of row i; rows are numbered from 1.  A   *)
(* set of the method is a sequence of rows in the order they were added, a *)
(* state is a sequence of k sets, largest first.                           *)
(***************************************************************************)
EXTENDS Integers, FiniteSets, SequencesExt

Tokens(len, rows) == FoldLeft(LAMBDA sum, i : sum + len[i], 0, rows)

\* sorted(s) of Python, which is stable: a member is preceded by those before
\* it in the order, and by its equals that were in front of it.
Sorted(s, Before(_, _)) ==
  LET UpTo(j) == {i \in DOMAIN s : Before(s[i], s[j]) \/ (i <= j /\ ~Before(s[j], s[i]))}
  IN  [n \in DOMAIN s |-> s[CHOOSE j \in DOMAIN s : Cardinality(UpTo(j)) = n]]

\* Set.__lt__, turned round: by tokens, then by number of rows, then by the
\* rows themselves as lists.
ListGreater(s, t) ==
  \E n \in DOMAIN s : /\ \A i \in 1 .. n - 1 : i \in DOMAIN t /\ s[i] = t[i]
                      /\ n \in DOMAIN t => s[n] > t[n]

Greater(len, s, t) ==
  LET a == <<Tokens(len, s), Len(s)>>
      b == <<Tokens(len, t), Len(t)>>
  IN  IF a = b THEN ListGreater(s, t) ELSE ListGreater(a, b)

Spread(len, state) == Tokens(len, Head(state)) - Tokens(len, Last(state))

\* State.__lt__: the state with the largest spread leaves the heap first,
\* among equals the one with the largest first set.
PopsBefore(len, x, y) ==
  IF Spread(len, x) = Spread(len, y) THEN Greater(len, Head(x), Head(y))
                                     ELSE Spread(len, x) > Spread(len, y)

Pop(len, heap) == CHOOSE x \in heap : \A y \in heap \ {x} : PopsBefore(len, x, y)

\* State.merge: the largest set of one joins the smallest of the other.
Merged(len, x, y) ==
  LET k == Len(x)
  IN  Sorted([i \in 1 .. k |-> x[i] \o y[k + 1 - i]], LAMBDA s, t : Greater(len, s, t))

MergeTop(len, heap) ==
  LET x == Pop(len, heap)
      y == Pop(len, heap \ {x})
  IN  (heap \ {x, y}) \cup {Merged(len, x, y)}

\* karmarkar_karp: one state per row, merged until one is left.
KarmarkarKarp(len, k) ==
  LET single(i) == [j \in 1 .. k |-> IF j = 1 THEN <<i>> ELSE <<>>]
      heap      == FoldLeft(LAMBDA h, n : MergeTop(len, h),
                            {single(i) : i \in DOMAIN len},
                            [n \in 1 .. Len(len) - 1 |-> n])
  IN  CHOOSE x \in heap : TRUE

\* _check_and_sort_partitions: what it asserts, and what it returns.
PartitionsValid(len, parts, k) ==
  /\ DOMAIN parts = 1 .. k
  /\ \A p \in DOMAIN parts : parts[p] # <<>>
  /\ UNION {Range(parts[p]) : p \in DOMAIN parts} = DOMAIN len

SortedPartitions(parts) == [p \in DOMAIN parts |-> Sorted(parts[p], <)]

CeilDiv(a, b) == (a + b - 1) \div b

\* rearrange_micro_batches, before the ranks agree on the largest number.
MicroBatchesWanted(len, max_token_len) ==
  LET wanted == CeilDiv(FoldLeft(+, 0, len), max_token_len)
  IN  IF wanted <= Len(len) THEN wanted ELSE Len(len)

\* get_reverse_idx: output[j] is the place of j in idx_map.
ReverseIdx(idx_map) == [j \in DOMAIN idx_map |-> CHOOSE i \in DOMAIN idx_map : idx_map[i] = j]
=============================================================================
