------------------------------ MODULE BatchPath ------------------------------
(***************************************************************************)
(* One training step of the asynchronous trainer, from the rows the        *)
(* splitter returns to the optimizer steps: the batch is brought to a size *)
(* the worker group can divide (verl/trainer/ppo/ray_trainer_async.py,     *)
(* _up_sample and _up_sample_with_padding), cut into one part per rank     *)
(* (protocol.py, chunk), by each rank into mini-batches and micro-batches  *)
(* (verl/workers/actor/dp_actor.py), run through the sharded model, and    *)
(* the log-probabilities are put back into the order of the batch.         *)
(*                                                                         *)
(* Every forward pass of a sharded model, the agreement on the number of   *)
(* micro-batches and the optimizer step are collective: they happen when   *)
(* every rank has come to them, and a rank that comes to another one, or   *)
(* raises, leaves the rest waiting.                                        *)
(*                                                                         *)
(* A configuration c has                                                   *)
(*   lens      tokens of each row the splitter returned                    *)
(*   width     columns of the rows, which are padded to the same length    *)
(*   padding   use_padding_mask of the trainer                             *)
(*   mm        rows carry multi_modal_inputs (OSWorld's rows do)           *)
(*   dynamic   use_dynamic_bsz, for log-probabilities and updates          *)
(*   mini      actor.ppo_mini_batch_size as the workers have normalised it *)
(*   micro     actor.ppo_micro_batch_size_per_gpu                          *)
(*   lp_micro  rollout.log_prob_micro_batch_size_per_gpu                   *)
(*   max_token_len  the same for log-probabilities and updates             *)
(* There is one epoch per batch and no sequence parallelism.  A row is the *)
(* number of the splitter's row it is a copy of, and whether it is padding.*)
(***************************************************************************)
EXTENDS SeqlenBalancing

CONSTANTS
  World,      \* number of ranks of the worker group
  Cap,        \* 768 in _up_sample
  Configs     \* the configurations and batches to start with

ASSUME BatchAssumption ==
  /\ World \in Nat \ {0} /\ Cap \in Nat \ {0}
  /\ \A c \in Configs :
       /\ c.lens \in Seq(Nat \ {0}) /\ c.lens # <<>>   \* fit raises without rows
       /\ {c.mini, c.micro, c.lp_micro, c.max_token_len, c.width} \subseteq Nat \ {0}
       /\ c.mini % c.micro = 0          \* asserted by the workers' __init__
       /\ \A i \in DOMAIN c.lens : c.lens[i] <= c.width

VARIABLES
  cfg,
  stage,      \* where the driver's step is
  batch,      \* the rows, in order
  at,         \* at[r]: what rank r is doing
  pieces,     \* pieces[r]: batches rank r has still to cut into micro-batches
  micros,     \* micros[r]: micro-batches of the piece in hand still to run
  output,     \* output[r]: rows whose log-probabilities rank r has, in order
  order,      \* order[r]: the places in the piece those rows were taken from
  log_probs,  \* log_probs[i]: the row old_log_probs[i] was computed from
  advantages, \* advantages[i]: its score, the rows it is compared with, its factor
  gain,       \* gain[r]: sum of the loss weights since the last step
  steps       \* steps[r]: per optimizer step, its rows and their weight

vars == <<cfg, stage, batch, at, pieces, micros, output, order, log_probs,
          advantages, gain, steps>>

Rank == 1 .. World
Places(n) == [i \in 1 .. n |-> i]
NoGain == [rows |-> <<>>, weight |-> 0]

(***************************************************************************)
(* Cutting                                                                 *)
(***************************************************************************)

\* DataProto.chunk asserts that the parts are equal; a number of parts that is
\* zero fails in the assertion.
Chunkable(n, chunks) == chunks > 0 /\ n % chunks = 0

Chunk(s, chunks) ==
  LET size == Len(s) \div chunks
  IN  [i \in 1 .. chunks |-> SubSeq(s, (i - 1) * size + 1, i * size)]

\* TensorDict.split: parts of a given size, the last one may be smaller.
Split(s, size) ==
  [i \in 1 .. CeilDiv(Len(s), size) |->
     SubSeq(s, (i - 1) * size + 1, IF i * size <= Len(s) THEN i * size ELSE Len(s))]

\* Multi-modal rows are kept together by chunk, others by split.
Cuttable(n, size) == cfg.mm => Chunkable(n, n \div size)
Cut(s, size)      == IF cfg.mm THEN Chunk(s, Len(s) \div size) ELSE Split(s, size)

(***************************************************************************)
(* The size of the batch                                                   *)
(***************************************************************************)
\* Mutant: divisible by the ranks only.
RanksOnly == World

NMod == World * cfg.mini
Orig == Len(cfg.lens)

\* roundup: the next multiple of n_mod.
UpSize == CeilDiv(Orig, NMod) * NMod

Copies(rows, pad) == [i \in DOMAIN rows |-> [src |-> rows[i], pad |-> pad]]
Original          == Copies(Places(Orig), FALSE)

\* random.choices: with replacement.
Extra == [1 .. UpSize - Orig -> 1 .. Orig]

\* sorted(random.sample(...)): without replacement, in order.
Kept == {keep \in [1 .. Cap -> 1 .. Orig] : \A i, j \in 1 .. Cap : i < j => keep[i] < keep[j]}

Resized(rows) == batch' = rows /\ stage' = "old_log_prob"

UpSample ==
  /\ ~cfg.padding
  /\ IF Orig % NMod = 0 THEN Resized(Original)
     ELSE IF Orig > Cap THEN \E keep \in Kept : Resized(Copies(keep, FALSE))
     ELSE \E idx \in Extra : Resized(Original \o Copies(idx, FALSE))

\* A batch that needs no padding is returned alone where the caller unpacks a
\* pair: the step raises.
UpSampleWithPadding ==
  /\ cfg.padding
  /\ IF Orig % NMod = 0 THEN batch' = Original /\ stage' = "failed"
     ELSE \E idx \in Extra : Resized(Original \o Copies(idx, TRUE))

Resize ==
  /\ stage = "resize"
  /\ UpSample \/ UpSampleWithPadding
  /\ UNCHANGED <<cfg, at, pieces, micros, output, order, log_probs, advantages, gain, steps>>

(***************************************************************************)
(* Driver: calls to the worker group                                       *)
(***************************************************************************)
Calls == {"old_log_prob", "update_actor"}

\* dispatch_dp_compute_data_proto: one part of the batch per rank.
Dispatch ==
  /\ stage \in Calls /\ \A r \in Rank : at[r] = "idle"
  /\ IF Chunkable(Len(batch), World)
     THEN /\ at' = [r \in Rank |-> "start"]
          /\ pieces' = [r \in Rank |-> <<Chunk(Places(Len(batch)), World)[r]>>]
          /\ stage' = stage
     ELSE stage' = "failed" /\ UNCHANGED <<at, pieces>>
  /\ UNCHANGED <<cfg, batch, micros, output, order, log_probs, advantages, gain, steps>>

\* The results of the ranks are joined in the order of the ranks; a rank that
\* has raised makes ray.get raise.
Collect ==
  /\ stage \in Calls /\ \A r \in Rank : at[r] = "done"
  /\ at' = [r \in Rank |-> "idle"]
  /\ IF stage = "old_log_prob"
     THEN stage' = "adv" /\ log_probs' = FlattenSeq([r \in Rank |-> output[r]])
     ELSE stage' = "done" /\ UNCHANGED log_probs
  /\ UNCHANGED <<cfg, batch, pieces, micros, output, order, advantages, gain, steps>>

Raise ==
  /\ stage \in Calls /\ \E r \in Rank : at[r] = "raised"
  /\ stage' = "failed"
  /\ UNCHANGED <<cfg, batch, at, pieces, micros, output, order, log_probs, advantages, gain, steps>>

Padding == 2

\* Mutant: copies keep the uid of their task.
TaskUid(i) == batch[i].src % 2

\* The uid of a row is that of its task, and two tasks alternate; padding has a
\* uid of its own and reward 0.
Uid(i)   == IF batch[i].pad THEN Padding ELSE batch[i].src % 2
Score(i) == IF batch[i].pad THEN 0 ELSE batch[i].src

\* compute_grpo_outcome_advantage compares the rows with the same uid.
Group(i) == {j \in DOMAIN batch : Uid(j) = Uid(i)}

\* Mutant: advantages are left as they are.
NoRatio == Orig

\* target_size / orig_size, in parts of orig_size.
SampleRatio == IF cfg.padding THEN Len(batch) ELSE Orig

\* With padding, all advantages are multiplied by the ratio.
ComputeAdvantage ==
  /\ stage = "adv"
  /\ advantages' = [i \in DOMAIN batch |->
                      [score |-> Score(i), group |-> Group(i), scale |-> SampleRatio]]
  /\ stage' = "update_actor"
  /\ UNCHANGED <<cfg, batch, at, pieces, micros, output, order, log_probs, gain, steps>>

(***************************************************************************)
(* Ranks                                                                   *)
(***************************************************************************)
Go(r, place) == at' = [at EXCEPT ![r] = place]

\* compute_log_prob takes its part as it is, update_policy cuts it into
\* mini-batches.
Start(r) ==
  /\ stage \in Calls /\ at[r] = "start"
  /\ LET local == Head(pieces[r])
     IN  IF stage = "old_log_prob" THEN Go(r, "piece") /\ UNCHANGED pieces
         ELSE IF Cuttable(Len(local), cfg.mini)
         THEN Go(r, "piece") /\ pieces' = [pieces EXCEPT ![r] = Cut(local, cfg.mini)]
         ELSE Go(r, "raised") /\ UNCHANGED pieces
  /\ output' = [output EXCEPT ![r] = <<>>]
  /\ UNCHANGED <<cfg, stage, batch, micros, order, log_probs, advantages, gain, steps>>

MicroSize == IF stage = "old_log_prob" THEN cfg.lp_micro ELSE cfg.micro

\* The next piece, with micro-batches of a fixed size.
CutPiece(r) ==
  /\ stage \in Calls /\ at[r] = "piece" /\ pieces[r] # <<>> /\ ~cfg.dynamic
  /\ LET n == Len(Head(pieces[r]))
     IN  IF Cuttable(n, MicroSize)
         THEN Go(r, "run") /\ micros' = [micros EXCEPT ![r] = Cut(Places(n), MicroSize)]
         ELSE Go(r, "raised") /\ UNCHANGED micros
  /\ order' = [order EXCEPT ![r] = <<>>]
  /\ UNCHANGED <<cfg, stage, batch, pieces, output, log_probs, advantages, gain, steps>>

\* Whether a padded row fits into a micro-batch, however few tokens it has.
WidthFits == cfg.dynamic => cfg.width <= cfg.max_token_len

\* The next piece, with a dynamic batch size: rearrange_micro_batches asserts
\* that a row fits, and the rank joins the all_reduce.
JoinReduce(r) ==
  /\ stage \in Calls /\ at[r] = "piece" /\ pieces[r] # <<>> /\ cfg.dynamic
  /\ Go(r, IF WidthFits THEN "reduce" ELSE "raised")
  /\ order' = [order EXCEPT ![r] = <<>>]
  /\ UNCHANGED <<cfg, stage, batch, pieces, micros, output, log_probs, advantages, gain, steps>>

Lengths(r) == [i \in DOMAIN Head(pieces[r]) |-> cfg.lens[batch[Head(pieces[r])[i]].src]]
Wanted(r)  == MicroBatchesWanted(Lengths(r), cfg.max_token_len)

\* Mutant: no agreement.
OwnNumber(r) == Wanted(r)

\* all_reduce(MAX): every rank makes as many micro-batches as the rank that
\* needs most.
Agreed(r) == CHOOSE n \in {Wanted(s) : s \in Rank} : \A s \in Rank : n >= Wanted(s)

Balanced(r) == KarmarkarKarp(Lengths(r), Agreed(r))

\* rearrange_micro_batches from the all_reduce to its end.
Rearrange ==
  /\ \A r \in Rank : at[r] = "reduce"
  /\ LET fits(r) == /\ Agreed(r) <= Len(Head(pieces[r]))
                    /\ PartitionsValid(Lengths(r), Balanced(r), Agreed(r))
     IN  /\ at' = [r \in Rank |-> IF fits(r) THEN "run" ELSE "raised"]
         /\ micros' = [r \in Rank |-> IF fits(r) THEN SortedPartitions(Balanced(r)) ELSE <<>>]
  /\ UNCHANGED <<cfg, stage, batch, pieces, output, order, log_probs, advantages, gain, steps>>

Rows(r, places) == [i \in DOMAIN places |-> Head(pieces[r])[places[i]]]

\* Keys of a multi-modal row in update_policy, without a KL loss: six tensors,
\* the splitter's loss_mask, with padding the padding_mask, multi_modal_inputs.
Fields == IF cfg.padding THEN 9 ELSE 8

\* The weight of a micro-batch in the loss: one over the number of
\* micro-batches that are accumulated, or len(data) over the size of the
\* mini-batch; of a multi-modal row's dict, len counts the keys.
Weight(places) ==
  IF ~cfg.dynamic THEN cfg.micro
  ELSE IF cfg.mm THEN Fields ELSE Len(places)

\* The forward pass of one micro-batch, on all ranks together, and in an
\* update the backward pass.
Forward ==
  /\ stage \in Calls
  /\ \A r \in Rank : at[r] = "run" /\ micros[r] # <<>>
  /\ micros' = [r \in Rank |-> Tail(micros[r])]
  /\ order' = [r \in Rank |-> order[r] \o Head(micros[r])]
  /\ IF stage = "old_log_prob"
     THEN /\ output' = [r \in Rank |-> output[r] \o
               [i \in DOMAIN Head(micros[r]) |-> batch[Rows(r, Head(micros[r]))[i]].src]]
          /\ UNCHANGED gain
     ELSE /\ gain' = [r \in Rank |-> [rows   |-> gain[r].rows \o Rows(r, Head(micros[r])),
                                      weight |-> gain[r].weight + Weight(Head(micros[r]))]]
          /\ UNCHANGED output
  /\ UNCHANGED <<cfg, stage, batch, at, pieces, log_probs, advantages, steps>>

\* Mutant: results stay in the order they were computed.
AsComputed(r) == output[r]

\* log_probs[revert_indices], for dynamic batch sizes.
Reverted(r) ==
  IF cfg.dynamic THEN LET back == ReverseIdx(order[r])
                      IN  [i \in DOMAIN back |-> output[r][back[i]]]
  ELSE output[r]

\* A rank leaves compute_log_prob.
Finish(r) ==
  /\ stage = "old_log_prob" /\ at[r] = "run" /\ micros[r] = <<>>
  /\ output' = [output EXCEPT ![r] = Reverted(r)]
  /\ pieces' = [pieces EXCEPT ![r] = Tail(pieces[r])]
  /\ Go(r, "done")
  /\ UNCHANGED <<cfg, stage, batch, micros, order, log_probs, advantages, gain, steps>>

\* _optimizer_step, on all ranks together: the gradient's norm is global.
OptimizerStep ==
  /\ stage = "update_actor"
  /\ \A r \in Rank : at[r] = "run" /\ micros[r] = <<>>
  /\ steps' = [r \in Rank |-> Append(steps[r], gain[r])]
  /\ gain' = [r \in Rank |-> NoGain]
  /\ pieces' = [r \in Rank |-> Tail(pieces[r])]
  /\ at' = [r \in Rank |-> IF Len(pieces[r]) > 1 THEN "piece" ELSE "done"]
  /\ UNCHANGED <<cfg, stage, batch, micros, output, order, log_probs, advantages>>

RankStep(r) == Start(r) \/ CutPiece(r) \/ JoinReduce(r) \/ Finish(r)
Collective  == Rearrange \/ Forward \/ OptimizerStep
Driver      == Resize \/ Dispatch \/ Collect \/ Raise \/ ComputeAdvantage

Init ==
  /\ cfg \in Configs
  /\ stage = "resize" /\ batch = <<>>
  /\ at = [r \in Rank |-> "idle"]
  /\ pieces = [r \in Rank |-> <<>>] /\ micros = [r \in Rank |-> <<>>]
  /\ output = [r \in Rank |-> <<>>] /\ order = [r \in Rank |-> <<>>]
  /\ log_probs = <<>> /\ advantages = <<>>
  /\ gain = [r \in Rank |-> NoGain] /\ steps = [r \in Rank |-> <<>>]

\* Nothing but the end of the step may stop it.
Ended == stage \in {"done", "failed"} /\ UNCHANGED vars

Next == Driver \/ Collective \/ Ended \/ \E r \in Rank : RankStep(r)

Spec == Init /\ [][Next]_vars

(***************************************************************************)
(* Properties                                                              *)
(***************************************************************************)

\* What the code cannot divide: a batch above the cap is cut to the cap,
\* whether n_mod divides it or not.
CapFits == ~cfg.padding /\ Orig > Cap /\ Orig % NMod # 0 => Cap % NMod = 0

\* Multi-modal parts are cut into n \div lp_micro equal micro-batches, though
\* nothing relates lp_micro to the size of a part.
LogProbFits ==
  cfg.mm /\ ~cfg.dynamic /\ batch # <<>> =>
    Cuttable(Len(batch) \div World, cfg.lp_micro)

PairReturned == cfg.padding => Orig % NMod # 0

\* No rank waits for ever in a collective the others do not come to, though each
\* cuts rows of other lengths by itself: ranks that run are at the same piece
\* and have equally many forward passes before them, and no rank is a call ahead.
CollectivesMatch ==
  \A r, s \in Rank :
    /\ at[r] = "run" /\ at[s] = "run" =>
         Len(pieces[r]) = Len(pieces[s]) /\ Len(micros[r]) = Len(micros[s])
    /\ at[r] = "reduce" => at[s] \in {"start", "piece", "reduce"}
    /\ at[r] = "done" /\ at[s] = "run" => micros[s] = <<>>

\* A step fails for one of four reasons: a cap that does not divide, a part that
\* lp_micro does not divide, padding with nothing to pad, or rows padded wider
\* than a micro-batch.  No assertion on mini-batches, on partitions or on the
\* number of micro-batches fails.
FailsOnlyIfRefused ==
  stage = "failed" => ~(CapFits /\ LogProbFits /\ PairReturned /\ WidthFits)

\* The log-probabilities that were computed in the order of the micro-batches
\* of each rank stand at the rows they belong to.
LogProbsAligned ==
  stage \in {"adv", "update_actor", "done"} =>
    log_probs = [i \in DOMAIN batch |-> batch[i].src]

\* Unless the batch was cut to a cap that does not divide (CapFits), every row
\* takes part in exactly one optimizer step; every step takes `mini' rows of
\* each rank, and their weights add up to those of a whole mini-batch (with
\* multi-modal rows and a dynamic size they do not).
StepsWhole ==
  stage = "done" /\ CapFits =>
    \A r \in Rank :
      LET local == Chunk(Places(Len(batch)), World)[r]
          all   == FlattenSeq([k \in DOMAIN steps[r] |-> steps[r][k].rows])
      IN  /\ Len(all) = Len(local) /\ Range(all) = Range(local)
          /\ \A k \in DOMAIN steps[r] :
               /\ Len(steps[r][k].rows) = cfg.mini
               /\ ~(cfg.mm /\ cfg.dynamic) => steps[r][k].weight = cfg.mini

Updated == UNION {UNION {Range(steps[r][k].rows) : k \in DOMAIN steps[r]} : r \in Rank}
Real    == {i \in DOMAIN batch : ~batch[i].pad}

\* Rows that only fill the batch up do not weigh on the others: they are
\* compared with zeros only, a real row with the real rows of its task, and the
\* mean of the scaled advantages over the rows the optimizer steps took, padding
\* included, counts a real row as the mean over the real rows would.
PaddingInert ==
  cfg.padding =>
    /\ \A i \in DOMAIN advantages :
         IF batch[i].pad THEN \A j \in advantages[i].group : advantages[j].score = 0
         ELSE advantages[i].group = {j \in 1 .. Orig : j % 2 = i % 2}
    /\ stage = "done" =>
         \A i \in Real : /\ i \in Updated
                        /\ advantages[i].scale * Cardinality(Real) = Orig * Cardinality(Updated)
=============================================================================
