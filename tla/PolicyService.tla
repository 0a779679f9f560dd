----------------------------- MODULE PolicyService -----------------------------
(***************************************************************************)
(* What the model service pool promises to those who use it, the rollout   *)
(* workers and the trainer: of the instances, GPUs and processes only the  *)
(* checkpoints that answer are left.  ModelServicePool implements it when  *)
(* reloads come one after the other; AsyncTraining is built on it.         *)
(***************************************************************************)
CONSTANTS
  Ckpt,       \* checkpoint paths
  FirstCkpt   \* model_cfg.ckpt_path

VARIABLES
  default_ckpt,  \* what is started from now on
  last_ckpt,     \* the default before
  serving        \* the checkpoints requests may be routed to

serviceVars == <<default_ckpt, last_ckpt, serving>>

Init ==
  /\ default_ckpt = FirstCkpt
  /\ last_ckpt = FirstCkpt
  /\ serving = {}

\* A reload to c begins; what serves goes on serving.
Switch(c) ==
  /\ last_ckpt' = default_ckpt
  /\ default_ckpt' = c
  /\ UNCHANGED serving

\* Instances leave and others enter: nothing but the default comes into service, so that
\* a checkpoint that has left never answers again unless it is asked for.
Turnover ==
  /\ serving' \in SUBSET (serving \cup {default_ckpt})
  /\ serving' # serving
  /\ UNCHANGED <<default_ckpt, last_ckpt>>

Next == Turnover \/ \E c \in Ckpt : Switch(c)

Spec == Init /\ [][Next]_serviceVars
=============================================================================
