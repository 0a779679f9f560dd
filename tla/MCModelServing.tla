---------------------------- MODULE MCModelServing ----------------------------
(***************************************************************************)
(* ModelServing with two callers over two GPUs, for TLC.                   *)
(***************************************************************************)
EXTENDS ModelServing, TLC

CONSTANTS c0, c1, t1, t2, r1, r2

MCCkpt      == {c0, c1}
MCTask      == {t1, t2}
MCClient    == {r1, r2}
ReloadRoute == {"reload"}
NoFaults    == {}
=============================================================================
