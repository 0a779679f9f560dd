----------------------- MODULE MCStreamingScheduler -----------------------
(***************************************************************************)
(* StreamingScheduler for TLC.                                             *)
(***************************************************************************)
EXTENDS StreamingScheduler

CONSTANTS w1, w2

MCWorkers1 == {w1}
MCWorkers2 == {w1, w2}
Both       == {"blocking", "executor"}
=============================================================================
