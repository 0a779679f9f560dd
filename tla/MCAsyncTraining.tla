--------------------------- MODULE MCAsyncTraining ---------------------------
(***************************************************************************)
(* AsyncTraining with one worker and one task, for TLC.                    *)
(***************************************************************************)
EXTENDS AsyncTraining

CONSTANTS t1, w1

MCTask    == {t1}
MCWorker  == {w1}
MCRewards == {0, 1, 2}   \* failure, half a success, success
AllFaults == Kinds
=============================================================================
