------------------------- MODULE MCModelServicePool -------------------------
(***************************************************************************)
(* ModelServicePool on small hosts, for TLC.                               *)
(***************************************************************************)
EXTENDS ModelServicePool, TLC

CONSTANTS c0, c1, t1, t2, t3

MCCkpt  == {c0, c1}
MCTask3 == {t1, t2, t3}

NoRoutes      == {}
ReloadRoute   == {"reload"}
NoFaults == {}
CrashOrSlow == {"crash", "spurious", "startfail", "slow"}

\* Coroutines are interchangeable: no definition chooses one.
Symmetry == Permutations(MCTask3)
=============================================================================
