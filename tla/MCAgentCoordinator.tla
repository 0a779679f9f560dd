--------------------------- MODULE MCAgentCoordinator ---------------------------
(***************************************************************************)
(* AgentCoordinator with two tasks and two environments, for TLC.          *)
(***************************************************************************)
EXTENDS AgentCoordinator, TLC

CONSTANTS a, b, e1, e2, r1, r2, r3

MCTask     == {a, b}
MCEnv2     == {e1, e2}
MCRunner2  == {r1, r2}
MCRunner3  == {r1, r2, r3}

NoFaults   == {}
Leaks      == {"crash", "close", "answer", "release"}
AnyFault   == AllFaults
MCTask1    == {a}

\* Runners and environments are interchangeable in Spec.
Symmetry == Permutations(MCRunner3) \cup Permutations(MCEnv2)
=============================================================================
