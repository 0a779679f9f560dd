------------------------------- MODULE EnvLease -------------------------------
(***************************************************************************)
(* What the environment server and its users promise an episode: a desktop *)
(* is leased to one episode at a time, until that episode ends or the      *)
(* whole job does.  What an episode or a call leaves locked is leaked, and *)
(* is leased again only after somebody has reclaimed it.  AgentCoordinator *)
(* implements this when the reports of its runners arrive in order.        *)
(***************************************************************************)
CONSTANTS Env, Runner, NoEnv

VARIABLES
  lease,   \* the environment of each runner's episode
  leaked   \* locked, and not for an episode

leaseVars == <<lease, leaked>>

Leased == {lease[r] : r \in Runner} \ {NoEnv}

Nobody == [r \in Runner |-> NoEnv]

Init ==
  /\ lease = Nobody
  /\ leaked = {}

\* An environment that nobody has goes to an episode.
Grant(r, e) ==
  /\ lease[r] = NoEnv
  /\ e \notin Leased \cup leaked
  /\ lease' = [lease EXCEPT ![r] = e]
  /\ UNCHANGED leaked

\* The lock was taken, and nobody knows.
Mislay(e) ==
  /\ e \notin Leased \cup leaked
  /\ leaked' = leaked \cup {e}
  /\ UNCHANGED lease

\* The episode ends; its environment is free or leaked.
End(r) ==
  /\ lease[r] # NoEnv
  /\ lease' = [lease EXCEPT ![r] = NoEnv]
  /\ leaked' \in {leaked, leaked \cup {lease[r]}}

\* No lease is touched.
Reclaim(e) ==
  /\ e \in leaked
  /\ leaked' = leaked \ {e}
  /\ UNCHANGED lease

\* Every episode ends at once, and what is released may fail to be.
EndAll ==
  /\ lease' = Nobody
  /\ leaked' \subseteq leaked \cup Leased

Next ==
  \/ \E r \in Runner : End(r) \/ \E e \in Env : Grant(r, e)
  \/ \E e \in Env : Mislay(e) \/ Reclaim(e)
  \/ EndAll

Spec == Init /\ [][Next]_leaseVars
=============================================================================
