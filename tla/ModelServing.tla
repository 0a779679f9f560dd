----------------------------- MODULE ModelServing -----------------------------
(***************************************************************************)
(* The pool of ModelServicePool together with the requests of the rollout  *)
(* workers: _get_endpoint_for_request and generate of                      *)
(* validation/model_service.py.  A request holds the ServiceInstance       *)
(* OBJECT it was routed to; the object outlives its entry in the pool, and *)
(* the GPU and the port may belong to another instance when it ends.       *)
(***************************************************************************)
EXTENDS ModelServicePool, Integers

CONSTANT Client   \* concurrent callers of /generate

ASSUME ClientAssumption == IsFiniteSet(Client)

VARIABLES
  holds,               \* the instance a request is routed to, or NoInst
  requests_in_flight,  \* the counter of each instance
  outcome              \* how the last request of a client has ended

requestVars == <<holds, requests_in_flight, outcome>>

Outcome == {"none", "ok", "failed", "refused"}

RequestTypeOK ==
  /\ holds \in [Client -> Inst \cup {NoInst}]
  /\ requests_in_flight \in [Inst -> Int]
  /\ outcome \in [Client -> Outcome]

ServingInit ==
  /\ Init
  /\ holds = [r \in Client |-> NoInst]
  /\ requests_in_flight = [i \in Inst |-> 0]
  /\ outcome = [r \in Client |-> "none"]

\* min(active_instances, key=requests_in_flight)
LeastLoaded(i) ==
  /\ \E g \in Active : pool[g] = i
  /\ \A g \in Active : requests_in_flight[i] <= requests_in_flight[pool[g]]
\* Routing: choice and increment, without an await in between.
Acquire(r) ==
  /\ Serving
  /\ holds[r] = NoInst
  /\ \E i \in Inst :
       /\ LeastLoaded(i)
       /\ holds' = [holds EXCEPT ![r] = i]
       /\ requests_in_flight' = [requests_in_flight EXCEPT ![i] = @ + 1]
  /\ UNCHANGED <<vars, outcome>>

\* "No available endpoints in the pool."
Refuse(r) ==
  /\ Serving
  /\ holds[r] = NoInst
  /\ Active = {}
  /\ outcome' = [outcome EXCEPT ![r] = "refused"]
  /\ UNCHANGED <<vars, holds, requests_in_flight>>

\* vLLM answers a request for the model it serves; anything else is an error.
Answered(i) == \E j \in Inst : /\ inst[j].port = inst[i].port
                               /\ inst[j].proc = "up"
                               /\ inst[j].ckpt = inst[i].ckpt

\* Mutant: the counter is looked up by GPU when the request ends.
ReleaseByGPU(r) ==
  LET i == holds[r]
      j == pool[inst[i].gpu]
  IN
  requests_in_flight' = [k \in Inst |-> IF k = j THEN requests_in_flight[k] - 1
                                        ELSE requests_in_flight[k]]

\* The finally clause of the context manager, on every way out.
Release(r) ==
  requests_in_flight' = [requests_in_flight EXCEPT ![holds[r]] = @ - 1]

Finish(r) ==
  /\ holds[r] # NoInst
  /\ Release(r)
  /\ holds' = [holds EXCEPT ![r] = NoInst]
  /\ outcome' = [outcome EXCEPT ![r] = IF Answered(holds[r]) THEN "ok" ELSE "failed"]
  /\ UNCHANGED vars

ServingNext ==
  \/ Next /\ UNCHANGED requestVars
  \/ \E r \in Client : Acquire(r) \/ Refuse(r) \/ Finish(r)

ServingVars == <<vars, requestVars>>

ServingSpec == ServingInit /\ [][ServingNext]_ServingVars

\* The fairness of FairSpec; nothing is assumed of the callers.
FairServingSpec ==
  /\ ServingSpec
  /\ \A t \in Task : WF_ServingVars(Step(t) /\ UNCHANGED requestVars)
  /\ \A i \in Inst :
       WF_ServingVars((ProcUp(i) \/ ProcClash(i) \/ ProcStops(i)) /\ UNCHANGED requestVars)

-----------------------------------------------------------------------------
\* The counter of an instance is the number of requests that hold it, also
\* after the instance has left the pool and its GPU and port serve another one
\* (model_service.py:745-763).  The balancer compares these counters.
InFlightMatches ==
  \A i \in Inst :
    requests_in_flight[i] = Cardinality({r \in Client : holds[r] = i})

\* Without faults a request finds no endpoint only while a reload replaces all
\* the replicas in one batch (model_service.py:751-752, 898-909).
RefusedOnlyByFullBatch ==
  [][\A r \in Client : outcome'[r] = "refused" /\ outcome[r] # "refused"
       => \E t \in Task : job[t].kind = "reload" /\ job[t].batch >= replicas]_ServingVars

\* Without faults a request fails only when its instance was removed from the
\* pool under it: no registered endpoint refuses the model name it is sent
\* (model_service.py:776-783).
FailsOnlyIfRemoved ==
  [][\A r \in Client : holds[r] # NoInst /\ outcome'[r] = "failed" /\ holds'[r] = NoInst
       => pool[inst[holds[r]].gpu] # holds[r]]_ServingVars
=============================================================================
