-------------------------- MODULE ModelServingProofs --------------------------
(***************************************************************************)
(* Theorems about ModelServing, for every set of callers and every pool.   *)
(***************************************************************************)
EXTENDS ModelServing, ModelServicePoolProofs

\* The callers that hold an instance.
Holders(i) == {r \in Client : holds[r] = i}

\* The callers of an instance are finitely many, so counting them is sound.
LEMMA HoldersFinite ==
  ASSUME NEW i
  PROVE  IsFiniteSet(Holders(i)) /\ Cardinality(Holders(i)) \in Nat
BY ClientAssumption, Holders(i) \in SUBSET Client, FS_Subset, FS_CardinalityType
   DEF Holders

\* The requests start typed and with every counter at zero.
LEMMA ServingInitInv == ServingInit => RequestTypeOK /\ InFlightMatches
<1>. SUFFICES ASSUME ServingInit PROVE RequestTypeOK /\ InFlightMatches
  OBVIOUS
<1>1. RequestTypeOK
  BY DEF ServingInit, RequestTypeOK, Outcome
<1>2. \A i \in Inst : {r \in Client : holds[r] = i} = {}
  BY DEF ServingInit, NoInst, Inst
<1>3. InFlightMatches
  BY <1>2, FS_EmptySet DEF ServingInit, InFlightMatches
<1>. QED  BY <1>1, <1>3

\* Every step keeps the types of the requests' variables.
LEMMA ServingTypeOK == RequestTypeOK /\ [ServingNext]_ServingVars => RequestTypeOK'
BY DEF RequestTypeOK, ServingNext, ServingVars, requestVars, Acquire, Refuse, Finish,
       Release, Outcome

\* A caller that is routed joins the holders of one instance only.
LEMMA AcquireCounts ==
  ASSUME RequestTypeOK, InFlightMatches, NEW r \in Client, Acquire(r)
  PROVE  InFlightMatches'
<1>1. PICK j \in Inst :
        /\ holds' = [holds EXCEPT ![r] = j]
        /\ requests_in_flight' = [requests_in_flight EXCEPT ![j] = @ + 1]
  BY DEF Acquire
<1>2. \A i \in Inst : holds[r] # i
  BY DEF Acquire, NoInst, Inst
<1>3. SUFFICES ASSUME NEW i \in Inst
               PROVE  requests_in_flight'[i] = Cardinality(Holders(i)')
  BY DEF InFlightMatches, Holders
<1>4. requests_in_flight[i] = Cardinality(Holders(i))
  BY DEF InFlightMatches, Holders
<1>5. CASE i = j
  <2>1. Holders(i)' = Holders(i) \cup {r} /\ r \notin Holders(i)
    BY <1>1, <1>2, <1>5 DEF Holders, RequestTypeOK
  <2>2. Cardinality(Holders(i) \cup {r}) = Cardinality(Holders(i)) + 1
    BY <2>1, HoldersFinite, FS_AddElement
  <2>. QED  BY <1>1, <1>4, <1>5, <2>1, <2>2 DEF RequestTypeOK
<1>6. CASE i # j
  <2>1. Holders(i)' = Holders(i)
    BY <1>1, <1>2, <1>6 DEF Holders, RequestTypeOK
  <2>. QED  BY <1>1, <1>4, <1>6, <2>1 DEF RequestTypeOK
<1>. QED  BY <1>5, <1>6

\* A request that ends leaves the holders of the instance it was routed to.
LEMMA FinishCounts ==
  ASSUME RequestTypeOK, InFlightMatches, NEW r \in Client, Finish(r)
  PROVE  InFlightMatches'
<1>. DEFINE j == holds[r]
<1>1. /\ j \in Inst
      /\ holds' = [holds EXCEPT ![r] = NoInst]
      /\ requests_in_flight' = [requests_in_flight EXCEPT ![j] = @ - 1]
  BY DEF Finish, Release, RequestTypeOK
<1>2. SUFFICES ASSUME NEW i \in Inst
               PROVE  requests_in_flight'[i] = Cardinality(Holders(i)')
  BY DEF InFlightMatches, Holders
<1>3. requests_in_flight[i] = Cardinality(Holders(i)) /\ i # NoInst
  BY DEF InFlightMatches, Holders, Inst, NoInst
<1>4. CASE i = j
  <2>1. Holders(i)' = Holders(i) \ {r} /\ r \in Holders(i)
    BY <1>1, <1>3, <1>4 DEF Holders, RequestTypeOK
  <2>2. Cardinality(Holders(i) \ {r}) = Cardinality(Holders(i)) - 1
    BY <2>1, HoldersFinite, FS_RemoveElement
  <2>. QED  BY <1>1, <1>3, <1>4, <2>1, <2>2 DEF RequestTypeOK
<1>5. CASE i # j
  <2>1. Holders(i)' = Holders(i)
    BY <1>1, <1>3, <1>5 DEF Holders, RequestTypeOK
  <2>. QED  BY <1>1, <1>3, <1>5, <2>1 DEF RequestTypeOK
<1>. QED  BY <1>4, <1>5

\* The counter of every instance is the number of the requests it serves, for
\* any number of callers and whatever happens to the pool meanwhile
\* (_get_endpoint_for_request, model_service.py:744-763).
THEOREM InFlightExact == ServingSpec => []InFlightMatches
<1>1. RequestTypeOK /\ InFlightMatches /\ [ServingNext]_ServingVars => InFlightMatches'
  <2>. SUFFICES ASSUME RequestTypeOK, InFlightMatches, [ServingNext]_ServingVars
                PROVE  InFlightMatches'
    OBVIOUS
  <2>1. ASSUME NEW r \in Client, Acquire(r) PROVE InFlightMatches'
    BY <2>1, AcquireCounts
  <2>2. ASSUME NEW r \in Client, Finish(r) PROVE InFlightMatches'
    BY <2>2, FinishCounts
  <2>3. CASE holds' = holds /\ requests_in_flight' = requests_in_flight
    BY <2>3 DEF InFlightMatches
  <2>4. ASSUME NEW r \in Client, Refuse(r) PROVE InFlightMatches'
    BY <2>3, <2>4 DEF Refuse
  <2>. QED
    BY <2>1, <2>2, <2>3, <2>4 DEF ServingNext, ServingVars, requestVars
<1>. QED  BY <1>1, ServingInitInv, ServingTypeOK, PTL DEF ServingSpec

-----------------------------------------------------------------------------
\* The requests read the pool and never change it, so what the calm pool keeps
\* it keeps under any load.
LEMMA ServedCalm ==
  ASSUME Calm
  PROVE  TypeOK /\ CalmInv /\ [ServingNext]_ServingVars => TypeOK' /\ CalmInv'
<1>. SUFFICES ASSUME TypeOK, CalmInv, [ServingNext]_ServingVars PROVE TypeOK' /\ CalmInv'
  OBVIOUS
<1>1. [Next]_vars
  BY DEF ServingNext, ServingVars, Acquire, Refuse, Finish
<1>. QED  BY <1>1, StepTypeOK, CalmStep

\* In a calm pool a request finds no endpoint only while a reload has removed all
\* the replicas at once, which its batch size must allow: a reload in smaller
\* batches never interrupts the service, however long the replacements take to
\* load (model_service.py:751-752, 898-909).
THEOREM OnlyFullBatchRefuses == Calm => (ServingSpec => RefusedOnlyByFullBatch)
<1>. SUFFICES ASSUME Calm PROVE ServingSpec => RefusedOnlyByFullBatch
  OBVIOUS
<1>. DEFINE A == \A r \in Client : outcome'[r] = "refused" /\ outcome[r] # "refused"
                   => \E t \in Task : job[t].kind = "reload" /\ job[t].batch >= replicas
<1>1. RequestTypeOK /\ TypeOK /\ CalmInv /\ [ServingNext]_ServingVars => [A]_ServingVars
  <2>. SUFFICES ASSUME RequestTypeOK, TypeOK, CalmInv, ServingNext, NEW r \in Client,
                       outcome'[r] = "refused", outcome[r] # "refused"
                PROVE  \E t \in Task : job[t].kind = "reload" /\ job[t].batch >= replicas
    OBVIOUS
  <2>1. Refuse(r)
    BY DEF ServingNext, requestVars, Acquire, Finish, Refuse, RequestTypeOK
  <2>2. Serving /\ Active = {}
    BY <2>1 DEF Refuse
  <2>3. PICK t \in Task : Alone(t) /\ Room(t)
    BY DEF CalmInv
  <2>4. Cardinality(Active) = 0
    BY <2>2, FS_EmptySet
  <2>5. Missing(t) = replicas /\ replicas # 0
    BY <2>3, <2>4, CalmNumbers DEF Room
  <2>6. job[t].kind = "reload"
    BY <2>2, <2>3, <2>5 DEF Alone, Room, Missing
  <2>7. job[t].count = replicas /\ job[t].count <= job[t].batch
    BY <2>3, <2>5, <2>6 DEF Missing, Room
  <2>8. job[t].count \in Nat /\ job[t].batch \in Nat
    BY DEF TypeOK, Job
  <2>. QED  BY <2>6, <2>7, <2>8
<1>2. RequestTypeOK /\ TypeOK /\ CalmInv /\ [ServingNext]_ServingVars
        => RequestTypeOK' /\ TypeOK' /\ CalmInv'
  BY ServingTypeOK, ServedCalm
<1>3. ServingInit => RequestTypeOK /\ TypeOK /\ CalmInv
  BY ServingInitInv, InitTypeOK, InitCalm DEF ServingInit
<1>. QED  BY <1>1, <1>2, <1>3, PTL DEF ServingSpec, RefusedOnlyByFullBatch

\* In a calm pool a request fails only when its instance was removed from the
\* pool under it: while the instance is registered its port is answered, for the
\* model name that was sent (model_service.py:776-783).
THEOREM OnlyRemovalFails == Calm => (ServingSpec => FailsOnlyIfRemoved)
<1>. SUFFICES ASSUME Calm PROVE ServingSpec => FailsOnlyIfRemoved
  OBVIOUS
<1>. DEFINE A == \A r \in Client : holds[r] # NoInst /\ outcome'[r] = "failed"
                                   /\ holds'[r] = NoInst
                   => pool[inst[holds[r]].gpu] # holds[r]
<1>1. RequestTypeOK /\ TypeOK /\ CalmInv /\ [ServingNext]_ServingVars => [A]_ServingVars
  <2>. SUFFICES ASSUME RequestTypeOK, TypeOK, CalmInv, ServingNext, NEW r \in Client,
                       holds[r] # NoInst, outcome'[r] = "failed", holds'[r] = NoInst,
                       pool[inst[holds[r]].gpu] = holds[r]
                PROVE  FALSE
    OBVIOUS
  <2>1. Finish(r)
    BY DEF ServingNext, requestVars, Acquire, Finish, Refuse, RequestTypeOK
  <2>2. holds[r] \in Inst /\ ~Answered(holds[r])
    BY <2>1 DEF Finish, RequestTypeOK
  <2>3. inst[holds[r]].gpu \in Active
    BY <2>2 DEF Active, TypeOK
  <2>4. inst[holds[r]].proc = "up"
    BY <2>3 DEF CalmInv, Accounted
  <2>. QED  BY <2>2, <2>4 DEF Answered
<1>2. RequestTypeOK /\ TypeOK /\ CalmInv /\ [ServingNext]_ServingVars
        => RequestTypeOK' /\ TypeOK' /\ CalmInv'
  BY ServingTypeOK, ServedCalm
<1>3. ServingInit => RequestTypeOK /\ TypeOK /\ CalmInv
  BY ServingInitInv, InitTypeOK, InitCalm DEF ServingInit
<1>. QED  BY <1>1, <1>2, <1>3, PTL DEF ServingSpec, FailsOnlyIfRemoved
=============================================================================
