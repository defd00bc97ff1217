--------------------------- MODULE EmbeddingProofs ---------------------------
(***************************************************************************)
(* Proofs about embeddings: about the worker pool, for every number of     *)
(* workers, callers, slots and limits, and about the index, for every      *)
(* number of builders, servers and entries, every configuration file and   *)
(* whatever is edited, switched, killed or out of reach.                   *)
(***************************************************************************)
EXTENDS EmbeddingPool, EmbeddingIndex, SequenceTheorems, FiniteSetTheorems, TLAPS

----------------------------------------------------------------------------
(* The pool. *)

ProcState == {"unborn", "starting", "running", "closed"}

\* Topping up keeps the types and touches no process but one that was unborn.
LEMMA TopUpEffect ==
    ASSUME TypeOK, NEW sl \in SUBSET Worker, NEW pr \in [Worker -> ProcState],
           TopUp(sl, pr)
    PROVE  /\ slots' \subseteq Worker
           /\ respawner' \in Worker \cup {None}
           /\ proc' \in [Worker -> ProcState]
           /\ spawned' \in [Worker -> {"none", "pending", "resolved", "rejected"}]
           /\ \A w \in Worker : proc[w] # "unborn" => proc'[w] = pr[w]
<1>1. CASE initialized /\ respawner = None /\ Cardinality(sl) < PoolSize
  <2>1. PICK n \in Unborn : /\ slots' = sl \cup {n}
                            /\ respawner' = n
                            /\ proc' = [pr EXCEPT ![n] = "starting"]
                            /\ spawned' = [spawned EXCEPT ![n] = "pending"]
    BY <1>1 DEF TopUp
  <2>2. QED BY <2>1 DEF Unborn, TypeOK, ProcState
<1>2. CASE ~(initialized /\ respawner = None /\ Cardinality(sl) < PoolSize)
  BY <1>2 DEF TopUp, TypeOK, ProcState
<1>3. QED BY <1>1, <1>2

\* What recordFailure may change: types hold and running processes stay so.
LEMMA RecordFailureEffect ==
    ASSUME TypeOK, NEW w \in Worker, RecordFailure(w)
    PROVE  /\ failures' \in [Worker -> 0..FailureThreshold]
           /\ healthy' \subseteq Worker /\ killed' \subseteq Worker
           /\ slots' \subseteq Worker
           /\ respawner' \in Worker \cup {None}
           /\ proc' \in [Worker -> ProcState]
           /\ spawned' \in [Worker -> {"none", "pending", "resolved", "rejected"}]
           /\ \A v \in Worker : proc[v] # "unborn" => proc'[v] = proc[v]
<1> USE PoolAssumption
<1>1. PICK recent \in 0..failures[w] :
        LET n == IF recent < FailureThreshold THEN recent + 1 ELSE recent IN
        /\ failures' = [failures EXCEPT ![w] = n]
        /\ IF n >= FailureThreshold
           THEN Retire(w)
           ELSE UNCHANGED <<healthy, slots, respawner, procVars>>
  BY DEF RecordFailure
<1> DEFINE n == IF recent < FailureThreshold THEN recent + 1 ELSE recent
<1>2. n \in 0..FailureThreshold
  BY DEF TypeOK
<1>3. failures' \in [Worker -> 0..FailureThreshold]
  BY <1>1, <1>2 DEF TypeOK
<1>4. CASE Retire(w)
  <2>1. TopUp(slots, proc)
    BY <1>4 DEF Retire, SlotsAfterRemoving
  <2>2. slots \in SUBSET Worker /\ proc \in [Worker -> ProcState]
    BY DEF TypeOK, ProcState
  <2>3. healthy' \subseteq Worker /\ killed' \subseteq Worker
    BY <1>4 DEF Retire, TypeOK
  <2>4. QED BY <2>1, <2>2, <2>3, <1>3, TopUpEffect
<1>5. CASE UNCHANGED <<healthy, slots, respawner, procVars>>
  BY <1>5, <1>3 DEF TypeOK, ProcState, procVars
<1>6. QED BY <1>1, <1>4, <1>5

\* Burying a worker closes it and frees all of its requests.
LEMMA BuryEffect ==
    ASSUME TypeOK, NEW w \in Worker, Bury(w), proc[w] # "unborn"
    PROVE  /\ slots' \subseteq Worker /\ healthy' \subseteq Worker
           /\ respawner' \in Worker \cup {None}
           /\ proc' \in [Worker -> ProcState]
           /\ spawned' \in [Worker -> {"none", "pending", "resolved", "rejected"}]
           /\ proc'[w] = "closed"
           /\ \A v \in Worker \ {w} : proc[v] # "unborn" => proc'[v] = proc[v]
           /\ owner' = [r \in Request |-> IF owner[r] = w THEN None ELSE owner[r]]
<1> DEFINE pr == [proc EXCEPT ![w] = "closed"]
<1>1. pr \in [Worker -> ProcState] /\ slots \in SUBSET Worker
  BY DEF TypeOK, ProcState
<1>2. TopUp(slots, pr)
  BY DEF Bury, Buried, SlotsAfterRemoving
<1>3. /\ slots' \subseteq Worker
      /\ respawner' \in Worker \cup {None}
      /\ proc' \in [Worker -> ProcState]
      /\ spawned' \in [Worker -> {"none", "pending", "resolved", "rejected"}]
      /\ \A v \in Worker : proc[v] # "unborn" => proc'[v] = pr[v]
  BY <1>1, <1>2, TopUpEffect
<1>4. healthy' \subseteq Worker
  BY DEF Bury, Buried, TypeOK
<1>5. QED BY <1>3, <1>4 DEF Bury, TypeOK

-----------------------------------------------------------------------------
(* Type correctness *)

LEMMA TypeInit == Init => TypeOK
<1> SUFFICES ASSUME Init PROVE TypeOK
  OBVIOUS
<1>1. 0 \in 0..FailureThreshold /\ 0 \in 0..MaxDrains
  BY PoolAssumption
<1>2. /\ slots = {} /\ healthy = {}
      /\ owner \in [Request -> Worker \cup {None}]
      /\ initialized \in BOOLEAN
      /\ initPromise \in Gen \cup {None}
      /\ respawner \in Worker \cup {None}
      /\ killed = {}
      /\ draining \in BOOLEAN
      /\ drains \in 0..MaxDrains
  BY <1>1 DEF Init
<1>3. /\ proc \in [Worker -> {"unborn", "starting", "running", "closed"}]
      /\ spawned \in [Worker -> {"none", "pending", "resolved", "rejected"}]
      /\ load \in [Worker -> Nat]
      /\ failures \in [Worker -> 0..FailureThreshold]
  BY <1>1 DEF Init
<1>4. /\ batch \in [Gen -> SUBSET Worker]
      /\ run \in [Gen -> {"unused", "running", "ok", "failed"}]
      /\ call \in [Request -> {"idle", "waiting", "resumed", "sent"}]
      /\ awaits \in [Request -> Gen \cup {None}]
  BY DEF Init
<1>5. QED BY <1>2, <1>3, <1>4 DEF TypeOK

LEMMA SettleType ==
    ASSUME TypeOK, NEW r \in Request, owner[r] \in Worker, Settle(r)
    PROVE  /\ owner' \in [Request -> Worker \cup {None}]
           /\ load' \in [Worker -> Nat]
           /\ call' \in [Request -> {"idle", "waiting", "resumed", "sent"}]
           /\ awaits' \in [Request -> Gen \cup {None}]
BY DEF TypeOK, Settle, Less

LEMMA TypeStep == TypeOK /\ [Next]_vars => TypeOK'
<1> SUFFICES ASSUME TypeOK, [Next]_vars PROVE TypeOK'
  OBVIOUS
<1> USE PoolAssumption
<1>1. ASSUME NEW r \in Request, Dispatch(r) PROVE TypeOK'
  <2>1. UNCHANGED <<initialized, initPromise, awaits, batch, run, draining, drains, failures>>
    BY <1>1 DEF Dispatch, initVars, drainVars
  <2>2. CASE /\ call' = [call EXCEPT ![r] = "idle"]
             /\ UNCHANGED <<healthy, slots, respawner, procVars, owner, load>>
    BY <2>1, <2>2 DEF TypeOK, procVars
  <2>3. ASSUME NEW w \in LeastLoaded, DispatchTo(r, w) PROVE TypeOK'
    BY <2>1, <2>3 DEF TypeOK, DispatchTo, LeastLoaded, procVars
  <2>4. ASSUME NEW w \in LeastLoaded, DispatchToUnwritable(r, w) PROVE TypeOK'
    <3>1. w \in Worker
      BY DEF LeastLoaded, TypeOK
    <3>2. TopUp(slots, proc)
      BY <2>4 DEF DispatchToUnwritable, SlotsAfterRemoving
    <3>3. slots \in SUBSET Worker /\ proc \in [Worker -> ProcState]
      BY DEF TypeOK, ProcState
    <3>4. /\ slots' \subseteq Worker
          /\ respawner' \in Worker \cup {None}
          /\ proc' \in [Worker -> ProcState]
          /\ spawned' \in [Worker -> {"none", "pending", "resolved", "rejected"}]
      BY <3>2, <3>3, TopUpEffect
    <3>5. QED BY <2>1, <2>4, <3>1, <3>4 DEF DispatchToUnwritable, TypeOK, ProcState
  <2>5. QED BY <1>1, <2>2, <2>3, <2>4 DEF Dispatch
<1>2. ASSUME NEW r \in Request, Embed(r) PROVE TypeOK'
  BY <1>2 DEF Embed, TypeOK, poolVars, procVars, initVars, drainVars
<1>3. ASSUME NEW r \in Request, StartInit(r) PROVE TypeOK'
  <2>1. PICK g \in Gen, ws \in kSubset(PoolSize, Unborn) :
          /\ run' = [run EXCEPT ![g] = "running"]
          /\ batch' = [batch EXCEPT ![g] = ws]
          /\ initPromise' = g
          /\ slots' = slots \cup ws
          /\ proc' = [w \in Worker |-> IF w \in ws THEN "starting" ELSE proc[w]]
          /\ spawned' = [w \in Worker |-> IF w \in ws THEN "pending" ELSE spawned[w]]
          /\ call' = [call EXCEPT ![r] = "waiting"]
          /\ awaits' = [awaits EXCEPT ![r] = g]
    BY <1>3 DEF StartInit
  <2>2. ws \subseteq Worker
    BY DEF kSubset, Unborn
  <2>3. UNCHANGED <<healthy, initialized, respawner, killed, owner, load, draining, drains, failures>>
    BY <1>3 DEF StartInit, drainVars
  <2>4. QED BY <2>1, <2>2, <2>3 DEF TypeOK
<1>4. ASSUME NEW r \in Request, Result(r) PROVE TypeOK'
  <2>1. owner[r] \in Worker /\ Settle(r)
    BY <1>4 DEF Result, TypeOK
  <2>2. QED BY <1>4, <2>1, SettleType DEF Result, TypeOK, poolVars, procVars, initVars, drainVars
<1>5. ASSUME NEW r \in Request, Error(r) \/ RequestTimeout(r) PROVE TypeOK'
  <2>1. owner[r] \in Worker /\ Settle(r) /\ RecordFailure(owner[r])
    BY <1>5 DEF Error, RequestTimeout, TypeOK
  <2>2. UNCHANGED <<initialized, initPromise, initVars, drainVars>>
    BY <1>5 DEF Error, RequestTimeout
  <2>3. QED BY <2>1, <2>2, SettleType, RecordFailureEffect DEF TypeOK, ProcState, initVars, drainVars
<1>6. ASSUME NEW g \in Gen, FinishInit(g) PROVE TypeOK'
  <2>1. UNCHANGED <<respawner, proc, killed, spawned, owner, load, batch, draining, drains, failures>>
    BY <1>6 DEF FinishInit, procVars, drainVars
  <2>2. ASSUME NEW s \in {"idle", "resumed"}, Wake(g, s)
        PROVE  /\ call' \in [Request -> {"idle", "waiting", "resumed", "sent"}]
               /\ awaits' \in [Request -> Gen \cup {None}]
    BY <2>2 DEF Wake, TypeOK
  <2>3. /\ call' \in [Request -> {"idle", "waiting", "resumed", "sent"}]
        /\ awaits' \in [Request -> Gen \cup {None}]
    BY <1>6, <2>2 DEF FinishInit
  <2>4. /\ slots' \subseteq Worker /\ healthy' \subseteq Worker
        /\ initialized' \in BOOLEAN /\ initPromise' \in Gen \cup {None}
        /\ run' \in [Gen -> {"unused", "running", "ok", "failed"}]
    BY <1>6 DEF FinishInit, TypeOK
  <2>5. QED BY <2>1, <2>3, <2>4 DEF TypeOK
<1>7. ASSUME NEW w \in Worker, Ready(w) PROVE TypeOK'
  BY <1>7 DEF Ready, TypeOK, callVars, initVars, drainVars
<1>8. ASSUME NEW w \in Worker, InitTimeout(w) \/ Overflow(w) PROVE TypeOK'
  BY <1>8 DEF InitTimeout, Overflow, TypeOK, poolVars, callVars, initVars, drainVars
<1>9. ASSUME NEW w \in Worker, Close(w) \/ SpawnError(w) PROVE TypeOK'
  <2>1. Bury(w) /\ proc[w] # "unborn"
    BY <1>9 DEF Close, SpawnError
  <2>2. failures' \in [Worker -> 0..FailureThreshold]
    BY <1>9 DEF Close, SpawnError, TypeOK
  <2>3. /\ owner' \in [Request -> Worker \cup {None}]
        /\ call' \in [Request -> {"idle", "waiting", "resumed", "sent"}]
    BY <2>1 DEF Bury, TypeOK
  <2>4. Less(load[w], Cardinality(Owned(w))) \in Nat
    <3>1. IsFiniteSet(Owned(w))
      BY FS_Subset DEF Owned
    <3>2. Cardinality(Owned(w)) \in Nat
      BY <3>1, FS_CardinalityType
    <3>3. QED BY <3>2 DEF Less, TypeOK
  <2>5. load' \in [Worker -> Nat]
    BY <2>1, <2>4 DEF Bury, TypeOK
  <2>6. UNCHANGED <<initialized, initPromise, killed, awaits, batch, run, draining, drains>>
    BY <2>1 DEF Bury, Buried, initVars, drainVars
  <2>7. QED BY <2>1, <2>2, <2>3, <2>5, <2>6, BuryEffect DEF TypeOK, ProcState
<1>10. CASE StartDrain
  BY <1>10 DEF StartDrain, TypeOK, poolVars, procVars, callVars, initVars
<1>11. CASE FinishDrain
  <2>1. /\ respawner' \in Worker \cup {None}
        /\ proc' \in [Worker -> ProcState]
        /\ spawned' \in [Worker -> {"none", "pending", "resolved", "rejected"}]
    BY <1>11 DEF FinishDrain, TypeOK, ProcState, Unborn
  <2>2. QED BY <1>11, <2>1 DEF FinishDrain, TypeOK, ProcState, initVars
<1>12. CASE UNCHANGED vars
  BY <1>12 DEF vars, poolVars, procVars, callVars, initVars, drainVars, TypeOK
<1>13. QED
  BY <1>1, <1>2, <1>3, <1>4, <1>5, <1>6, <1>7, <1>8, <1>9, <1>10, <1>11, <1>12 DEF Next

\* The pool's maps, counters and promises keep their types in every state.
THEOREM PoolTypeOK == Spec => []TypeOK
BY TypeInit, TypeStep, PTL DEF Spec

-----------------------------------------------------------------------------
(* No request is stranded *)

LEMMA StrandedStep ==
    TypeOK /\ NoStrandedRequest /\ [Next]_vars => NoStrandedRequest'
<1> SUFFICES ASSUME TypeOK, NoStrandedRequest, [Next]_vars,
                    NEW q \in Request, owner'[q] # None
             PROVE  proc'[owner'[q]] = "running"
  BY DEF NoStrandedRequest
<1> USE PoolAssumption
<1>a. owner[q] \in Worker \cup {None}
  BY DEF TypeOK
<1>0. ASSUME owner' = owner,
             \A v \in Worker : proc[v] = "running" => proc'[v] = "running"
      PROVE  proc'[owner'[q]] = "running"
  BY <1>0, <1>a DEF NoStrandedRequest
<1>1. ASSUME NEW r \in Request, Dispatch(r) PROVE proc'[owner'[q]] = "running"
  <2>1. CASE UNCHANGED <<healthy, slots, respawner, procVars, owner, load>>
    BY <2>1, <1>0 DEF procVars
  <2>2. ASSUME NEW w \in LeastLoaded, DispatchTo(r, w) PROVE proc'[owner'[q]] = "running"
    <3>1. proc' = proc /\ proc[w] = "running" /\ owner' = [owner EXCEPT ![r] = w]
      BY <2>2 DEF DispatchTo, procVars
    <3>2. QED BY <3>1, <1>a DEF NoStrandedRequest, TypeOK
  <2>3. ASSUME NEW w \in LeastLoaded, DispatchToUnwritable(r, w) PROVE proc'[owner'[q]] = "running"
    <3>1. TopUp(slots, proc) /\ owner' = owner
      BY <2>3 DEF DispatchToUnwritable, SlotsAfterRemoving
    <3>2. slots \in SUBSET Worker /\ proc \in [Worker -> ProcState]
      BY DEF TypeOK, ProcState
    <3>3. \A v \in Worker : proc[v] # "unborn" => proc'[v] = proc[v]
      BY <3>1, <3>2, TopUpEffect
    <3>4. QED BY <3>1, <3>3, <1>0
  <2>4. QED BY <1>1, <2>1, <2>2, <2>3 DEF Dispatch
<1>2. ASSUME NEW r \in Request, Embed(r) PROVE proc'[owner'[q]] = "running"
  BY <1>2, <1>0 DEF Embed, procVars
<1>3. ASSUME NEW r \in Request, StartInit(r) PROVE proc'[owner'[q]] = "running"
  <2>1. PICK g \in Gen, ws \in kSubset(PoolSize, Unborn) :
          proc' = [w \in Worker |-> IF w \in ws THEN "starting" ELSE proc[w]]
    BY <1>3 DEF StartInit
  <2>2. \A v \in Worker : proc[v] = "running" => proc'[v] = "running"
    BY <2>1 DEF kSubset, Unborn
  <2>3. owner' = owner
    BY <1>3 DEF StartInit
  <2>4. QED BY <2>2, <2>3, <1>0
<1>4. ASSUME NEW r \in Request, Result(r) PROVE proc'[owner'[q]] = "running"
  BY <1>4, <1>a DEF Result, Settle, NoStrandedRequest, TypeOK, procVars
<1>5. ASSUME NEW r \in Request, Error(r) \/ RequestTimeout(r) PROVE proc'[owner'[q]] = "running"
  <2>1. owner[r] \in Worker /\ Settle(r) /\ RecordFailure(owner[r])
    BY <1>5 DEF Error, RequestTimeout, TypeOK
  <2>2. \A v \in Worker : proc[v] # "unborn" => proc'[v] = proc[v]
    BY <2>1, RecordFailureEffect
  <2>3. owner' = [owner EXCEPT ![r] = None]
    BY <2>1 DEF Settle
  <2>4. QED BY <2>2, <2>3, <1>a DEF NoStrandedRequest, TypeOK
<1>6. ASSUME NEW g \in Gen, FinishInit(g) PROVE proc'[owner'[q]] = "running"
  BY <1>6, <1>0 DEF FinishInit, procVars
<1>7. ASSUME NEW w \in Worker, Ready(w) PROVE proc'[owner'[q]] = "running"
  BY <1>7, <1>0 DEF Ready, callVars, TypeOK
<1>8. ASSUME NEW w \in Worker, InitTimeout(w) \/ Overflow(w) PROVE proc'[owner'[q]] = "running"
  BY <1>8, <1>0 DEF InitTimeout, Overflow, callVars
<1>9. ASSUME NEW w \in Worker, Close(w) \/ SpawnError(w) PROVE proc'[owner'[q]] = "running"
  <2>1. Bury(w) /\ proc[w] # "unborn"
    BY <1>9 DEF Close, SpawnError
  <2>2. QED BY <2>1, BuryEffect, <1>a DEF NoStrandedRequest, TypeOK
<1>10. CASE StartDrain
  BY <1>10, <1>0 DEF StartDrain, callVars, procVars
<1>11. CASE FinishDrain
  BY <1>11 DEF FinishDrain
<1>12. CASE UNCHANGED vars
  BY <1>12, <1>0 DEF vars, procVars, callVars
<1>13. QED
  BY <1>1, <1>2, <1>3, <1>4, <1>5, <1>6, <1>7, <1>8, <1>9, <1>10, <1>11, <1>12 DEF Next

\* rejectPendingForWorker and the stdin check together: a pending request is
\* always owned by a process that can still answer it or close.
THEOREM PoolNoStrandedRequest == Spec => []NoStrandedRequest
<1>1. Init => NoStrandedRequest
  BY DEF Init, NoStrandedRequest
<1>2. QED BY <1>1, PoolTypeOK, StrandedStep, PTL DEF Spec

-----------------------------------------------------------------------------
(* The counters that balance the load *)

\* A drain can only be in progress once one has been counted.
DrainCounted == draining => drains # 0

LEMMA OwnedFinite == \A w \in Worker : IsFiniteSet(Owned(w))
BY PoolAssumption, FS_Subset DEF Owned

\* Settling one request takes exactly one from its worker's counter.
LEMMA SettleCounts ==
    ASSUME TypeOK, NEW r \in Request, owner[r] \in Worker, Settle(r),
           \A w \in Worker : load[w] = Cardinality(Owned(w))
    PROVE  \A w \in Worker : load'[w] = Cardinality(Owned(w)')
<1> TAKE w \in Worker
<1> USE PoolAssumption
<1>1. owner' = [owner EXCEPT ![r] = None] /\ load' = [load EXCEPT ![owner[r]] = Less(@, 1)]
  BY DEF Settle
<1>2. CASE w = owner[r]
  <2>1. Owned(w)' = Owned(w) \ {r} /\ r \in Owned(w)
    BY <1>1, <1>2 DEF Owned, TypeOK
  <2>2. /\ Cardinality(Owned(w) \ {r}) = Cardinality(Owned(w)) - 1
        /\ Cardinality(Owned(w)) \in Nat
    BY <2>1, OwnedFinite, FS_RemoveElement, FS_CardinalityType
  <2>3. Cardinality(Owned(w)) # 0
    BY <2>1, OwnedFinite, FS_EmptySet
  <2>4. load'[w] = Less(load[w], 1)
    BY <1>1, <1>2 DEF TypeOK
  <2>5. QED BY <2>1, <2>2, <2>3, <2>4 DEF Less
<1>3. CASE w # owner[r]
  <2>1. Owned(w)' = Owned(w)
    BY <1>1, <1>3 DEF Owned, TypeOK
  <2>2. load'[w] = load[w]
    BY <1>1, <1>3 DEF TypeOK
  <2>3. QED BY <2>1, <2>2
<1>4. QED BY <1>2, <1>3

\* Only a call that was sent has an entry in pendingRequests.
OwnedAreSent == \A r \in Request : owner[r] # None => call[r] = "sent"

LEMMA SentStep == TypeOK /\ OwnedAreSent /\ [Next]_vars => OwnedAreSent'
<1> SUFFICES ASSUME TypeOK, OwnedAreSent, [Next]_vars,
                    NEW q \in Request, owner'[q] # None
             PROVE  call'[q] = "sent"
  BY DEF OwnedAreSent
<1> USE PoolAssumption
<1>1. ASSUME NEW r \in Request, Dispatch(r) PROVE call'[q] = "sent"
  BY <1>1 DEF Dispatch, DispatchTo, DispatchToUnwritable, OwnedAreSent, TypeOK
<1>2. ASSUME NEW r \in Request, Embed(r) \/ StartInit(r) PROVE call'[q] = "sent"
  BY <1>2 DEF Embed, StartInit, OwnedAreSent, TypeOK
<1>3. ASSUME NEW r \in Request, Result(r) \/ Error(r) \/ RequestTimeout(r) PROVE call'[q] = "sent"
  <2>1. Settle(r)
    BY <1>3 DEF Result, Error, RequestTimeout
  <2>2. QED BY <2>1 DEF Settle, OwnedAreSent, TypeOK
<1>4. ASSUME NEW g \in Gen, FinishInit(g) PROVE call'[q] = "sent"
  <2>1. Wake(g, "resumed") \/ Wake(g, "idle")
    BY <1>4 DEF FinishInit
  <2>2. owner' = owner
    BY <1>4 DEF FinishInit
  <2>3. QED BY <2>1, <2>2 DEF Wake, OwnedAreSent, TypeOK
<1>5. ASSUME NEW w \in Worker, Ready(w) \/ InitTimeout(w) \/ Overflow(w) PROVE call'[q] = "sent"
  BY <1>5 DEF Ready, InitTimeout, Overflow, callVars, OwnedAreSent
<1>6. ASSUME NEW w \in Worker, Close(w) \/ SpawnError(w) PROVE call'[q] = "sent"
  BY <1>6 DEF Close, SpawnError, Bury, OwnedAreSent, TypeOK
<1>7. CASE StartDrain
  BY <1>7 DEF StartDrain, callVars, OwnedAreSent
<1>8. CASE FinishDrain
  BY <1>8 DEF FinishDrain
<1>9. CASE UNCHANGED vars
  BY <1>9 DEF vars, callVars, OwnedAreSent
<1>10. QED
  BY <1>1, <1>2, <1>3, <1>4, <1>5, <1>6, <1>7, <1>8, <1>9 DEF Next

LEMMA LoadStep ==
    TypeOK /\ DrainCounted /\ OwnedAreSent /\ LoadCountsOwned /\ [Next]_vars
        => LoadCountsOwned' /\ DrainCounted'
<1> SUFFICES ASSUME TypeOK, DrainCounted, OwnedAreSent, LoadCountsOwned, [Next]_vars
             PROVE  LoadCountsOwned' /\ DrainCounted'
  OBVIOUS
<1> USE PoolAssumption
<1>1. DrainCounted' /\ (drains' = 0 => drains = 0 /\ ~FinishDrain)
  <2>1. CASE StartDrain
    BY <2>1 DEF StartDrain, FinishDrain, DrainCounted, TypeOK
  <2>2. CASE FinishDrain
    BY <2>2 DEF FinishDrain, DrainCounted
  <2>3. CASE UNCHANGED <<draining, drains>>
    BY <2>3 DEF FinishDrain, DrainCounted, TypeOK
  <2>4. StartDrain \/ FinishDrain \/ UNCHANGED <<draining, drains>>
    BY DEF Next, vars, drainVars, Dispatch, Embed, StartInit, Result, Error,
       RequestTimeout, FinishInit, Ready, InitTimeout, Overflow, Close, SpawnError, Bury, Buried
  <2>5. QED BY <2>1, <2>2, <2>3, <2>4
<1>2. SUFFICES ASSUME drains' = 0
               PROVE  \A w \in Worker : load'[w] = Cardinality(Owned(w)')
  BY <1>1 DEF LoadCountsOwned
<1>3. \A w \in Worker : load[w] = Cardinality(Owned(w))
  BY <1>1, <1>2 DEF LoadCountsOwned
<1>4. ASSUME owner' = owner, load' = load
      PROVE  \A w \in Worker : load'[w] = Cardinality(Owned(w)')
  BY <1>3, <1>4 DEF Owned
<1>5. ASSUME NEW r \in Request, Dispatch(r)
      PROVE  \A w \in Worker : load'[w] = Cardinality(Owned(w)')
  <2>1. CASE owner' = owner /\ load' = load
    BY <1>4, <2>1
  <2>2. ASSUME NEW v \in LeastLoaded, DispatchTo(r, v), owner[r] = None
        PROVE  \A w \in Worker : load'[w] = Cardinality(Owned(w)')
    <3> TAKE w \in Worker
    <3>1. owner' = [owner EXCEPT ![r] = v] /\ load' = [load EXCEPT ![v] = @ + 1]
      BY <2>2 DEF DispatchTo
    <3>2. v \in Worker
      BY DEF LeastLoaded, TypeOK
    <3>3. CASE w = v
      <4>1. Owned(w)' = Owned(w) \cup {r} /\ r \notin Owned(w)
        BY <2>2, <3>1, <3>2, <3>3 DEF Owned, TypeOK
      <4>2. Cardinality(Owned(w) \cup {r}) = Cardinality(Owned(w)) + 1
        BY <4>1, OwnedFinite, FS_AddElement
      <4>3. load'[w] = load[w] + 1
        BY <3>1, <3>3 DEF TypeOK
      <4>4. QED BY <4>1, <4>2, <4>3, <1>3
    <3>4. CASE w # v
      <4>1. Owned(w)' = Owned(w)
        BY <2>2, <3>1, <3>4 DEF Owned, TypeOK
      <4>2. load'[w] = load[w]
        BY <3>1, <3>4 DEF TypeOK
      <4>3. QED BY <4>1, <4>2, <1>3
    <3>5. QED BY <3>3, <3>4
  <2>3. owner[r] = None
    BY <1>5 DEF Dispatch, OwnedAreSent
  <2>4. QED BY <1>5, <2>1, <2>2, <2>3 DEF Dispatch, DispatchToUnwritable
<1>6. ASSUME NEW r \in Request, Result(r) \/ Error(r) \/ RequestTimeout(r)
      PROVE  \A w \in Worker : load'[w] = Cardinality(Owned(w)')
  <2>1. owner[r] \in Worker /\ Settle(r)
    BY <1>6 DEF Result, Error, RequestTimeout, TypeOK
  <2>2. QED BY <2>1, <1>3, SettleCounts
<1>7. ASSUME NEW v \in Worker, Close(v) \/ SpawnError(v)
      PROVE  \A w \in Worker : load'[w] = Cardinality(Owned(w)')
  <2> TAKE w \in Worker
  <2>1. /\ owner' = [r \in Request |-> IF owner[r] = v THEN None ELSE owner[r]]
        /\ load' = [load EXCEPT ![v] = Less(@, Cardinality(Owned(v)))]
    BY <1>7 DEF Close, SpawnError, Bury
  <2>2. CASE w = v
    <3>1. Owned(w)' = {}
      BY <2>1, <2>2 DEF Owned
    <3>2. Cardinality({}) = 0
      BY FS_EmptySet
    <3>3. load'[w] = Less(load[w], load[w]) /\ load[w] \in Nat
      BY <2>1, <2>2, <1>3 DEF TypeOK
    <3>4. QED BY <3>1, <3>2, <3>3 DEF Less
  <2>3. CASE w # v
    <3>1. Owned(w)' = Owned(w)
      BY <2>1, <2>3 DEF Owned
    <3>2. load'[w] = load[w]
      BY <2>1, <2>3 DEF TypeOK
    <3>3. QED BY <3>1, <3>2, <1>3
  <2>4. QED BY <2>2, <2>3
<1>8. ASSUME \/ \E r \in Request : Embed(r) \/ StartInit(r)
             \/ \E g \in Gen : FinishInit(g)
             \/ \E w \in Worker : Ready(w) \/ InitTimeout(w) \/ Overflow(w)
             \/ StartDrain \/ UNCHANGED vars
      PROVE  owner' = owner /\ load' = load
  BY <1>8 DEF Embed, StartInit, FinishInit, Ready, InitTimeout, Overflow, StartDrain, vars, callVars
<1>9. QED
  BY <1>1, <1>2, <1>4, <1>5, <1>6, <1>7, <1>8 DEF Next

\* worker.pending is the number of requests the worker owns, through every
\* way a request can settle, until a drain empties the pool.
THEOREM PoolLoadCountsOwned == Spec => []LoadCountsOwned
<1>1. Init => DrainCounted /\ OwnedAreSent /\ LoadCountsOwned
  <2> SUFFICES ASSUME Init PROVE DrainCounted /\ OwnedAreSent /\ LoadCountsOwned
    OBVIOUS
  <2>1. \A w \in Worker : Owned(w) = {}
    BY PoolAssumption DEF Init, Owned
  <2>2. LoadCountsOwned
    BY <2>1, FS_EmptySet DEF Init, LoadCountsOwned
  <2>3. QED BY <2>2 DEF Init, DrainCounted, OwnedAreSent
<1>2. QED BY <1>1, PoolTypeOK, SentStep, LoadStep, PTL DEF Spec

-----------------------------------------------------------------------------
(* Action properties *)

\* A dying worker settles its own requests and no other's.
THEOREM PoolDeathIsLocal == Spec => DeathIsLocal
<1>1. ASSUME TypeOK, [Next]_vars, NEW w \in Worker,
             proc[w] # "closed", proc'[w] = "closed", NEW q \in Request \ Owned(w)
      PROVE  call'[q] = call[q] /\ owner'[q] = owner[q]
  <2> USE PoolAssumption
  <2>1. PICK v \in Worker : (Close(v) \/ SpawnError(v)) /\ v = w
    <3>1. ASSUME NEW r \in Request, Dispatch(r) PROVE FALSE
      <4>1. proc' = proc \/ TopUp(slots, proc)
        BY <3>1 DEF Dispatch, DispatchTo, DispatchToUnwritable, procVars, SlotsAfterRemoving
      <4>2. QED BY <4>1, <1>1 DEF TopUp, TypeOK
    <3>2. ASSUME NEW r \in Request, Error(r) \/ RequestTimeout(r) PROVE FALSE
      <4>1. owner[r] \in Worker /\ RecordFailure(owner[r])
        BY <1>1, <3>2 DEF Error, RequestTimeout, TypeOK
      <4>2. proc' = proc \/ TopUp(slots, proc)
        BY <4>1 DEF RecordFailure, Retire, SlotsAfterRemoving, procVars
      <4>3. QED BY <4>2, <1>1 DEF TopUp, TypeOK
    <3>3. ASSUME NEW r \in Request, Embed(r) \/ StartInit(r) \/ Result(r) PROVE FALSE
      BY <3>3, <1>1 DEF Embed, StartInit, Result, procVars, TypeOK
    <3>4. ASSUME NEW v \in Worker, Ready(v) \/ InitTimeout(v) \/ Overflow(v) PROVE FALSE
      BY <3>4, <1>1 DEF Ready, InitTimeout, Overflow, TypeOK
    <3>5. ASSUME NEW v \in Worker, Close(v) \/ SpawnError(v) PROVE v = w
      <4>1. Bury(v)
        BY <3>5 DEF Close, SpawnError
      <4>2. TopUp(slots, [proc EXCEPT ![v] = "closed"])
        BY <4>1 DEF Bury, Buried, SlotsAfterRemoving
      <4>3. QED BY <4>2, <1>1 DEF TopUp, TypeOK
    <3>6. ASSUME FinishDrain \/ StartDrain \/ UNCHANGED vars \/ \E g \in Gen : FinishInit(g) PROVE FALSE
      BY <3>6, <1>1 DEF FinishDrain, StartDrain, FinishInit, vars, procVars, TypeOK
    <3>7. QED BY <1>1, <3>1, <3>2, <3>3, <3>4, <3>5, <3>6 DEF Next
  <2>2. owner[q] # w
    BY <1>1 DEF Owned
  <2>3. QED BY <1>1, <2>1, <2>2 DEF Close, SpawnError, Bury, TypeOK
<1>2. TypeOK /\ [Next]_vars =>
        [\A w \in Worker :
            (proc[w] # "closed" /\ proc'[w] = "closed")
                => \A r \in Request \ Owned(w) : call'[r] = call[r] /\ owner'[r] = owner[r]]_vars
  BY <1>1
<1>3. QED BY <1>2, PoolTypeOK, PTL DEF Spec, DeathIsLocal

----------------------------------------------------------------------------
(* The index: its runtime configuration, *)

\* The settings of a file that decide which vectors are made: its blocks without
\* their keys.
Plain(data) ==
    LET plain == StripPlaintextApiKeys(data)
    IN  [defaults |-> plain.defaults, providers |-> plain.providers, profiles |-> plain.profiles]

Keyless(block) == [block EXCEPT !.key = Unset]
Migrated(block) == IF block.key = Unset THEN block ELSE [block EXCEPT !.key = Unset, !.keyEnv = Or(@, DirectKey)]

LEMMA BlocksTyped ==
    ASSUME NEW block, ConfigBlock(block)
    PROVE  /\ ConfigBlock(Keyless(block)) /\ ConfigBlock(Migrated(block))
           /\ Keyless(block) = [provider |-> block.provider, adapter |-> block.adapter, model |-> block.model,
                                lenient |-> block.lenient, keyEnv |-> block.keyEnv, key |-> Unset]
<1>1. PICK p, a, m, l, k, v : block = [provider |-> p, adapter |-> a, model |-> m, lenient |-> l, keyEnv |-> k, key |-> v]
  BY DEF ConfigBlock
<1>2. Keyless(block) = [provider |-> p, adapter |-> a, model |-> m, lenient |-> l, keyEnv |-> k, key |-> Unset]
  BY <1>1 DEF Keyless
<1>3. block.key # Unset => Migrated(block) = [provider |-> p, adapter |-> a, model |-> m, lenient |-> l, keyEnv |-> Or(k, DirectKey), key |-> Unset]
  BY <1>1 DEF Migrated
<1> QED
  BY <1>1, <1>2, <1>3 DEF ConfigBlock, Migrated

LEMMA StripIs ==
    ASSUME NEW data, ConfigFile(data)
    PROVE  StripPlaintextApiKeys(data) =
             [defaults |-> Keyless(data.defaults), providers |-> [n \in DOMAIN data.providers |-> Keyless(data.providers[n])],
              profiles |-> [n \in DOMAIN data.profiles |-> Keyless(data.profiles[n])],
              activeProfile |-> data.activeProfile, activeProvider |-> data.activeProvider]
  BY DEF EveryBlock, StripPlaintextApiKeys, Keyless

LEMMA MigrateIs ==
    ASSUME NEW data, ConfigFile(data)
    PROVE  MigrateValue(data) =
             [defaults |-> Migrated(data.defaults), providers |-> [n \in DOMAIN data.providers |-> Migrated(data.providers[n])],
              profiles |-> [n \in DOMAIN data.profiles |-> Migrated(data.profiles[n])],
              activeProfile |-> data.activeProfile, activeProvider |-> data.activeProvider]
  BY DEF EveryBlock, MigrateValue, Migrated

\* Whatever the file becomes is a file.
LEMMA FilesKept ==
    ASSUME NEW data, ConfigFile(data), NEW request
    PROVE  /\ ConfigFile(StripPlaintextApiKeys(data)) /\ ConfigFile(MigrateValue(data))
           /\ ConfigFile(Selection(data, request))
           /\ Plain(Selection(data, request)) = Plain(data)
           /\ Plain(StripPlaintextApiKeys(data)) = Plain(data)
<1>1. ConfigFile(StripPlaintextApiKeys(data))
  BY StripIs, BlocksTyped DEF ConfigFile
<1>2. ConfigFile(MigrateValue(data))
  BY MigrateIs, BlocksTyped DEF ConfigFile
<1>3. /\ Selection(data, request).defaults = data.defaults /\ Selection(data, request).providers = data.providers
      /\ Selection(data, request).profiles = data.profiles
  BY DEF Selection, ConfigFile
<1>4. ConfigFile(Selection(data, request))
  BY <1>3 DEF Selection, ConfigFile
<1>5. Plain(Selection(data, request)) = Plain(data)
  BY <1>3, <1>4, StripIs DEF Plain
<1>6. Plain(StripPlaintextApiKeys(data)) = Plain(data)
  <2>1. ASSUME NEW block, ConfigBlock(block) PROVE Keyless(Keyless(block)) = Keyless(block)
    BY <2>1, BlocksTyped DEF ConfigBlock
  <2> QED
    BY <1>1, <2>1, StripIs DEF Plain, ConfigFile
<1> QED
  BY <1>1, <1>2, <1>4, <1>5, <1>6

----------------------------------------------------------------------------
(* and what it resolves to, *)

LEMMA MergeIs ==
    ASSUME NEW block, ConfigBlock(block), NEW over, ConfigBlock(over)
    PROVE  /\ ConfigBlock(Merge(block, over))
           /\ Merge(block, over).adapter = Or(over.adapter, block.adapter)
           /\ Merge(block, over).model = Or(over.model, block.model)
           /\ Merge(block, over).lenient = Or(over.lenient, block.lenient)
           /\ Merge(block, over).keyEnv = Or(over.keyEnv, block.keyEnv)
  BY DEF Merge, ConfigBlock

LEMMA BlockIs ==
    ASSUME NEW registry, \A n \in DOMAIN registry : ConfigBlock(registry[n]), NEW name
    PROVE  ConfigBlock(Block(registry, name))
  BY DEF Block, NoSettings, ConfigBlock

\* The adapter, the model and the rest that a file resolves to, given the names.
Chosen(defaults, provider, profile) ==
    [adapter |-> Or(profile.adapter, Or(provider.adapter, defaults.adapter)),
     model |-> Or(profile.model, Or(provider.model, defaults.model))]

LEMMA ResolvedIs ==
    ASSUME NEW data, ConfigFile(data), NEW env, NEW python
    PROVE  LET profile == ProfileName(data, env)
               provider == ProviderName(data, env, profile)
               both == Chosen(data.defaults, Block(data.providers, provider), Block(data.profiles, profile))
               r == Resolved(data, env, python)
           IN  /\ r.profile = profile /\ r.provider = provider
               /\ r.adapter = Or(NormalizeAdapter(env.adapter, python), Or(NormalizeAdapter(both.adapter, python), Defaults.adapter))
               /\ r.model = Or(env.model, Or(both.model, Defaults.model))
<1> DEFINE profile == ProfileName(data, env)
           provider == ProviderName(data, env, profile)
           a == Block(data.providers, provider)
           b == Block(data.profiles, profile)
           merged == Merge(Merge(data.defaults, a), b)
<1>1. ConfigBlock(data.defaults) /\ ConfigBlock(a) /\ ConfigBlock(b)
  BY BlockIs DEF ConfigFile
<1>2. /\ merged.adapter = Or(b.adapter, Or(a.adapter, data.defaults.adapter))
      /\ merged.model = Or(b.model, Or(a.model, data.defaults.model))
  <2> HIDE DEF a, b
  <2> QED
    BY <1>1, MergeIs
<1> QED
  BY <1>2 DEF Resolved, Chosen

\* A file that says the same of everything but its keys, and resolves to the
\* same names, resolves to the same in Python.
LEMMA SameInPython ==
    ASSUME NEW d, ConfigFile(d), NEW e, ConfigFile(e), Plain(d) = Plain(e), NEW env,
           RestartSignature(ResolveEmbeddingRuntime(d, env)) = RestartSignature(ResolveEmbeddingRuntime(e, env))
    PROVE  ConfigHash(ResolveEmbeddingRuntimePy(d, env)) = ConfigHash(ResolveEmbeddingRuntimePy(e, env))
<1> DEFINE profile(x) == ProfileName(x, env)
           provider(x) == ProviderName(x, env, profile(x))
<1>1. profile(d) = profile(e) /\ provider(d) = provider(e)
  <2>1. /\ Resolved(d, env, FALSE).profile = profile(d) /\ Resolved(d, env, FALSE).provider = provider(d)
        /\ Resolved(e, env, FALSE).profile = profile(e) /\ Resolved(e, env, FALSE).provider = provider(e)
    BY ResolvedIs
  <2>2. /\ Resolved(d, env, FALSE).profile = Resolved(e, env, FALSE).profile
        /\ Resolved(d, env, FALSE).provider = Resolved(e, env, FALSE).provider
    BY DEF ResolveEmbeddingRuntime, RestartSignature
  <2> HIDE DEF profile, provider
  <2> QED
    BY <2>1, <2>2
<1>2. \A block : ConfigBlock(block) => Keyless(block).adapter = block.adapter /\ Keyless(block).model = block.model
  BY BlocksTyped
<1>3. ASSUME NEW r, NEW s, NEW name,
             \A n \in DOMAIN r : ConfigBlock(r[n]), \A n \in DOMAIN s : ConfigBlock(s[n]),
             [n \in DOMAIN r |-> Keyless(r[n])] = [n \in DOMAIN s |-> Keyless(s[n])]
      PROVE  Block(r, name).adapter = Block(s, name).adapter /\ Block(r, name).model = Block(s, name).model
  <2>1. DOMAIN r = DOMAIN s /\ \A n \in DOMAIN r : Keyless(r[n]) = Keyless(s[n])
    BY <1>3
  <2> QED
    BY <1>2, <1>3, <2>1 DEF Block
<1>4. /\ Keyless(d.defaults) = Keyless(e.defaults)
      /\ [n \in DOMAIN d.providers |-> Keyless(d.providers[n])] = [n \in DOMAIN e.providers |-> Keyless(e.providers[n])]
      /\ [n \in DOMAIN d.profiles |-> Keyless(d.profiles[n])] = [n \in DOMAIN e.profiles |-> Keyless(e.profiles[n])]
  BY StripIs DEF Plain
<1>5. d.defaults.adapter = e.defaults.adapter /\ d.defaults.model = e.defaults.model
  BY <1>2, <1>4 DEF ConfigFile
<1>6. Chosen(d.defaults, Block(d.providers, provider(d)), Block(d.profiles, profile(d))) =
      Chosen(e.defaults, Block(e.providers, provider(e)), Block(e.profiles, profile(e)))
  <2>1. \A name : Block(d.providers, name).adapter = Block(e.providers, name).adapter /\ Block(d.providers, name).model = Block(e.providers, name).model
    BY <1>3, <1>4 DEF ConfigFile
  <2>2. \A name : Block(d.profiles, name).adapter = Block(e.profiles, name).adapter /\ Block(d.profiles, name).model = Block(e.profiles, name).model
    BY <1>3, <1>4 DEF ConfigFile
  <2> HIDE DEF profile, provider
  <2> QED
    BY <1>1, <1>5, <2>1, <2>2 DEF Chosen
<1> QED
  <2>1. /\ Resolved(d, env, TRUE).adapter = Resolved(e, env, TRUE).adapter
        /\ Resolved(d, env, TRUE).model = Resolved(e, env, TRUE).model
    <3> DEFINE both(x) == Chosen(x.defaults, Block(x.providers, provider(x)), Block(x.profiles, profile(x)))
    <3>1. ASSUME NEW x, ConfigFile(x)
          PROVE  /\ Resolved(x, env, TRUE).adapter =
                      Or(NormalizeAdapter(env.adapter, TRUE), Or(NormalizeAdapter(both(x).adapter, TRUE), Defaults.adapter))
                 /\ Resolved(x, env, TRUE).model = Or(env.model, Or(both(x).model, Defaults.model))
      BY <3>1, ResolvedIs
    <3>2. both(d) = both(e)
      BY <1>6
    <3> HIDE DEF both
    <3> QED
      BY <3>1, <3>2
  <2> QED
    BY <2>1 DEF ResolveEmbeddingRuntimePy, ConfigHash

\* Where both know every adapter, both come to the same.
LEMMA SameInBoth ==
    ASSUME NEW data, ConfigFile(data), NEW env, AdaptersKnown(data, env)
    PROVE  ConfigHash(ResolveEmbeddingRuntime(data, env)) = ConfigHash(ResolveEmbeddingRuntimePy(data, env))
<1> DEFINE profile == ProfileName(data, env)
           provider == ProviderName(data, env, profile)
           a == Block(data.providers, provider)
           b == Block(data.profiles, profile)
           both == Chosen(data.defaults, a, b)
<1>1. \A adapter : Known(adapter) => NormalizeAdapter(adapter, TRUE) = NormalizeAdapter(adapter, FALSE)
  BY DEF Known, NormalizeAdapter
<1>2. Known(Unset)
  BY DEF Known, Canonical, Unset
<1>3. Known(a.adapter) /\ Known(b.adapter)
  BY <1>2 DEF AdaptersKnown, Block, NoSettings
<1>4. Known(both.adapter)
  <2> HIDE DEF a, b
  <2> QED
    BY <1>3 DEF AdaptersKnown, Chosen, Or
<1>5. /\ Resolved(data, env, TRUE).adapter = Resolved(data, env, FALSE).adapter
      /\ Resolved(data, env, TRUE).model = Resolved(data, env, FALSE).model
  <2>1. /\ NormalizeAdapter(both.adapter, TRUE) = NormalizeAdapter(both.adapter, FALSE)
        /\ NormalizeAdapter(env.adapter, TRUE) = NormalizeAdapter(env.adapter, FALSE)
    BY <1>1, <1>4 DEF AdaptersKnown
  <2>2. ASSUME NEW python
        PROVE  /\ Resolved(data, env, python).adapter =
                    Or(NormalizeAdapter(env.adapter, python), Or(NormalizeAdapter(both.adapter, python), Defaults.adapter))
               /\ Resolved(data, env, python).model = Or(env.model, Or(both.model, Defaults.model))
    BY ResolvedIs
  <2> HIDE DEF both
  <2> QED
    BY <2>1, <2>2
<1> QED
  BY <1>5 DEF ResolveEmbeddingRuntime, ResolveEmbeddingRuntimePy, ConfigHash

----------------------------------------------------------------------------
(* the workers and the configuration, *)

ConfigOK ==
    /\ setting \in Settings /\ ConfigFile(file)
    /\ select = [v \in Server \cup {Script} |-> select[v]]
    /\ worker = [v \in Server |-> worker[v]]
    /\ \A v \in Server \cup {Script} : ConfigFile(select[v].next)

\* Only the servers there are select, and only the script where it is run.
OnlyThose ==
    /\ \A v \in Server : select[v].at # "idle" => v \in setting.servers
    /\ select[Script].at # "idle" => setting.migrates

\* A lone server, while it selects, knows the file and its worker as they are.
Lone == Cardinality(setting.servers) = 1 /\ ~setting.migrates
SelectsKnowing(v) ==
    select[v].at = "write" =>
        /\ Plain(select[v].next) = Plain(file)
        /\ select[v].before = RestartSignature(ServerRuntime)
        /\ select[v].stops = (worker[v] # Off)
Follows(v) == select[v].at # "stop" /\ worker[v] # Off => worker[v] = ConfigHash(WorkerRuntime)
LoneFollows == Lone => \A v \in setting.servers : SelectsKnowing(v) /\ Follows(v)

ConfigInv == ConfigOK /\ OnlyThose /\ LoneFollows

LEMMA ConfigInit == IndexInit => ConfigInv
<1> SUFFICES ASSUME IndexInit PROVE ConfigInv
  OBVIOUS
<1> USE IndexAssumption
<1>1. ConfigOK
  BY DEF ConfigOK, IndexInit, NoCall
<1>2. OnlyThose
  BY DEF OnlyThose, IndexInit, NoCall
<1>3. LoneFollows
  BY DEF LoneFollows, Lone, SelectsKnowing, Follows, IndexInit, NoCall
<1> QED
  BY <1>1, <1>2, <1>3 DEF ConfigInv

\* Of a lone server there is no other.
LEMMA LoneServer ==
    ASSUME ConfigOK, Lone, NEW v \in setting.servers, NEW w \in setting.servers
    PROVE  v = w
<1>1. setting.servers \subseteq Server /\ IsFiniteSet(Server)
  BY IndexAssumption DEF ConfigOK
<1>2. IsFiniteSet(setting.servers)
  BY <1>1, FS_Subset
<1>3. \E x : setting.servers = {x}
  BY <1>2, FS_Singleton DEF Lone
<1> QED
  BY <1>3

\* What goes on beside the configuration.
configVars == <<setting, file, select, worker>>
LEMMA ConfigSteps ==
    ASSUME IndexNext
    PROVE  \/ UNCHANGED configVars
           \/ \E v \in Server, request \in Requests : Select(v, request)
           \/ \E v \in Server : WriteSelection(v) \/ StopWorker(v) \/ StartWorker(v)
           \/ Secrets \/ WriteSecrets
  BY DEF IndexNext, configVars, Step, Load, LoadFails, EmbedBatch, FallBack, EmbedFails, Kill, Start, Peek, Scan,
         Migrate, Outage, Edit, others

LEMMA ConfigStep == ConfigInv /\ [IndexNext]_indexVars => ConfigInv'
<1> SUFFICES ASSUME ConfigInv, [IndexNext]_indexVars PROVE ConfigInv'
  OBVIOUS
<1> USE IndexAssumption
<1> USE DEF ConfigInv
<1>0. setting.servers \subseteq Server
  BY DEF ConfigOK
<1>1. ASSUME NEW v \in Server, NEW request \in Requests, Select(v, request) PROVE ConfigInv'
  <2> DEFINE job == [at |-> "write", asked |-> request, next |-> StripPlaintextApiKeys(Selection(file, request)),
                     before |-> RestartSignature(ServerRuntime), stops |-> worker[v] # Off]
  <2>1. /\ select' = [select EXCEPT ![v] = job] /\ UNCHANGED <<setting, file, worker>>
        /\ v \in setting.servers /\ select[v].at = "idle"
    BY <1>1 DEF Select, Sets
  <2>2. ConfigFile(job.next) /\ Plain(job.next) = Plain(file)
    BY FilesKept DEF ConfigOK
  <2>3. job.at = "write" /\ job.before = RestartSignature(ServerRuntime) /\ job.stops = (worker[v] # Off)
    OBVIOUS
  <2> HIDE DEF job
  <2>4. select'[v] = job /\ \A w \in Server \cup {Script} : w # v => select'[w] = select[w]
    BY <2>1 DEF ConfigOK
  <2>5. ConfigOK'
    BY <2>1, <2>2, <2>4 DEF ConfigOK
  <2>6. OnlyThose'
    BY <2>1, <2>4 DEF OnlyThose
  <2>7. LoneFollows'
    BY <1>0, <2>1, <2>2, <2>3, <2>4 DEF LoneFollows, Lone, SelectsKnowing, Follows, ServerRuntime, WorkerRuntime
  <2> QED
    BY <2>5, <2>6, <2>7
<1>2. ASSUME NEW v \in Server, WriteSelection(v) PROVE ConfigInv'
  <2> DEFINE stop == select[v].stops /\ RestartSignature(ResolveEmbeddingRuntime(select[v].next, setting.env)) # select[v].before
             job == IF stop THEN [NoCall EXCEPT !.at = "stop"] ELSE NoCall
  <2>1. /\ select' = [select EXCEPT ![v] = job] /\ UNCHANGED <<setting, worker>>
        /\ file' = select[v].next /\ select[v].at = "write" /\ v \in setting.servers
    BY <1>2 DEF WriteSelection, Sets, others, OnlyThose
  <2>2. job.next = Template /\ job.at = (IF stop THEN "stop" ELSE "idle")
    BY DEF NoCall
  <2> HIDE DEF job
  <2>4. select'[v] = job /\ \A w \in Server \cup {Script} : w # v => select'[w] = select[w]
    BY <2>1 DEF ConfigOK
  <2>5. ConfigOK'
    BY <2>1, <2>2, <2>4 DEF ConfigOK
  <2>6. OnlyThose'
    BY <2>1, <2>2, <2>4 DEF OnlyThose
  <2>7. ASSUME Lone', NEW w \in setting'.servers PROVE SelectsKnowing(w)' /\ Follows(w)'
    <3>1. Lone /\ w = v
      BY <2>1, <2>7, LoneServer DEF Lone
    <3>2. SelectsKnowing(v) /\ Follows(v)
      BY <2>1, <3>1 DEF LoneFollows
    <3>3. SelectsKnowing(v)'
      BY <2>2, <2>4 DEF SelectsKnowing
    <3>4. ASSUME ~stop, worker[v] # Off PROVE worker[v] = ConfigHash(ResolveEmbeddingRuntimePy(select[v].next, setting.env))
      <4>1. /\ Plain(select[v].next) = Plain(file)
            /\ RestartSignature(ResolveEmbeddingRuntime(select[v].next, setting.env)) = RestartSignature(ResolveEmbeddingRuntime(file, setting.env))
        BY <2>1, <3>2, <3>4 DEF SelectsKnowing, ServerRuntime
      <4>2. ConfigHash(ResolveEmbeddingRuntimePy(select[v].next, setting.env)) = ConfigHash(ResolveEmbeddingRuntimePy(file, setting.env))
        <5>1. ConfigFile(select[v].next) /\ ConfigFile(file)
          BY DEF ConfigOK
        <5> QED
          BY <4>1, <5>1, SameInPython
      <4> QED
        BY <2>1, <3>2, <3>4, <4>2 DEF Follows, WorkerRuntime
    <3> HIDE DEF stop
    <3>5. Follows(v)'
      BY <2>1, <2>2, <2>4, <3>4 DEF Follows, WorkerRuntime
    <3> QED
      BY <3>1, <3>3, <3>5
  <2> QED
    BY <2>5, <2>6, <2>7 DEF LoneFollows
<1>3. ASSUME NEW v \in Server, StopWorker(v) PROVE ConfigInv'
  <2>1. /\ select' = [select EXCEPT ![v] = NoCall] /\ UNCHANGED <<setting, file>>
        /\ worker' = [worker EXCEPT ![v] = Off]
    BY <1>3 DEF StopWorker, Sets, others
  <2>2. NoCall.next = Template /\ NoCall.at = "idle"
    BY DEF NoCall
  <2>4. /\ select'[v] = NoCall /\ \A w \in Server \cup {Script} : w # v => select'[w] = select[w]
        /\ worker'[v] = Off /\ \A w \in Server : w # v => worker'[w] = worker[w]
    BY <2>1 DEF ConfigOK
  <2>5. ConfigOK'
    BY <2>1, <2>2, <2>4 DEF ConfigOK
  <2>6. OnlyThose'
    BY <2>1, <2>2, <2>4 DEF OnlyThose
  <2>7. LoneFollows'
    BY <1>0, <2>1, <2>2, <2>4 DEF LoneFollows, Lone, SelectsKnowing, Follows, ServerRuntime, WorkerRuntime
  <2> QED
    BY <2>5, <2>6, <2>7
<1>4. ASSUME NEW v \in Server, StartWorker(v) PROVE ConfigInv'
  <2>1. /\ UNCHANGED <<setting, file, select>> /\ select[v].at # "write"
        /\ worker' = [worker EXCEPT ![v] = ConfigHash(WorkerRuntime)]
    BY <1>4 DEF StartWorker, others
  <2>4. worker'[v] = ConfigHash(WorkerRuntime) /\ \A w \in Server : w # v => worker'[w] = worker[w]
    BY <2>1 DEF ConfigOK
  <2>5. ConfigOK'
    BY <2>1, <2>4 DEF ConfigOK
  <2>6. OnlyThose'
    BY <2>1, <2>4 DEF OnlyThose
  <2>7. LoneFollows'
    BY <1>0, <2>1, <2>4 DEF LoneFollows, Lone, SelectsKnowing, Follows, ServerRuntime, WorkerRuntime
  <2> QED
    BY <2>5, <2>6, <2>7
<1>5. ASSUME Secrets \/ WriteSecrets PROVE ConfigInv'
  <2>1. setting.migrates /\ UNCHANGED <<setting, worker>> /\ ConfigFile(file')
    <3>1. CASE Secrets
      BY <3>1 DEF Secrets, others, ConfigOK
    <3>2. CASE WriteSecrets
      BY <3>2 DEF WriteSecrets, others, OnlyThose, ConfigOK
    <3> QED
      BY <1>5, <3>1, <3>2
  <2>2. PICK job : select' = [select EXCEPT ![Script] = job] /\ ConfigFile(job.next)
    <3>1. CASE Secrets
      <4>1. select' = [select EXCEPT ![Script] = [NoCall EXCEPT !.at = "write", !.next = StripPlaintextApiKeys(MigrateValue(file))]]
        BY <3>1 DEF Secrets, Sets
      <4>2. [NoCall EXCEPT !.at = "write", !.next = StripPlaintextApiKeys(MigrateValue(file))].next = StripPlaintextApiKeys(MigrateValue(file))
        BY DEF NoCall
      <4> QED
        <5>1. ConfigFile(MigrateValue(file))
          BY FilesKept DEF ConfigOK
        <5>2. ConfigFile(StripPlaintextApiKeys(MigrateValue(file)))
          BY <5>1, FilesKept
        <5> QED
          BY <4>1, <4>2, <5>2
    <3>2. CASE WriteSecrets
      <4>1. select' = [select EXCEPT ![Script] = NoCall]
        BY <3>2 DEF WriteSecrets, Sets
      <4>2. ConfigFile(NoCall.next)
        BY DEF NoCall
      <4> QED
        BY <4>1, <4>2
    <3> QED
      BY <1>5, <3>1, <3>2
  <2>3. select'[Script] = job /\ \A w \in Server : select'[w] = select[w]
    BY <2>2 DEF ConfigOK
  <2>4. ConfigOK'
    BY <2>1, <2>2, <2>3 DEF ConfigOK
  <2>5. OnlyThose' /\ LoneFollows'
    BY <2>1, <2>3 DEF OnlyThose, LoneFollows, Lone
  <2> QED
    BY <2>4, <2>5
<1>6. ASSUME UNCHANGED configVars PROVE ConfigInv'
  BY <1>6 DEF configVars, ConfigOK, OnlyThose, LoneFollows, Lone, SelectsKnowing, Follows, ServerRuntime, WorkerRuntime
<1> QED
  BY <1>1, <1>2, <1>3, <1>4, <1>5, <1>6, ConfigSteps DEF indexVars, configVars

\* With one server and no migration of keys, a worker that runs has the
\* configuration of the file whenever no selection is under way.
THEOREM WorkersFollow == IndexSpec => []WorkerFollows
<1>1. ConfigInv => WorkerFollows
  BY DEF ConfigInv, LoneFollows, Lone, Follows, WorkerFollows
<1> QED
  BY <1>1, ConfigInit, ConfigStep, PTL DEF IndexSpec

\* An index that a server reports as aligned is one its workers search, for any
\* file that names known adapters.
THEOREM AlignedIsAccepted == IndexSpec => []AlignedIsSearchable
<1>1. ConfigInv => AlignedIsSearchable
  <2> SUFFICES ASSUME ConfigInv, AdaptersKnown(file, setting.env), IndexState(ServerRuntime, Hashes) = "aligned"
               PROVE  Hashes = {ConfigHash(WorkerRuntime)}
    BY DEF AlignedIsSearchable
  <2>1. Hashes = {ConfigHash(ServerRuntime)}
    BY DEF IndexState
  <2> QED
    BY <2>1, SameInBoth DEF ConfigInv, ConfigOK, ServerRuntime, WorkerRuntime
<1> QED
  BY <1>1, ConfigInit, ConfigStep, PTL DEF IndexSpec

----------------------------------------------------------------------------
(* the builds, *)

Docs == [Entry -> Text \cup {Nothing}]

\* Every entry has a text, and a vector made of it by the configuration it names,
\* which is never that of an adapter that is not there.
IndexOK(i) ==
    /\ DOMAIN i \subseteq Entry
    /\ \A e \in DOMAIN i : i[e].hash \in Text /\ i[e].vec = <<i[e].hash, i[e].cfg>> /\ i[e].cfg[1] # "huggingface"

\* What is pending is not there yet, and is pending once.
PendingOK(d, final, pending) ==
    /\ pending \in Seq(Entry)
    /\ \A i, j \in 1..Len(pending) : pending[i] = pending[j] => i = j
    /\ \A i \in 1..Len(pending) : d[pending[i]] # Nothing /\ pending[i] \notin DOMAIN final

BuildOK(b) ==
    /\ b = [at |-> b.at, force |-> b.force, runtime |-> b.runtime, docs |-> b.docs, final |-> b.final, pending |-> b.pending]
    /\ b.docs \in Docs /\ IndexOK(b.final) /\ PendingOK(b.docs, b.final, b.pending)

BuildsInv ==
    /\ setting \in Settings /\ docs \in Docs /\ IndexOK(index)
    /\ build = [b \in Builder |-> build[b]] /\ \A b \in Builder : BuildOK(build[b])

LEMMA HashIsThere == HashConfig[1] # "huggingface" /\ \A runtime : Made(runtime)[1] # "huggingface"
  BY DEF HashConfig, Made

LEMMA IdleOK == BuildOK(Idle)
<1>1. [e \in Entry |-> Nothing] \in Docs
  BY DEF Docs
<1>2. IndexOK(<<>>)
  BY DEF IndexOK
<1>3. <<>> \in Seq(Entry) /\ Len(<<>>) = 0
  BY EmptySeq
<1>4. PendingOK([e \in Entry |-> Nothing], <<>>, <<>>)
  BY <1>3 DEF PendingOK
<1> QED
  BY <1>1, <1>2, <1>4 DEF BuildOK, Idle

LEMMA AnswerFields ==
    ASSUME NEW a, NEW i, NEW v, a = [index |-> i, vec |-> v]
    PROVE  a.index = i /\ a.vec = v
  OBVIOUS

LEMMA BuildFields ==
    ASSUME NEW x, NEW a, NEW f, NEW r, NEW d, NEW o, NEW p, NEW u,
           x = [at |-> a, force |-> f, runtime |-> r, docs |-> d, final |-> o, pending |-> p]
    PROVE  /\ [x EXCEPT !.at = u] = [at |-> u, force |-> f, runtime |-> r, docs |-> d, final |-> o, pending |-> p]
           /\ [x EXCEPT !.final = u] = [at |-> a, force |-> f, runtime |-> r, docs |-> d, final |-> u, pending |-> p]
           /\ [x EXCEPT !.pending = u] = [at |-> a, force |-> f, runtime |-> r, docs |-> d, final |-> o, pending |-> u]
<1>1. [x EXCEPT !.at = u] = [at |-> u, force |-> f, runtime |-> r, docs |-> d, final |-> o, pending |-> p]
  OBVIOUS
<1>2. [x EXCEPT !.final = u] = [at |-> a, force |-> f, runtime |-> r, docs |-> d, final |-> u, pending |-> p]
  OBVIOUS
<1>3. [x EXCEPT !.pending = u] = [at |-> a, force |-> f, runtime |-> r, docs |-> d, final |-> o, pending |-> u]
  OBVIOUS
<1> QED
  BY <1>1, <1>2, <1>3

\* In whatever order an answer comes, each text gets its own vector.
LEMMA VectorsInOrder ==
    ASSUME NEW n \in Nat, NEW texts, DOMAIN texts = 1..n, NEW c, NEW answer \in Answer(c, texts)
    PROVE  \A i \in 1..n : Vectors(answer)[i] = <<texts[i], c>>
<1>1. PICK p \in [1..n -> 1..n] :
         /\ \A i, j \in 1..n : p[i] = p[j] => i = j
         /\ answer = [i \in 1..n |-> [index |-> p[i], vec |-> <<texts[p[i]], c>>]]
  BY DEF Answer
<1>2. p \in Surjection(1..n, 1..n)
  <2>1. p \in Injection(1..n, 1..n)
    BY <1>1 DEF Injection, IsInjective
  <2>2. IsFiniteSet(1..n) /\ Cardinality(1..n) = n
    BY FS_Interval
  <2> QED
    BY <2>1, <2>2, FS_Injection
<1>3. ASSUME NEW i \in 1..n PROVE Vectors(answer)[i] = <<texts[i], c>>
  <2>1. ToSet(answer) = {answer[k] : k \in 1..n}
    BY <1>1 DEF ToSet
  <2>2. PICK j \in 1..n : p[j] = i
    BY <1>2 DEF Surjection
  <2>3. answer[j] \in ToSet(answer) /\ answer[j].index = i
    BY <1>1, <2>1, <2>2
  <2>4. \A a \in ToSet(answer) : a.index = i => a.vec = <<texts[i], c>>
    <3>1. \A k \in 1..n : answer[k] = [index |-> p[k], vec |-> <<texts[p[k]], c>>]
      BY <1>1
    <3>3. ASSUME NEW k \in 1..n, answer[k].index = i PROVE answer[k].vec = <<texts[i], c>>
      <4>1. answer[k].index = p[k]
        BY <3>1, AnswerFields
      <4>2. p[k] = i
        BY <3>3, <4>1
      <4>3. answer[k] = [index |-> p[k], vec |-> <<texts[i], c>>]
        BY <3>1, <4>2
      <4> QED
        BY <4>3, AnswerFields
    <3> QED
      BY <2>1, <3>3
  <2>5. (CHOOSE a \in ToSet(answer) : a.index = i).vec = <<texts[i], c>>
    BY <2>3, <2>4
  <2>6. i \in DOMAIN answer
    BY <1>1
  <2> QED
    BY <2>5, <2>6 DEF Vectors
<1> QED
  BY <1>3

\* The batch is the head of what is pending.
LEMMA BatchIs ==
    ASSUME NEW b \in Builder, BuildOK(build[b])
    PROVE  LET pending == build[b].pending
               n == Len(pending)
               k == Len(Batch(b))
               rest == SubSeq(pending, k + 1, n)
           IN  /\ n \in Nat /\ k \in 0..n /\ DOMAIN Batch(b) = 1..k /\ (n # 0 => k # 0)
               /\ \A i \in 1..k : Batch(b)[i] = pending[i]
               /\ rest \in Seq(Entry) /\ Len(rest) = n - k
               /\ \A i \in 1..(n - k) : rest[i] = pending[k + i]
<1> DEFINE pending == build[b].pending
           n == Len(pending)
           m == IF n < BatchSize THEN n ELSE BatchSize
<1>1. pending \in Seq(Entry) /\ n \in Nat
  BY DEF BuildOK, PendingOK
<1>2. m \in 0..n /\ (n # 0 => m # 0)
  BY <1>1, IndexAssumption
<1>3. Batch(b) = SubSeq(pending, 1, m)
  BY DEF Batch
<1> HIDE DEF pending, n, m
<1>4. n = Len(pending)
  BY DEF n
<1>5. Len(Batch(b)) = m /\ DOMAIN Batch(b) = 1..m /\ \A i \in 1..m : Batch(b)[i] = pending[i]
  BY <1>1, <1>2, <1>3, <1>4
<1>6. LET rest == SubSeq(pending, m + 1, n)
      IN  /\ rest \in Seq(Entry) /\ Len(rest) = n - m
          /\ \A i \in 1..(n - m) : rest[i] = pending[m + i]
  BY <1>1, <1>2, <1>4
<1> QED
  BY <1>1, <1>2, <1>5, <1>6 DEF pending, n

\* What is made of a batch.
MadeOf(b, c, new) ==
    /\ IndexOK(new) /\ DOMAIN new = {Batch(b)[i] : i \in DOMAIN Batch(b)}
    /\ \A e \in DOMAIN new : new[e].hash = build[b].docs[e] /\ new[e].cfg = c

LEMMA EmbeddedIs ==
    ASSUME NEW b \in Builder, BuildOK(build[b]), NEW c, c[1] # "huggingface",
           NEW answer \in Answer(c, BatchTexts(b))
    PROVE  MadeOf(b, c, Embedded(b, c, answer))
<1> DEFINE part == Batch(b)
           k == Len(part)
           d == build[b].docs
           texts == [i \in DOMAIN part |-> d[part[i]]]
           vectors == Vectors(answer)
           at(e) == CHOOSE i \in DOMAIN part : part[i] = e
           new == [e \in ToSet(part) |-> [hash |-> d[e], cfg |-> c, vec |-> vectors[at(e)]]]
<1>1. Embedded(b, c, answer) = new
  BY DEF Embedded
<1>2. k \in Nat /\ DOMAIN part = 1..k /\ \A i \in 1..k : part[i] \in Entry /\ d[part[i]] \in Text
  <2>1. k \in Nat /\ DOMAIN part = 1..k /\ \A i \in 1..k : part[i] = build[b].pending[i] /\ i \in 1..Len(build[b].pending)
    BY BatchIs
  <2>2. d \in Docs /\ \A i \in 1..Len(build[b].pending) : build[b].pending[i] \in Entry /\ d[build[b].pending[i]] # Nothing
    BY DEF BuildOK, PendingOK
  <2> HIDE DEF part, k, d
  <2> QED
    BY <2>1, <2>2 DEF Docs
<1>3. \A i \in 1..k : vectors[i] = <<d[part[i]], c>>
  <2>1. DOMAIN texts = 1..k /\ \A i \in 1..k : texts[i] = d[part[i]]
    BY <1>2
  <2>2. answer \in Answer(c, texts)
    BY DEF BatchTexts
  <2> HIDE DEF texts, vectors, k, d, part
  <2>3. \A i \in 1..k : Vectors(answer)[i] = <<texts[i], c>>
    BY <1>2, <2>1, <2>2, VectorsInOrder
  <2> QED
    BY <2>1, <2>3 DEF vectors
<1> HIDE DEF k, vectors, d, part
<1>4. ToSet(part) = {part[i] : i \in 1..k}
  BY <1>2 DEF ToSet
<1>5. \A e \in ToSet(part) : at(e) \in 1..k /\ part[at(e)] = e
  BY <1>2, <1>4
<1>6. \A e \in ToSet(part) : d[e] \in Text /\ e \in Entry /\ vectors[at(e)] = <<d[e], c>>
  BY <1>2, <1>3, <1>4, <1>5
<1> HIDE DEF at
<1>7. IndexOK(new)
  BY <1>6 DEF IndexOK
<1> QED
  BY <1>1, <1>2, <1>4, <1>7 DEF d, part, MadeOf

\* The same for an answer that is there at once.
LEMMA AnswerInOrder ==
    ASSUME NEW n \in Nat, NEW texts, DOMAIN texts = 1..n, NEW c
    PROVE  [i \in DOMAIN texts |-> [index |-> i, vec |-> <<texts[i], c>>]] \in Answer(c, texts)
<1> DEFINE p == [i \in 1..n |-> i]
<1>1. p \in [1..n -> 1..n] /\ \A i, j \in 1..n : p[i] = p[j] => i = j
  OBVIOUS
<1>2. [i \in DOMAIN texts |-> [index |-> i, vec |-> <<texts[i], c>>]] =
      [i \in DOMAIN texts |-> [index |-> p[i], vec |-> <<texts[p[i]], c>>]]
  OBVIOUS
<1> DEFINE Q == {q \in [DOMAIN texts -> DOMAIN texts] : \A i, j \in DOMAIN texts : q[i] = q[j] => i = j}
           made(q) == [i \in DOMAIN texts |-> [index |-> q[i], vec |-> <<texts[q[i]], c>>]]
<1>3. p \in Q
  BY <1>1
<1>4. Answer(c, texts) = {made(q) : q \in Q}
  BY DEF Answer
<1>5. [i \in DOMAIN texts |-> [index |-> i, vec |-> <<texts[i], c>>]] = made(p)
  BY <1>2
<1> HIDE DEF p, Q, made
<1> QED
  BY <1>3, <1>4, <1>5

\* Every batch that is written was made by the configuration of the build, or
\* by hashing after a fall.
Batches(b, c) ==
    \E answer \in Answer(c, BatchTexts(b)) : Write(b, Embedded(b, c, answer))

LEMMA FallBackIs ==
    ASSUME NEW b \in Builder, BuildOK(build[b]), FallBack(b)
    PROVE  Batches(b, HashConfig)
<1> DEFINE texts == BatchTexts(b)
           answer == [i \in DOMAIN texts |-> [index |-> i, vec |-> <<texts[i], HashConfig>>]]
<1>1. DOMAIN texts = 1..Len(Batch(b)) /\ Len(Batch(b)) \in Nat
  BY BatchIs DEF BatchTexts
<1>2. Write(b, Embedded(b, HashConfig, answer))
  BY DEF FallBack
<1>3. answer \in Answer(HashConfig, texts)
  <2> HIDE DEF texts
  <2> QED
    BY <1>1, AnswerInOrder
<1> QED
  BY <1>2, <1>3 DEF Batches

\* What a write leaves.
Written(b, c, new, job) ==
    LET final == Snapshot(build[b].final, new)
    IN  /\ DOMAIN new = {Batch(b)[i] : i \in DOMAIN Batch(b)}
        /\ \A e \in DOMAIN new : new[e].hash = build[b].docs[e] /\ new[e].cfg = c
        /\ \A e \in DOMAIN new : e \in {build[b].pending[i] : i \in 1..Len(build[b].pending)}
        /\ IndexOK(final) /\ Replace(b, final)
        /\ DOMAIN final = DOMAIN build[b].final \cup DOMAIN new
        /\ \A e \in DOMAIN final : final[e] = IF e \in DOMAIN new THEN new[e] ELSE build[b].final[e]
        /\ build' = [build EXCEPT ![b] = job] /\ BuildOK(job)
        /\ \/ job = Idle
           \/ /\ job.final = final /\ job.at = build[b].at /\ job.docs = build[b].docs
              /\ job.force = build[b].force /\ job.runtime = build[b].runtime

LEMMA WriteIs ==
    ASSUME BuildsInv, NEW b \in Builder, NEW c, c[1] # "huggingface", Batches(b, c)
    PROVE  \E new, job : Written(b, c, new, job)
<1>1. PICK answer \in Answer(c, BatchTexts(b)) : Write(b, Embedded(b, c, answer))
  BY DEF Batches
<1> DEFINE new == Embedded(b, c, answer)
           old == build[b].final
           final == Snapshot(old, new)
           pending == build[b].pending
           n == Len(pending)
           k == Len(Batch(b))
           rest == SubSeq(pending, k + 1, n)
           job == IF rest = <<>> THEN Idle ELSE [build[b] EXCEPT !.final = final, !.pending = rest]
<1>2. BuildOK(build[b])
  BY DEF BuildsInv
<1>3. /\ IndexOK(new) /\ DOMAIN new = {Batch(b)[i] : i \in DOMAIN Batch(b)}
      /\ \A e \in DOMAIN new : new[e].hash = build[b].docs[e] /\ new[e].cfg = c
  <2>1. MadeOf(b, c, Embedded(b, c, answer))
    BY <1>1, <1>2, EmbeddedIs
  <2> QED
    BY <2>1 DEF MadeOf
<1>4. /\ DOMAIN final = DOMAIN old \cup DOMAIN new
      /\ \A e \in DOMAIN final : final[e] = IF e \in DOMAIN new THEN new[e] ELSE old[e]
  BY DEF Snapshot
<1>5. Replace(b, final) /\ build' = [build EXCEPT ![b] = job]
  BY <1>1 DEF Write
<1>6. IndexOK(old) /\ PendingOK(build[b].docs, old, pending)
  BY <1>2 DEF BuildOK
<1>7. /\ n \in Nat /\ k \in 0..n /\ DOMAIN Batch(b) = 1..k /\ \A i \in 1..k : Batch(b)[i] = pending[i]
      /\ rest \in Seq(Entry) /\ Len(rest) = n - k /\ \A i \in 1..(n - k) : rest[i] = pending[k + i]
  BY <1>2, BatchIs
<1> HIDE DEF new, old, final, pending, n, rest, k
<1>8. IndexOK(final)
  BY <1>3, <1>4, <1>6 DEF IndexOK
<1>9. PendingOK(build[b].docs, final, rest)
  <2>1. DOMAIN new = {pending[i] : i \in 1..k}
    BY <1>3, <1>7
  <2>2. \A i \in 1..(n - k) : k + i \in 1..n /\ k + i \notin 1..k
    BY <1>7
  <2>3. /\ pending \in Seq(Entry) /\ \A i, j \in 1..n : pending[i] = pending[j] => i = j
        /\ \A i \in 1..n : build[b].docs[pending[i]] # Nothing /\ pending[i] \notin DOMAIN old
    BY <1>6 DEF PendingOK, n
  <2>4. \A i \in 1..(n - k) : rest[i] \notin DOMAIN new
    <3> SUFFICES ASSUME NEW i \in 1..(n - k), NEW j \in 1..k, pending[k + i] = pending[j] PROVE FALSE
      BY <1>7, <2>1
    <3>1. k + i = j
      BY <1>7, <2>2, <2>3
    <3> QED
      BY <1>7, <3>1
  <2>5. \A i, j \in 1..(n - k) : rest[i] = rest[j] => i = j
    <3> SUFFICES ASSUME NEW i \in 1..(n - k), NEW j \in 1..(n - k), pending[k + i] = pending[k + j] PROVE i = j
      BY <1>7
    <3>1. k + i = k + j
      BY <2>2, <2>3
    <3> QED
      BY <1>7, <3>1
  <2>6. \A i \in 1..(n - k) : build[b].docs[rest[i]] # Nothing /\ rest[i] \notin DOMAIN final
    <3> SUFFICES ASSUME NEW i \in 1..(n - k) PROVE build[b].docs[rest[i]] # Nothing /\ rest[i] \notin DOMAIN final
      OBVIOUS
    <3>1. rest[i] = pending[k + i] /\ k + i \in 1..n
      BY <1>7, <2>2
    <3>2. build[b].docs[rest[i]] # Nothing /\ rest[i] \notin DOMAIN old
      BY <2>3, <3>1
    <3> QED
      BY <1>4, <2>4, <3>2
  <2> QED
    BY <1>7, <2>5, <2>6 DEF PendingOK
<1>10. /\ BuildOK(job)
       /\ \/ job = Idle
          \/ /\ job.final = final /\ job.at = build[b].at /\ job.docs = build[b].docs
             /\ job.force = build[b].force /\ job.runtime = build[b].runtime
  <2>1. CASE rest = <<>>
    BY <2>1, IdleOK
  <2>2. CASE rest # <<>>
    <3>1. PICK a, f, r, d, o, p : build[b] = [at |-> a, force |-> f, runtime |-> r, docs |-> d, final |-> o, pending |-> p]
      BY <1>2 DEF BuildOK
    <3>0. job = [build[b] EXCEPT !.final = final, !.pending = rest]
      BY <2>2
    <3> HIDE DEF job
    <3> DEFINE half == [build[b] EXCEPT !.final = final]
    <3>a. half = [at |-> a, force |-> f, runtime |-> r, docs |-> d, final |-> final, pending |-> p]
      BY <3>1, BuildFields
    <3>b. job = [half EXCEPT !.pending = rest]
      BY <3>0
    <3> HIDE DEF half
    <3>2. job = [at |-> a, force |-> f, runtime |-> r, docs |-> d, final |-> final, pending |-> rest]
      BY <3>a, <3>b, BuildFields
    <3>3. d \in Docs /\ PendingOK(d, final, rest)
      BY <1>2, <1>9, <3>1 DEF BuildOK
    <3> HIDE DEF job
    <3> QED
      BY <1>8, <3>1, <3>2, <3>3 DEF BuildOK
  <2> QED
    BY <2>1, <2>2
<1>11. \A e \in DOMAIN new : e \in {pending[i] : i \in 1..n}
  BY <1>3, <1>7
<1> HIDE DEF job
<1>12. Written(b, c, new, job)
  BY <1>3, <1>4, <1>5, <1>8, <1>10, <1>11 DEF final, old, pending, n, Written
<1> QED
  BY <1>12

\* Of what a build begins with: what it keeps, and what is left to do.
LEMMA PlanIs ==
    ASSUME NEW P \in SUBSET Entry
    PROVE  LET rest == Filter([e \in Entry |-> e], LAMBDA e : e \in P)
           IN  /\ rest \in Seq(Entry) /\ \A i \in 1..Len(rest) : rest[i] \in P
               /\ \A i, j \in 1..Len(rest) : rest[i] = rest[j] => i = j
<1> DEFINE s == [e \in Entry |-> e]
           rest == Subsequence(s, P)
           m == Cardinality(P)
<1>1. Filter(s, LAMBDA e : e \in P) = rest
  <2>1. {i \in DOMAIN s : s[i] \in P} = P
    OBVIOUS
  <2> QED
    BY <2>1 DEF Filter
<1>2. Entries \in Nat /\ P \in SUBSET (1..Entries)
  BY IndexAssumption DEF Entry
<1>3. rest \in Seq(Entry) /\ Len(rest) = m
  <2>1. \A i \in P : s[i] \in Entry
    OBVIOUS
  <2> HIDE DEF s
  <2> QED
    BY <1>2, <2>1, SubsequenceTyped
<1>4. m \in Nat /\ \A k \in 1..m : Place(P, k) \in P /\ Cardinality({j \in P : j <= Place(P, k)}) = k
  BY <1>2, SubsequencePlaces
<1>5. \A k \in 1..m : rest[k] = Place(P, k)
  BY <1>4 DEF Subsequence
<1> HIDE DEF rest, m, s
<1>6. \A i, j \in 1..m : rest[i] = rest[j] => i = j
  <2> SUFFICES ASSUME NEW i \in 1..m, NEW j \in 1..m, Place(P, i) = Place(P, j) PROVE i = j
    BY <1>5
  <2> QED
    BY <1>4
<1>7. \A k \in 1..m : rest[k] \in P
  BY <1>4, <1>5
<1> QED
  BY <1>1, <1>3, <1>6, <1>7 DEF s

\* A load ends the build, or leaves it all it has kept and the rest to do.
Kept(b) == {e \in Present(b) : Reusable(b, e)}
LEMMA LoadIs ==
    ASSUME BuildsInv, NEW b \in Builder, Load(b)
    PROVE  LET final == [e \in Kept(b) |-> index[e]]
           IN  /\ IndexOK(final)
               /\ \/ build' = [build EXCEPT ![b] = Idle] /\ Replace(b, final)
                  \/ UNCHANGED <<index, alone, query>> /\
                     \E job : /\ build' = [build EXCEPT ![b] = job] /\ BuildOK(job)
                              /\ job.at = "embed" /\ job.final = final /\ job.docs = build[b].docs
                              /\ job.force = build[b].force /\ job.runtime = build[b].runtime
<1> DEFINE final == [e \in Kept(b) |-> index[e]]
           P == Present(b) \ Kept(b)
           rest == Filter([e \in Entry |-> e], LAMBDA e : e \in P)
           job == [build[b] EXCEPT !.at = "embed", !.final = final, !.pending = rest]
<1>0. b \in DOMAIN build /\ BuildOK(build[b])
  BY DEF BuildsInv
<1>1. Kept(b) \subseteq Present(b) /\ Kept(b) \subseteq DOMAIN index /\ Present(b) \subseteq Entry
      /\ \A e \in Present(b) : build[b].docs[e] # Nothing
  BY DEF Kept, Present, Reusable
<1>2. IndexOK(final)
  BY <1>1 DEF BuildsInv, IndexOK
<1>3. \/ build' = [build EXCEPT ![b] = Idle] /\ Replace(b, final)
      \/ build' = [build EXCEPT ![b] = job] /\ UNCHANGED <<index, alone, query>>
  BY DEF Load, Kept, Stop
<1>4. /\ rest \in Seq(Entry) /\ \A i \in 1..Len(rest) : rest[i] \in P
      /\ \A i, j \in 1..Len(rest) : rest[i] = rest[j] => i = j
  <2>1. P \in SUBSET Entry
    BY <1>1
  <2> HIDE DEF P
  <2> QED
    BY <2>1, PlanIs
<1> HIDE DEF rest
<1>5. PendingOK(build[b].docs, final, rest)
  BY <1>1, <1>4 DEF PendingOK
<1>6. PICK a, f, r, d, o, p : build[b] = [at |-> a, force |-> f, runtime |-> r, docs |-> d, final |-> o, pending |-> p]
  BY <1>0 DEF BuildOK
<1> HIDE DEF final
<1>7. job = [at |-> "embed", force |-> f, runtime |-> r, docs |-> d, final |-> final, pending |-> rest]
  <2> DEFINE x == [build[b] EXCEPT !.at = "embed"]
             y == [x EXCEPT !.final = final]
  <2>1. job = [y EXCEPT !.pending = rest]
    OBVIOUS
  <2>2. x = [at |-> "embed", force |-> f, runtime |-> r, docs |-> d, final |-> o, pending |-> p]
    BY <1>6, BuildFields
  <2> HIDE DEF x
  <2>3. y = [at |-> "embed", force |-> f, runtime |-> r, docs |-> d, final |-> final, pending |-> p]
    BY <2>2, BuildFields
  <2> HIDE DEF y
  <2> HIDE DEF job
  <2> QED
    BY <2>1, <2>3, BuildFields
<1>8. d = build[b].docs /\ f = build[b].force /\ r = build[b].runtime /\ d \in Docs
  BY <1>0, <1>6 DEF BuildOK
<1> HIDE DEF job
<1>9. /\ BuildOK(job) /\ job.at = "embed" /\ job.final = final /\ job.docs = build[b].docs
      /\ job.force = build[b].force /\ job.runtime = build[b].runtime
  BY <1>2, <1>5, <1>7, <1>8 DEF BuildOK
<1> QED
  BY <1>2, <1>3, <1>9 DEF final

\* How the index and the builds change.
Ends(b) ==
    build' = [build EXCEPT ![b] = Idle] /\ alone' = [alone EXCEPT ![b] = FALSE]
Begins(b) ==
    \E force : /\ build[b].at = "idle"
              /\ build' = [build EXCEPT ![b] =
                    [at |-> IF archived THEN "doomed" ELSE "load", force |-> force,
                     runtime |-> [cfg |-> ConfigHash(BuildRuntime), lenient |-> BuildRuntime.lenient = "yes",
                                  key |-> HasKey(BuildRuntime, setting.env, Exported)],
                     docs |-> docs, final |-> <<>>, pending |-> <<>>]]
              /\ alone' = [alone EXCEPT ![b] = \A c \in Builder : ~Running(c)]
searches == <<worker, query>>
NobodyAlone == alone' = [b \in Builder |-> FALSE]

LEMMA BuildSteps ==
    ASSUME BuildsInv, IndexNext
    PROVE  /\ UNCHANGED setting
           /\ \/ \E b \in Builder : Load(b)
              \/ \E b \in Builder : /\ build[b].at = "embed" /\ UNCHANGED <<setting, file, worker, docs, fell>>
                                   /\ Batches(b, Made(build[b].runtime))
              \/ \E b \in Builder : /\ build[b].at = "embed" /\ UNCHANGED <<setting, file, worker, docs>> /\ fell'
                                   /\ Batches(b, HashConfig)
              \/ \E b \in Builder : Ends(b) /\ UNCHANGED <<searches, index, fell, docs, file>>
              \/ \E b \in Builder : Begins(b) /\ UNCHANGED <<searches, index, fell, docs, file>>
              \/ NobodyAlone /\ UNCHANGED <<searches, index, build, fell>> /\ docs' \in Docs
              \/ UNCHANGED <<index, build, alone, docs, fell, file>> /\
                    \/ UNCHANGED searches
                    \/ \E v \in Server : StopWorker(v) \/ StartWorker(v) \/ Peek(v) \/ Scan(v)
<1>1. ASSUME NEW b \in Builder, FallBack(b)
      PROVE  build[b].at = "embed" /\ UNCHANGED <<setting, file, worker, docs>> /\ fell' /\ Batches(b, HashConfig)
  <2>1. BuildOK(build[b])
    BY DEF BuildsInv
  <2> QED
    BY <1>1, <2>1, FallBackIs DEF FallBack, others
<1>2. ASSUME NEW b \in Builder, EmbedBatch(b)
      PROVE  build[b].at = "embed" /\ UNCHANGED <<setting, file, worker, docs, fell>> /\ Batches(b, Made(build[b].runtime))
  BY <1>2 DEF EmbedBatch, Batches, others
<1>3. ASSUME NEW b \in Builder, LoadFails(b) \/ EmbedFails(b) \/ Kill(b)
      PROVE  Ends(b) /\ UNCHANGED <<setting, searches, index, fell, docs, file>>
  BY <1>3 DEF LoadFails, EmbedFails, Kill, Ends, Stop, others, searches
<1>4. ASSUME NEW b \in Builder, NEW force, Start(b, force)
      PROVE  Begins(b) /\ UNCHANGED <<setting, searches, index, fell, docs, file>>
  BY <1>4 DEF Start, Begins, Running, others, searches
<1>5. ASSUME \/ WriteSecrets \/ Migrate \/ \E v \in Server : WriteSelection(v)
             \/ \E e \in Entry, t \in Text \cup {Nothing} : Edit(e, t)
      PROVE  NobodyAlone /\ UNCHANGED <<setting, searches, index, build, fell>> /\ docs' \in Docs
  BY <1>5 DEF WriteSecrets, Migrate, WriteSelection, Edit, NobodyAlone, searches, others, BuildsInv, Docs
<1>6. ASSUME \/ Secrets \/ Outage \/ \E v \in Server, request \in Requests : Select(v, request)
      PROVE  UNCHANGED <<setting, index, build, alone, docs, fell, file>> /\ UNCHANGED searches
  BY <1>6 DEF Secrets, Outage, Select, searches, others
<1>7. ASSUME NEW v \in Server, StopWorker(v) \/ StartWorker(v) \/ Peek(v) \/ Scan(v)
      PROVE  UNCHANGED <<setting, index, build, alone, docs, fell, file>>
  BY <1>7 DEF StopWorker, StartWorker, Peek, Scan, others
<1>8. \A b \in Builder : Load(b) => UNCHANGED setting
  BY DEF Load
<1>9. \/ \E b \in Builder : Load(b) \/ EmbedBatch(b) \/ FallBack(b) \/ (LoadFails(b) \/ EmbedFails(b) \/ Kill(b))
      \/ \E b \in Builder, force \in BOOLEAN : Start(b, force)
      \/ \/ WriteSecrets \/ Migrate \/ \E v \in Server : WriteSelection(v)
         \/ \E e \in Entry, t \in Text \cup {Nothing} : Edit(e, t)
      \/ \/ Secrets \/ Outage \/ \E v \in Server, request \in Requests : Select(v, request)
      \/ \E v \in Server : StopWorker(v) \/ StartWorker(v) \/ Peek(v) \/ Scan(v)
  BY DEF IndexNext, Step
<1> QED
  BY <1>1, <1>2, <1>3, <1>4, <1>5, <1>6, <1>7, <1>8, <1>9

LEMMA BuildsInit == IndexInit => BuildsInv
<1> SUFFICES ASSUME IndexInit PROVE BuildsInv
  OBVIOUS
<1>1. setting \in Settings /\ docs \in Docs
  BY IndexAssumption DEF IndexInit, Docs
<1>2. IndexOK(index)
  BY DEF IndexInit, IndexOK
<1>3. build = [b \in Builder |-> build[b]] /\ \A b \in Builder : BuildOK(build[b])
  BY IdleOK DEF IndexInit
<1> QED
  BY <1>1, <1>2, <1>3 DEF BuildsInv

LEMMA OneBuild ==
    ASSUME BuildsInv, NEW b \in Builder, NEW job, BuildOK(job), build' = [build EXCEPT ![b] = job]
    PROVE  /\ build'[b] = job /\ \A c \in Builder : c # b => build'[c] = build[c]
           /\ build' = [c \in Builder |-> build'[c]] /\ \A c \in Builder : BuildOK(build'[c])
  BY DEF BuildsInv

LEMMA StartOK ==
    ASSUME BuildsInv, NEW b \in Builder, Begins(b)
    PROVE  \E job : /\ build' = [build EXCEPT ![b] = job] /\ BuildOK(job) /\ job.at \in {"doomed", "load"}
                   /\ job.docs = docs /\ job.runtime.cfg = ConfigHash(BuildRuntime)
<1>1. PICK force : build' = [build EXCEPT ![b] =
                    [at |-> IF archived THEN "doomed" ELSE "load", force |-> force,
                     runtime |-> [cfg |-> ConfigHash(BuildRuntime), lenient |-> BuildRuntime.lenient = "yes",
                                  key |-> HasKey(BuildRuntime, setting.env, Exported)],
                     docs |-> docs, final |-> <<>>, pending |-> <<>>]]
  BY DEF Begins
<1> DEFINE job == [at |-> IF archived THEN "doomed" ELSE "load", force |-> force,
                   runtime |-> [cfg |-> ConfigHash(BuildRuntime), lenient |-> BuildRuntime.lenient = "yes",
                                key |-> HasKey(BuildRuntime, setting.env, Exported)],
                   docs |-> docs, final |-> <<>>, pending |-> <<>>]
<1>2. build' = [build EXCEPT ![b] = job]
  BY <1>1
<1>3. IndexOK(<<>>) /\ PendingOK(docs, <<>>, <<>>)
  <2>1. <<>> \in Seq(Entry) /\ Len(<<>>) = 0
    BY EmptySeq
  <2> QED
    BY <2>1 DEF IndexOK, PendingOK
<1>4. BuildOK(job)
  BY <1>3 DEF BuildOK, BuildsInv
<1>5. job.at \in {"doomed", "load"} /\ job.docs = docs /\ job.runtime.cfg = ConfigHash(BuildRuntime)
  OBVIOUS
<1> HIDE DEF job
<1> QED
  BY <1>2, <1>4, <1>5

LEMMA BuildsStep == BuildsInv /\ [IndexNext]_indexVars => BuildsInv'
<1> SUFFICES ASSUME BuildsInv, [IndexNext]_indexVars PROVE BuildsInv'
  OBVIOUS
<1>1. CASE UNCHANGED indexVars
  BY <1>1 DEF indexVars, BuildsInv
<1>2. ASSUME IndexNext PROVE BuildsInv'
  <2>0. setting' \in Settings
    BY <1>2, BuildSteps DEF BuildsInv
  <2>1. ASSUME NEW b \in Builder, Load(b) PROVE BuildsInv'
    <3>1. PICK job : build' = [build EXCEPT ![b] = job] /\ BuildOK(job)
      BY <2>1, LoadIs, IdleOK
    <3>2. IndexOK(index')
      BY <2>1, LoadIs DEF Replace, BuildsInv
    <3>3. docs' \in Docs
      BY <2>1 DEF Load, others, BuildsInv
    <3> QED
      BY <2>0, <3>1, <3>2, <3>3, OneBuild DEF BuildsInv
  <2>2. ASSUME NEW b \in Builder, UNCHANGED docs, NEW c, c[1] # "huggingface", Batches(b, c) PROVE BuildsInv'
    <3>1. /\ IndexOK(index')
          /\ \E job : build' = [build EXCEPT ![b] = job] /\ BuildOK(job)
      <4>1. PICK new, job : Written(b, c, new, job)
        BY <2>2, WriteIs
      <4> QED
        BY <4>1 DEF Written, Replace
    <3> QED
      BY <2>0, <2>2, <3>1, OneBuild DEF BuildsInv
  <2>3. ASSUME NEW b \in Builder, Ends(b), UNCHANGED <<index, docs>> PROVE BuildsInv'
    BY <2>0, <2>3, IdleOK, OneBuild DEF Ends, BuildsInv
  <2>4. ASSUME NEW b \in Builder, Begins(b), UNCHANGED <<index, docs>> PROVE BuildsInv'
    BY <2>0, <2>4, StartOK, OneBuild DEF BuildsInv
  <2>5. ASSUME UNCHANGED <<index, build>>, docs' \in Docs PROVE BuildsInv'
    BY <2>0, <2>5 DEF BuildsInv
  <2> QED
    BY <1>2, <2>1, <2>2, <2>3, <2>4, <2>5, BuildSteps, HashIsThere DEF BuildsInv
<1> QED
  BY <1>1, <1>2

\* Whatever is reused, an entry has the vector of its own text and configuration,
\* in whatever order the provider answers.
THEOREM VectorsAreTheirs == IndexSpec => []VectorsMatch
<1>1. BuildsInv => VectorsMatch
  BY DEF BuildsInv, IndexOK, VectorsMatch
<1> QED
  BY <1>1, BuildsInit, BuildsStep, PTL DEF IndexSpec

----------------------------------------------------------------------------
(* what a search compares, *)

SameAs(i, c) == \A e \in DOMAIN i : i[e].cfg = c

\* Until a batch falls back to hashing, the entries of the index are all of one
\* configuration, and so are those each build has, of its own.
Uniform ==
    /\ \E c : SameAs(index, c)
    /\ \A b \in Builder : build[b].at = "embed" => SameAs(build[b].final, Made(build[b].runtime))
    /\ \A v \in Server : query[v] = "same" => SameAs(index, worker[v])

SearchInv ==
    /\ worker = [v \in Server |-> worker[v]] /\ query = [v \in Server |-> query[v]]
    /\ \A v \in Server : query[v] # "none" => worker[v] # Off
    /\ fell \/ Uniform

\* There is a first entry where there is any.
LEMMA FirstIs ==
    ASSUME BuildsInv, DOMAIN index # {}
    PROVE  First \in DOMAIN index
<1>1. DOMAIN index \subseteq 1..Entries /\ Entries \in Nat
  BY IndexAssumption DEF BuildsInv, IndexOK, Entry
<1>2. \E e \in DOMAIN index : \A f \in DOMAIN index : e <= f
  <2> DEFINE P == DOMAIN index
             e == Place(P, 1)
  <2>1. /\ Cardinality(P) \in Nat /\ IsFiniteSet(P)
        /\ 1 \in 1..Cardinality(P) => e \in P /\ Cardinality({j \in P : j <= e}) = 1
    BY <1>1, SubsequencePlaces
  <2>2. Cardinality(P) # 0
    BY <2>1, FS_EmptySet
  <2>3. e \in P /\ Cardinality({j \in P : j <= e}) = 1
    BY <2>1, <2>2
  <2> HIDE DEF e
  <2>4. IsFiniteSet({j \in P : j <= e})
    BY <2>1, FS_Subset
  <2>5. PICK x : {j \in P : j <= e} = {x}
    BY <2>3, <2>4, FS_Singleton
  <2>6. \A f \in P : f <= e => f = e
    BY <1>1, <2>3, <2>5
  <2> QED
    BY <1>1, <2>3, <2>6
<1> QED
  BY <1>2 DEF First

LEMMA SearchInit == IndexInit => SearchInv
  BY DEF IndexInit, SearchInv, Uniform, SameAs, Idle

LEMMA SearchStep == BuildsInv /\ SearchInv /\ [IndexNext]_indexVars => SearchInv'
<1> SUFFICES ASSUME BuildsInv, SearchInv, [IndexNext]_indexVars PROVE SearchInv'
  OBVIOUS
<1>1. CASE UNCHANGED indexVars
  BY <1>1 DEF indexVars, SearchInv, Uniform, SameAs
<1>r. ASSUME NEW b \in Builder, NEW i, Replace(b, i), UNCHANGED worker
      PROVE  /\ worker' = [v \in Server |-> worker'[v]] /\ query' = [v \in Server |-> query'[v]]
             /\ \A v \in Server : query'[v] # "none" => worker'[v] # Off
             /\ index' = i /\ \A v \in Server : query'[v] # "same"
  BY <1>r DEF Replace, SearchInv
<1>2. ASSUME NEW b \in Builder, Load(b) PROVE SearchInv'
  <2> DEFINE final == [e \in Kept(b) |-> index[e]]
  <2>1. UNCHANGED <<worker, fell>>
    BY <1>2 DEF Load
  <2>2. SameAs(final, Made(build[b].runtime))
    <3>1. \A e \in Kept(b) : index[e].cfg = build[b].runtime.cfg /\ e \in DOMAIN index
      BY DEF Kept, Reusable
    <3>2. \A e \in DOMAIN index : index[e].cfg[1] # "huggingface"
      BY DEF BuildsInv, IndexOK
    <3> QED
      BY <3>1, <3>2 DEF SameAs, Made
  <2>3. CASE build' = [build EXCEPT ![b] = Idle] /\ Replace(b, final)
    <3>1. build'[b].at # "embed" /\ \A c \in Builder : c # b => build'[c] = build[c]
      BY <2>3 DEF BuildsInv, Idle
    <3> HIDE DEF final
    <3> QED
      BY <1>r, <2>1, <2>2, <2>3, <3>1 DEF SearchInv, Uniform
  <2>4. ASSUME NEW job, UNCHANGED <<index, alone, query>>, build' = [build EXCEPT ![b] = job],
               job.final = final, job.runtime = build[b].runtime
        PROVE  SearchInv'
    <3>1. build'[b] = job /\ \A c \in Builder : c # b => build'[c] = build[c]
      BY <2>4 DEF BuildsInv
    <3> HIDE DEF final
    <3>2. Uniform => Uniform'
      BY <2>1, <2>2, <2>4, <3>1 DEF Uniform, SameAs
    <3> QED
      BY <2>1, <2>4, <3>2 DEF SearchInv
  <2> HIDE DEF final
  <2>5. \/ build' = [build EXCEPT ![b] = Idle] /\ Replace(b, final)
        \/ UNCHANGED <<index, alone, query>> /\
           \E job : build' = [build EXCEPT ![b] = job] /\ job.final = final /\ job.runtime = build[b].runtime
    BY <1>2, LoadIs DEF final
  <2> QED
    BY <2>3, <2>4, <2>5
<1>3. ASSUME NEW b \in Builder, build[b].at = "embed", UNCHANGED worker, NEW c, c[1] # "huggingface", Batches(b, c),
             fell' \/ (UNCHANGED fell /\ c = Made(build[b].runtime))
      PROVE  SearchInv'
  <2>0. PICK new, job : Written(b, c, new, job)
    BY <1>3, WriteIs
  <2>1. LET final == Snapshot(build[b].final, new)
        IN  /\ \A e \in DOMAIN new : new[e].cfg = c
            /\ Replace(b, final) /\ DOMAIN final = DOMAIN build[b].final \cup DOMAIN new
            /\ \A e \in DOMAIN final : final[e] = IF e \in DOMAIN new THEN new[e] ELSE build[b].final[e]
            /\ build' = [build EXCEPT ![b] = job]
            /\ job = Idle \/ (job.final = final /\ job.runtime = build[b].runtime)
    BY <2>0 DEF Written
  <2> DEFINE final == Snapshot(build[b].final, new)
  <2>2. build'[b] = job /\ \A d \in Builder : d # b => build'[d] = build[d]
    BY <2>1 DEF BuildsInv
  <2>3. Replace(b, final)
    BY <2>1
  <2>4. SameAs(build[b].final, c) => SameAs(final, c)
    BY <2>1 DEF SameAs
  <2>5. job = Idle \/ (job.final = final /\ job.runtime = build[b].runtime)
    BY <2>1
  <2> HIDE DEF final
  <2>6. ASSUME Uniform, c = Made(build[b].runtime) PROVE Uniform'
    <3>1. SameAs(final, c)
      BY <1>3, <2>4, <2>6 DEF Uniform
    <3>2. SameAs(index', c) /\ \A v \in Server : query'[v] # "same"
      BY <1>3, <1>r, <2>3, <3>1
    <3>3. build'[b].at = "embed" => SameAs(build'[b].final, Made(build'[b].runtime))
      BY <2>2, <2>5, <2>6, <3>1 DEF Idle
    <3>4. \A d \in Builder : build'[d].at = "embed" => SameAs(build'[d].final, Made(build'[d].runtime))
      BY <2>2, <2>6, <3>3 DEF Uniform
    <3> QED
      BY <3>2, <3>4 DEF Uniform
  <2> QED
    BY <1>3, <1>r, <2>3, <2>6 DEF SearchInv
<1>4. ASSUME NEW b \in Builder, NEW job, job.at # "embed", build' = [build EXCEPT ![b] = job], UNCHANGED <<searches, index, fell>>
      PROVE  SearchInv'
  <2>1. build'[b] = job /\ \A d \in Builder : d # b => build'[d] = build[d]
    BY <1>4 DEF BuildsInv
  <2>2. Uniform => Uniform'
    BY <1>4, <2>1 DEF Uniform, SameAs, searches
  <2> QED
    BY <1>4, <2>2 DEF SearchInv, searches
<1>5. ASSUME UNCHANGED <<searches, index, build, fell>> PROVE SearchInv'
  BY <1>5 DEF SearchInv, Uniform, SameAs, searches
<1>6. ASSUME UNCHANGED <<index, build, fell>>, NEW v \in Server, StopWorker(v) \/ StartWorker(v) \/ Peek(v) \/ Scan(v)
      PROVE  SearchInv'
  <2>1. CASE StopWorker(v)
    <3>1. worker' = [worker EXCEPT ![v] = Off] /\ query' = [query EXCEPT ![v] = "none"]
      BY <2>1 DEF StopWorker
    <3>2. /\ worker'[v] = Off /\ query'[v] = "none"
          /\ \A w \in Server : w # v => worker'[w] = worker[w] /\ query'[w] = query[w]
      BY <3>1 DEF SearchInv
    <3>3. Uniform => Uniform'
      BY <1>6, <3>2 DEF Uniform, SameAs
    <3> QED
      BY <1>6, <3>1, <3>2, <3>3 DEF SearchInv
  <2>2. CASE StartWorker(v)
    <3>1. worker' = [worker EXCEPT ![v] = ConfigHash(WorkerRuntime)] /\ query' = query /\ worker[v] = Off
      BY <2>2 DEF StartWorker
    <3>2. /\ query[v] = "none" /\ \A w \in Server : w # v => worker'[w] = worker[w]
      BY <3>1 DEF SearchInv
    <3>3. Uniform => Uniform'
      BY <1>6, <3>1, <3>2 DEF Uniform, SameAs
    <3> QED
      BY <1>6, <3>1, <3>2, <3>3 DEF SearchInv
  <2>3. CASE Peek(v)
    <3>1. /\ query' = [query EXCEPT ![v] = "same"] /\ worker' = worker
          /\ worker[v] # Off /\ DOMAIN index # {} /\ index[First].cfg = worker[v]
      BY <2>3 DEF Peek
    <3>2. query'[v] = "same" /\ \A w \in Server : w # v => query'[w] = query[w]
      BY <3>1 DEF SearchInv
    <3>3. Uniform => SameAs(index, worker[v])
      BY <3>1, FirstIs DEF Uniform, SameAs
    <3>4. Uniform => Uniform'
      BY <1>6, <3>1, <3>2, <3>3 DEF Uniform, SameAs
    <3> QED
      BY <1>6, <3>1, <3>2, <3>4 DEF SearchInv
  <2>4. CASE Scan(v)
    <3>1. query' = [query EXCEPT ![v] = "none"] /\ worker' = worker
      BY <2>4 DEF Scan
    <3>2. query'[v] = "none" /\ \A w \in Server : w # v => query'[w] = query[w]
      BY <3>1 DEF SearchInv
    <3>3. Uniform => Uniform'
      BY <1>6, <3>1, <3>2 DEF Uniform, SameAs
    <3> QED
      BY <1>6, <3>1, <3>2, <3>3 DEF SearchInv
  <2> QED
    BY <1>6, <2>1, <2>2, <2>3, <2>4
<1>7. ASSUME NEW b \in Builder, Ends(b), UNCHANGED <<searches, index, fell>> PROVE SearchInv'
  <2>1. build' = [build EXCEPT ![b] = Idle] /\ Idle.at # "embed"
    BY <1>7 DEF Ends, Idle
  <2> HIDE DEF Idle
  <2> QED
    BY <1>4, <1>7, <2>1
<1>8. ASSUME NEW b \in Builder, Begins(b), UNCHANGED <<searches, index, fell>> PROVE SearchInv'
  BY <1>4, <1>8, StartOK
<1>9. CASE IndexNext
  BY <1>9, <1>2, <1>3, <1>5, <1>6, <1>7, <1>8, BuildSteps, HashIsThere
<1> QED
  BY <1>1, <1>9

\* A search whose index is not replaced while it runs compares its query with
\* vectors of its own configuration only, unless a batch has ever fallen back
\* to hashing: the first entry speaks for all.
THEOREM SearchesCompare == IndexSpec => []ScoresComparable
<1>1. SearchInv => ScoresComparable
  BY DEF SearchInv, Uniform, SameAs, ScoresComparable, Comparable
<1> QED
  BY <1>1, BuildsInit, BuildsStep, SearchInit, SearchStep, PTL DEF IndexSpec

----------------------------------------------------------------------------
(* and a build that nothing disturbs. *)

\* It knows the texts and the configuration as they are, and once it has loaded,
\* it has everything in the index that can be used.
Undisturbed ==
    /\ alone = [b \in Builder |-> alone[b]]
    /\ \A b \in Builder :
          alone[b] /\ build[b].at # "idle" =>
             /\ build[b].docs = docs /\ build[b].runtime.cfg = ConfigHash(BuildRuntime)
             /\ build[b].at = "embed" /\ ~build[b].force =>
                  \A e \in Entry : Usable(index, e) => e \in DOMAIN build[b].final /\ build[b].final[e] = index[e]

LEMMA UndisturbedInit == IndexInit => Undisturbed
  BY DEF IndexInit, Undisturbed, Idle

\* What can be used is kept.
LEMMA UsableKept ==
    ASSUME BuildsInv, Undisturbed, NEW b \in Builder, alone[b], build[b].at # "idle", ~build[b].force,
           NEW e \in Entry, Usable(index, e)
    PROVE  e \in Kept(b)
<1>1. build[b].docs = docs /\ build[b].runtime.cfg = ConfigHash(BuildRuntime)
  BY DEF Undisturbed
<1>2. index[e].hash \in Text /\ Nothing \notin Text
  BY IndexAssumption DEF BuildsInv, IndexOK, Usable
<1> QED
  BY <1>1, <1>2 DEF Kept, Present, Reusable, Usable

\* What can be used is not in a batch.
LEMMA UsableStays ==
    ASSUME BuildsInv, Undisturbed, NEW b \in Builder, alone[b], build[b].at = "embed", ~build[b].force,
           NEW new, \A e \in DOMAIN new : e \in {build[b].pending[i] : i \in 1..Len(build[b].pending)},
           NEW e \in Entry, Usable(index, e)
    PROVE  e \in DOMAIN Snapshot(build[b].final, new) /\ Snapshot(build[b].final, new)[e] = index[e]
<1>1. e \in DOMAIN build[b].final /\ build[b].final[e] = index[e]
  BY DEF Undisturbed
<1>2. e \notin DOMAIN new
  BY <1>1 DEF BuildsInv, BuildOK, PendingOK
<1> QED
  BY <1>1, <1>2 DEF Snapshot

LEMMA UndisturbedStep == BuildsInv /\ Undisturbed /\ [IndexNext]_indexVars => Undisturbed'
<1> SUFFICES ASSUME BuildsInv, Undisturbed, [IndexNext]_indexVars PROVE Undisturbed'
  OBVIOUS
<1>1. CASE UNCHANGED indexVars
  BY <1>1 DEF indexVars, Undisturbed, Usable, BuildRuntime
<1>2. ASSUME NEW b \in Builder, Load(b) PROVE Undisturbed'
  <2>0. UNCHANGED <<setting, docs, file>> /\ build[b].at # "idle"
    BY <1>2 DEF Load, others
  <2>1. ASSUME build' = [build EXCEPT ![b] = Idle], NEW i, Replace(b, i) PROVE Undisturbed'
    <3>1. build'[b].at = "idle" /\ alone' = [c \in Builder |-> c = b /\ alone[c]]
      BY <2>1 DEF BuildsInv, Idle, Replace
    <3> QED
      BY <3>1 DEF Undisturbed
  <2>2. ASSUME NEW job, UNCHANGED <<index, alone, query>>, build' = [build EXCEPT ![b] = job],
               job.final = [e \in Kept(b) |-> index[e]], job.docs = build[b].docs, job.force = build[b].force,
               job.runtime = build[b].runtime
        PROVE  Undisturbed'
    <3>1. build'[b] = job /\ \A c \in Builder : c # b => build'[c] = build[c]
      BY <2>2 DEF BuildsInv
    <3>3. \A e \in Entry : Usable(index, e)' <=> Usable(index, e)
      BY <2>0, <2>2 DEF Usable, BuildRuntime
    <3>4. ConfigHash(BuildRuntime)' = ConfigHash(BuildRuntime)
      BY <2>0 DEF BuildRuntime
    <3>5. ASSUME alone[b], ~job.force, NEW e \in Entry, Usable(index, e)
          PROVE  e \in DOMAIN job.final /\ job.final[e] = index[e]
      BY <2>0, <2>2, <3>5, UsableKept
    <3>6. alone' = [c \in Builder |-> alone'[c]] /\ UNCHANGED <<docs, alone>>
      BY <2>0, <2>2 DEF Undisturbed
    <3>7. ASSUME NEW c \in Builder, alone'[c], build'[c].at # "idle"
          PROVE  /\ build'[c].docs = docs' /\ build'[c].runtime.cfg = ConfigHash(BuildRuntime)'
                 /\ build'[c].at = "embed" /\ ~build'[c].force =>
                      \A e \in Entry : Usable(index, e)' => e \in DOMAIN build'[c].final /\ build'[c].final[e] = index'[e]
      <4>1. CASE c = b
        BY <2>0, <2>2, <3>1, <3>3, <3>4, <3>5, <3>6, <3>7, <4>1 DEF Undisturbed
      <4>2. CASE c # b
        BY <2>2, <3>1, <3>3, <3>4, <3>6, <3>7, <4>2 DEF Undisturbed
      <4> QED
        BY <4>1, <4>2
    <3> QED
      BY <3>6, <3>7 DEF Undisturbed
  <2>3. \/ \E i : build' = [build EXCEPT ![b] = Idle] /\ Replace(b, i)
        \/ UNCHANGED <<index, alone, query>> /\
             \E job : /\ build' = [build EXCEPT ![b] = job]
                     /\ job.final = [e \in Kept(b) |-> index[e]] /\ job.docs = build[b].docs /\ job.force = build[b].force
                     /\ job.runtime = build[b].runtime
    BY <1>2, LoadIs
  <2> QED
    BY <2>1, <2>2, <2>3
<1>3. ASSUME NEW b \in Builder, build[b].at = "embed", UNCHANGED <<setting, file, docs>>, NEW c, c[1] # "huggingface", Batches(b, c)
      PROVE  Undisturbed'
  <2>0. PICK new, job : Written(b, c, new, job)
    BY <1>3, WriteIs
  <2> DEFINE final == Snapshot(build[b].final, new)
  <2>1. /\ build' = [build EXCEPT ![b] = job]
        /\ \/ job = Idle
           \/ /\ job.final = final /\ job.docs = build[b].docs
              /\ job.force = build[b].force /\ job.runtime = build[b].runtime
    BY <2>0 DEF Written
  <2>2. Replace(b, final)
    BY <2>0 DEF Written
  <2> HIDE DEF final
  <2>3. build'[b] = job /\ index' = final /\ alone' = [d \in Builder |-> d = b /\ alone[d]]
    BY <2>1, <2>2 DEF BuildsInv, Replace
  <2>4. ConfigHash(BuildRuntime)' = ConfigHash(BuildRuntime)
    BY <1>3 DEF BuildRuntime
  <2>5. ASSUME alone[b], job # Idle
        PROVE  /\ job.docs = docs /\ job.runtime.cfg = ConfigHash(BuildRuntime) /\ job.final = index'
    BY <1>3, <2>1, <2>3, <2>5 DEF Undisturbed
  <2>6. ASSUME NEW d \in Builder, alone'[d], build'[d].at # "idle"
        PROVE  d = b /\ alone[b] /\ job # Idle
    <3>1. d = b /\ alone[b]
      BY <2>3, <2>6
    <3>2. Idle.at = "idle"
      BY DEF Idle
    <3> QED
      BY <2>3, <2>6, <3>1, <3>2
  <2>7. \A e \in Entry : Usable(index, e)' => e \in DOMAIN index'
    BY DEF Usable
  <2> QED
    BY <1>3, <2>3, <2>4, <2>5, <2>6, <2>7 DEF Undisturbed
<1>4. ASSUME NEW b \in Builder, Ends(b), UNCHANGED <<setting, index, docs, file>> PROVE Undisturbed'
  <2>1. /\ build'[b].at = "idle" /\ \A c \in Builder : c # b => build'[c] = build[c] /\ alone'[c] = alone[c]
        /\ alone' = [c \in Builder |-> alone'[c]]
    BY <1>4 DEF Ends, BuildsInv, Idle, Undisturbed
  <2>2. ConfigHash(BuildRuntime)' = ConfigHash(BuildRuntime)
    BY <1>4 DEF BuildRuntime
  <2>3. \A e \in Entry : Usable(index, e)' <=> Usable(index, e)
    BY <1>4 DEF Usable, BuildRuntime
  <2> QED
    BY <1>4, <2>1, <2>2, <2>3 DEF Undisturbed
<1>5. ASSUME NEW b \in Builder, Begins(b), UNCHANGED <<setting, index, docs, file>> PROVE Undisturbed'
  <2>0. PICK job : /\ build' = [build EXCEPT ![b] = job] /\ job.at \in {"doomed", "load"}
                   /\ job.docs = docs /\ job.runtime.cfg = ConfigHash(BuildRuntime)
    BY <1>5, StartOK
  <2>1. /\ build'[b] = job /\ \A c \in Builder : c # b => build'[c] = build[c] /\ alone'[c] = alone[c]
        /\ alone' = [c \in Builder |-> alone'[c]]
    BY <1>5, <2>0 DEF Begins, BuildsInv, Undisturbed
  <2>2. ConfigHash(BuildRuntime)' = ConfigHash(BuildRuntime)
    BY <1>5 DEF BuildRuntime
  <2>3. \A e \in Entry : Usable(index, e)' <=> Usable(index, e)
    BY <1>5 DEF Usable, BuildRuntime
  <2> QED
    BY <1>5, <2>0, <2>1, <2>2, <2>3 DEF Undisturbed
<1>6. ASSUME NobodyAlone PROVE Undisturbed'
  BY <1>6 DEF NobodyAlone, Undisturbed
<1>7. ASSUME UNCHANGED <<setting, index, build, alone, docs, file>> PROVE Undisturbed'
  BY <1>7 DEF Undisturbed, Usable, BuildRuntime
<1>8. CASE IndexNext
  BY <1>8, <1>2, <1>3, <1>4, <1>5, <1>6, <1>7, BuildSteps, HashIsThere
<1> QED
  BY <1>1, <1>8

\* A build without --force that nothing disturbs takes nothing out of the index
\* that can be used, wherever it ends.
THEOREM BuildsKeepUsable == IndexSpec => KeepsUsable
<1> DEFINE A == \A b \in Builder : alone[b] /\ ~build[b].force /\ build'[b] # build[b] =>
                    \A e \in Entry : Usable(index, e) => Usable(index', e)
<1>1. BuildsInv /\ Undisturbed /\ [IndexNext]_indexVars => [A]_indexVars
  <2> SUFFICES ASSUME BuildsInv, Undisturbed, IndexNext, NEW b \in Builder, alone[b], ~build[b].force, build'[b] # build[b],
                      NEW e \in Entry, Usable(index, e)
               PROVE  Usable(index', e)
    OBVIOUS
  <2>0. e \in DOMAIN index /\ (index' = index => Usable(index', e))
    BY DEF Usable
  <2>s. ASSUME NEW c \in Builder, NEW job, build' = [build EXCEPT ![c] = job] PROVE c = b
    BY <2>s DEF BuildsInv
  <2>k. ASSUME NEW i, index' = i, e \in DOMAIN i, i[e] = index[e] PROVE Usable(index', e)
    BY <2>k DEF Usable
  <2>1. ASSUME NEW c \in Builder, Load(c) PROVE Usable(index', e)
    <3>1. build[c].at = "load"
      BY <2>1 DEF Load
    <3>2. \/ build' = [build EXCEPT ![c] = Idle] /\ Replace(c, [f \in Kept(c) |-> index[f]])
          \/ UNCHANGED index
      BY <2>1, LoadIs
    <3>3. CASE build' = [build EXCEPT ![c] = Idle] /\ Replace(c, [f \in Kept(c) |-> index[f]])
      <4>1. c = b
        BY <2>s, <3>3
      <4>2. e \in Kept(c)
        BY <3>1, <4>1, UsableKept
      <4> QED
        BY <2>k, <3>3, <4>2 DEF Replace
    <3> QED
      BY <2>0, <3>2, <3>3
  <2>2. ASSUME NEW c \in Builder, build[c].at = "embed", NEW config, config[1] # "huggingface", Batches(c, config)
        PROVE  Usable(index', e)
    <3>0. PICK new, job : Written(c, config, new, job)
      BY <2>2, WriteIs
    <3>1. /\ \A f \in DOMAIN new : f \in {build[c].pending[i] : i \in 1..Len(build[c].pending)}
          /\ Replace(c, Snapshot(build[c].final, new)) /\ build' = [build EXCEPT ![c] = job]
      BY <3>0 DEF Written
    <3>2. c = b
      BY <2>s, <3>1
    <3>3. e \in DOMAIN Snapshot(build[c].final, new) /\ Snapshot(build[c].final, new)[e] = index[e]
      <4>1. \A f \in DOMAIN new : f \in {build[b].pending[i] : i \in 1..Len(build[b].pending)}
        BY <3>1, <3>2
      <4> HIDE <3>1
      <4>2. build[b].at = "embed"
        BY <2>2, <3>2
      <4>3. e \in DOMAIN Snapshot(build[b].final, new) /\ Snapshot(build[b].final, new)[e] = index[e]
        BY <4>1, <4>2, UsableStays
      <4> QED
        BY <3>2, <4>3
    <3> QED
      BY <2>k, <3>1, <3>3 DEF Replace
  <2> QED
    BY <2>0, <2>1, <2>2, BuildSteps, HashIsThere
<1> QED
  BY <1>1, BuildsInit, BuildsStep, UndisturbedInit, UndisturbedStep, PTL DEF IndexSpec, KeepsUsable

=============================================================================
