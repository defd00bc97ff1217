---------------------------- MODULE EmbeddingPool ----------------------------
(***************************************************************************)
(* The warm pool of Python embedding workers,                              *)
(* shared-mcp/embedding-worker-pool.cjs.                                   *)
(*                                                                         *)
(* One Node process owns the pool; its handlers run to completion, so an   *)
(* action is a whole handler.  A continuation of an awaited promise is a   *)
(* microtask: it runs before the next event, which Quiet expresses.        *)
(*                                                                         *)
(* pool.workers holds only the placeholder objects initPool and            *)
(* maybeRespawn push; the object spawnWorker builds around the process     *)
(* never enters it.  The model keeps the two apart: "slots" are the        *)
(* placeholders (named by the worker they were pushed for) and everything  *)
(* indexed by Worker belongs to the real worker objects.                   *)
(***************************************************************************)
EXTENDS Naturals, FiniteSets, FiniteSetsExt

CONSTANTS
    Worker,             \* identities of Python processes that may be spawned
    Request,            \* concurrent callers of embedWithPool
    None,               \* no worker, no promise
    PoolSize,           \* max(1, min(DEFAULT_POOL_SIZE, 8))
    BackpressureLimit,  \* BACKPRESSURE_LIMIT
    FailureThreshold,   \* FAILURE_THRESHOLD
    MaxInits,           \* bound: runs of initPool's body
    MaxDrains           \* bound: calls of drainPool

ASSUME PoolAssumption ==
    /\ IsFiniteSet(Worker) /\ IsFiniteSet(Request)
    /\ None \notin Worker /\ None \notin Nat
    /\ PoolSize \in Nat \ {0}
    /\ BackpressureLimit \in Nat \ {0}
    /\ FailureThreshold \in Nat \ {0, 1}
    /\ MaxInits \in Nat /\ MaxDrains \in Nat

Gen == 1..MaxInits      \* runs of initPool's async body

VARIABLES
    slots,        \* pool.workers: the placeholders
    healthy,      \* pool.healthy
    owner,        \* pool.pendingRequests: request -> its worker
    initialized,  \* pool.initialized
    initPromise,  \* pool.initPromise: the run callers share, or None
    respawner,    \* pool._respawning: the worker being respawned, or None
    proc,         \* process and READY handshake of each worker
    killed,       \* workers whose proc.killed is true
    spawned,      \* the promise spawnWorker returned
    load,         \* worker.pending
    failures,     \* worker.failures inside the window
    batch,        \* the workers each run of initPool spawned
    run,          \* progress of each run of initPool
    call,         \* where each embedWithPool call is
    awaits,       \* the run a waiting call awaits
    draining,     \* a drainPool call is in its two-second pause
    drains        \* calls of drainPool so far (bounded)

poolVars == <<slots, healthy, initialized, initPromise, respawner>>
procVars == <<proc, killed, spawned>>
callVars == <<owner, load, call, awaits>>
initVars == <<batch, run>>
drainVars == <<draining, drains>>
vars == <<poolVars, procVars, callVars, initVars, drainVars, failures>>

TypeOK ==
    /\ slots \subseteq Worker
    /\ healthy \subseteq Worker
    /\ owner \in [Request -> Worker \cup {None}]
    /\ initialized \in BOOLEAN
    /\ initPromise \in Gen \cup {None}
    /\ respawner \in Worker \cup {None}
    /\ proc \in [Worker -> {"unborn", "starting", "running", "closed"}]
    /\ killed \subseteq Worker
    /\ spawned \in [Worker -> {"none", "pending", "resolved", "rejected"}]
    /\ load \in [Worker -> Nat]
    /\ failures \in [Worker -> 0..FailureThreshold]
    /\ batch \in [Gen -> SUBSET Worker]
    /\ run \in [Gen -> {"unused", "running", "ok", "failed"}]
    /\ call \in [Request -> {"idle", "waiting", "resumed", "sent"}]
    /\ awaits \in [Request -> Gen \cup {None}]
    /\ draining \in BOOLEAN
    /\ drains \in 0..MaxDrains

Init ==
    /\ slots = {} /\ healthy = {}
    /\ owner = [r \in Request |-> None]
    /\ initialized = FALSE /\ initPromise = None /\ respawner = None
    /\ proc = [w \in Worker |-> "unborn"]
    /\ killed = {}
    /\ spawned = [w \in Worker |-> "none"]
    /\ load = [w \in Worker |-> 0]
    /\ failures = [w \in Worker |-> 0]
    /\ batch = [g \in Gen |-> {}]
    /\ run = [g \in Gen |-> "unused"]
    /\ call = [r \in Request |-> "idle"]
    /\ awaits = [r \in Request |-> None]
    /\ draining = FALSE /\ drains = 0

-----------------------------------------------------------------------------
(* State functions *)

Unborn == {w \in Worker : proc[w] = "unborn"}

\* The init timer of spawnWorker: cleared by READY, by error and by close.
TimerArmed(w) == spawned[w] = "pending" /\ proc[w] = "starting"

\* Fault: a rejected spawn is not turned into null, so Promise.all waits on.
BatchAllResolved(g) == run[g] = "running" /\ \A w \in batch[g] : spawned[w] = "resolved"

\* Promise.all over the batch has settled, so the body of initPool goes on.
BatchSettled(g) == run[g] = "running" /\ \A w \in batch[g] : spawned[w] # "pending"

\* No continuation is queued: the event loop may deliver the next event.
Quiet ==
    /\ \A r \in Request : call[r] # "resumed"
    /\ \A g \in Gen : ~BatchSettled(g)

Owned(w) == {r \in Request : owner[r] = w}

Pending == {r \in Request : owner[r] # None}

HealthyLoad == MapThenSumSet(LAMBDA w : load[w], healthy)

\* Math.max(0, pending - n)
Less(n, k) == IF n >= k THEN n - k ELSE 0

-----------------------------------------------------------------------------
(* removeWorker, maybeRespawn, recordFailure *)

\* pool.workers after removeWorker(w) for a worker object: indexOf is -1,
\* the list holds placeholders only.
SlotsAfterRemoving(w) == slots

\* maybeRespawn, entered with the placeholders sl and the processes pr.
TopUp(sl, pr) ==
    IF initialized /\ respawner = None /\ Cardinality(sl) < PoolSize
    THEN \E n \in Unborn :
            /\ slots' = sl \cup {n}
            /\ respawner' = n
            /\ proc' = [pr EXCEPT ![n] = "starting"]
            /\ spawned' = [spawned EXCEPT ![n] = "pending"]
    ELSE /\ slots' = sl
         /\ proc' = pr
         /\ UNCHANGED <<respawner, spawned>>

\* removeWorker on a live worker object: out of healthy, killed, topped up.
Retire(w) ==
    /\ healthy' = healthy \ {w}
    /\ killed' = killed \cup {w}
    /\ TopUp(SlotsAfterRemoving(w), proc)

\* recordFailure: some earlier failures have left the window, this one is
\* added; the circuit opens at the threshold.
RecordFailure(w) ==
    \E recent \in 0..failures[w] :
        LET n == IF recent < FailureThreshold THEN recent + 1 ELSE recent IN
        /\ failures' = [failures EXCEPT ![w] = n]
        /\ IF n >= FailureThreshold
           THEN Retire(w)
           ELSE UNCHANGED <<healthy, slots, respawner, procVars>>

\* Fault: the counter is not given back.
SettleKeepingLoad(r) ==
    /\ owner' = [owner EXCEPT ![r] = None]
    /\ call' = [call EXCEPT ![r] = "idle"]
    /\ UNCHANGED <<load, awaits>>

\* Fault: the entry is deleted and nobody is told.
SettleSilently(r) ==
    /\ owner' = [owner EXCEPT ![r] = None]
    /\ load' = [load EXCEPT ![owner[r]] = Less(@, 1)]
    /\ UNCHANGED <<call, awaits>>

\* The request leaves pendingRequests and its worker's counter, and settles.
Settle(r) ==
    /\ owner' = [owner EXCEPT ![r] = None]
    /\ load' = [load EXCEPT ![owner[r]] = Less(@, 1)]
    /\ call' = [call EXCEPT ![r] = "idle"]
    /\ UNCHANGED awaits

-----------------------------------------------------------------------------
(* embedWithPool and initPool *)

\* embedWithPool up to its await: an initialized pool lets it go on, a run in
\* progress is shared.
Embed(r) ==
    /\ Quiet
    /\ call[r] = "idle"
    /\ \/ /\ initialized
          /\ call' = [call EXCEPT ![r] = "resumed"]
          /\ UNCHANGED awaits
       \/ /\ ~initialized /\ initPromise # None
          /\ call' = [call EXCEPT ![r] = "waiting"]
          /\ awaits' = [awaits EXCEPT ![r] = initPromise]
    /\ UNCHANGED <<poolVars, procVars, owner, load, initVars, drainVars, failures>>

\* The first call starts a run of initPool: one placeholder and one process
\* per slot.
StartInit(r) ==
    /\ Quiet
    /\ call[r] = "idle" /\ ~initialized /\ initPromise = None
    /\ \E g \in Gen, ws \in kSubset(PoolSize, Unborn) :
        /\ run[g] = "unused" /\ \A h \in 1..(g - 1) : run[h] # "unused"
        /\ run' = [run EXCEPT ![g] = "running"]
        /\ batch' = [batch EXCEPT ![g] = ws]
        /\ initPromise' = g
        /\ slots' = slots \cup ws
        /\ proc' = [w \in Worker |-> IF w \in ws THEN "starting" ELSE proc[w]]
        /\ spawned' = [w \in Worker |-> IF w \in ws THEN "pending" ELSE spawned[w]]
        /\ call' = [call EXCEPT ![r] = "waiting"]
        /\ awaits' = [awaits EXCEPT ![r] = g]
    /\ UNCHANGED <<healthy, initialized, respawner, killed, owner, load, drainVars, failures>>

\* The calls that await run g, moved to s.
Wake(g, s) ==
    /\ call' = [r \in Request |->
                  IF call[r] = "waiting" /\ awaits[r] = g THEN s ELSE call[r]]
    /\ awaits' = [r \in Request |-> IF awaits[r] = g THEN None ELSE awaits[r]]

\* Promise.all resolved: every worker that once said READY joins healthy; with
\* none the pool is reset and the callers are rejected.
FinishInit(g) ==
    /\ BatchSettled(g)
    /\ LET alive == {w \in batch[g] : spawned[w] = "resolved"} IN
        IF alive # {}
        THEN /\ healthy' = healthy \cup alive
             /\ initialized' = TRUE
             /\ run' = [run EXCEPT ![g] = "ok"]
             /\ Wake(g, "resumed")
             /\ UNCHANGED <<slots, initPromise>>
        ELSE /\ healthy' = {} /\ slots' = {}
             /\ initialized' = FALSE /\ initPromise' = None
             /\ run' = [run EXCEPT ![g] = "failed"]
             /\ Wake(g, "idle")
    /\ UNCHANGED <<respawner, procVars, owner, load, batch, drainVars, failures>>

\* A worker that cannot be written to (killed, closed, or its stdin already
\* gone) is retired and the call fails.
DispatchToUnwritable(r, w) ==
    /\ healthy' = healthy \ {w}
    /\ killed' = IF proc[w] = "closed" THEN killed ELSE killed \cup {w}
    /\ TopUp(SlotsAfterRemoving(w), proc)
    /\ call' = [call EXCEPT ![r] = "idle"]
    /\ UNCHANGED <<owner, load>>

DispatchTo(r, w) ==
    /\ proc[w] = "running" /\ w \notin killed
    /\ owner' = [owner EXCEPT ![r] = w]
    /\ load' = [load EXCEPT ![w] = @ + 1]
    /\ call' = [call EXCEPT ![r] = "sent"]
    /\ UNCHANGED <<healthy, slots, respawner, procVars>>

\* pickWorker: a least-loaded healthy worker (ties by insertion order, left
\* open here).
LeastLoaded == {w \in healthy : \A v \in healthy : load[w] <= load[v]}

\* The backpressure check counts the healthy workers' requests only.
Overloaded == HealthyLoad >= BackpressureLimit

\* embedWithPool after its await.
Dispatch(r) ==
    /\ call[r] = "resumed"
    /\ IF Overloaded \/ healthy = {}
       THEN /\ call' = [call EXCEPT ![r] = "idle"]
            /\ UNCHANGED <<healthy, slots, respawner, procVars, owner, load>>
       ELSE \E w \in LeastLoaded : DispatchTo(r, w) \/ DispatchToUnwritable(r, w)
    /\ UNCHANGED <<initialized, initPromise, awaits, initVars, drainVars, failures>>

-----------------------------------------------------------------------------
(* Events of a worker process and timers *)

\* READY, even from a worker whose init timer already fired.
Ready(w) ==
    /\ Quiet
    /\ proc[w] = "starting"
    /\ proc' = [proc EXCEPT ![w] = "running"]
    /\ healthy' = healthy \cup {w}
    /\ spawned' = [spawned EXCEPT ![w] = IF @ = "pending" THEN "resolved" ELSE @]
    /\ respawner' = IF respawner = w THEN None ELSE respawner
    /\ UNCHANGED <<slots, initialized, initPromise, killed, callVars, initVars, drainVars, failures>>

\* The init timer: kill the process, reject the spawn; a respawn gives its
\* placeholder back.
InitTimeout(w) ==
    /\ Quiet
    /\ TimerArmed(w)
    /\ killed' = killed \cup {w}
    /\ spawned' = [spawned EXCEPT ![w] = "rejected"]
    /\ respawner' = IF respawner = w THEN None ELSE respawner
    /\ slots' = IF respawner = w THEN slots \ {w} ELSE slots
    /\ UNCHANGED <<healthy, initialized, initPromise, proc, callVars, initVars, drainVars, failures>>

\* More output without a newline than MAX_STDOUT_BUFFER: the process is killed,
\* in whatever state it is; its close event does the rest.
Overflow(w) ==
    /\ Quiet
    /\ proc[w] \in {"starting", "running"} /\ w \notin killed
    /\ killed' = killed \cup {w}
    /\ UNCHANGED <<poolVars, proc, spawned, callVars, initVars, drainVars, failures>>

\* removeWorker as the close and error handlers end with it.
Buried(w) ==
    /\ healthy' = healthy \ {w}
    /\ TopUp(SlotsAfterRemoving(w), [proc EXCEPT ![w] = "closed"])
    /\ UNCHANGED <<initialized, initPromise, killed, awaits, initVars, drainVars>>

\* Fault: the worker's requests are left to their timers.
BuryKeepingRequests(w) == Buried(w) /\ UNCHANGED <<owner, load, call>>

\* rejectPendingForWorker followed by removeWorker.
Bury(w) ==
    /\ owner' = [r \in Request |-> IF owner[r] = w THEN None ELSE owner[r]]
    /\ load' = [load EXCEPT ![w] = Less(@, Cardinality(Owned(w)))]
    /\ call' = [r \in Request |-> IF owner[r] = w THEN "idle" ELSE call[r]]
    /\ Buried(w)

\* The "close" event: the process ended, by itself or killed.
Close(w) ==
    /\ Quiet
    /\ proc[w] \in {"starting", "running"}
    /\ Bury(w)
    /\ UNCHANGED failures

\* The "error" event of a process that could not be started.
SpawnError(w) ==
    /\ Quiet
    /\ proc[w] = "starting" /\ w \notin killed
    /\ failures' = [failures EXCEPT ![w] = 1]
    /\ Bury(w)

\* RESULT for a request still pending.
Result(r) ==
    /\ Quiet
    /\ owner[r] # None /\ proc[owner[r]] = "running"
    /\ Settle(r)
    /\ UNCHANGED <<poolVars, procVars, initVars, drainVars, failures>>

\* ERROR for a request still pending counts against its worker.
Error(r) ==
    /\ Quiet
    /\ owner[r] # None /\ proc[owner[r]] = "running"
    /\ Settle(r)
    /\ RecordFailure(owner[r])
    /\ UNCHANGED <<initialized, initPromise, initVars, drainVars>>

\* The per-request timer, a failure of the worker too.
RequestTimeout(r) ==
    /\ Quiet
    /\ owner[r] # None
    /\ Settle(r)
    /\ RecordFailure(owner[r])
    /\ UNCHANGED <<initialized, initPromise, initVars, drainVars>>

-----------------------------------------------------------------------------
(* drainPool *)

\* SHUTDOWN is written to the placeholders' processes: they have none.
StartDrain ==
    /\ Quiet
    /\ drains < MaxDrains /\ ~draining
    /\ draining' = TRUE /\ drains' = drains + 1
    /\ UNCHANGED <<poolVars, procVars, callVars, initVars, failures>>

\* removeWorker on each placeholder (the first one frees a slot, so
\* maybeRespawn may start a process), then the pool is emptied.
FinishDrain ==
    /\ Quiet
    /\ draining
    /\ draining' = FALSE
    /\ IF slots # {} /\ initialized /\ respawner = None
       THEN \E n \in Unborn :
               /\ respawner' = n
               /\ proc' = [proc EXCEPT ![n] = "starting"]
               /\ spawned' = [spawned EXCEPT ![n] = "pending"]
       ELSE UNCHANGED <<respawner, proc, spawned>>
    /\ initialized' = FALSE /\ initPromise' = None
    /\ slots' = {} /\ healthy' = {}
    /\ owner' = [r \in Request |-> None]
    /\ UNCHANGED <<killed, load, call, awaits, initVars, drains, failures>>

-----------------------------------------------------------------------------
Next ==
    \/ \E r \in Request : \/ Dispatch(r) \/ Embed(r) \/ StartInit(r)
                          \/ Result(r) \/ Error(r) \/ RequestTimeout(r)
    \/ \E g \in Gen : FinishInit(g)
    \/ \E w \in Worker : Ready(w) \/ InitTimeout(w) \/ Overflow(w) \/ Close(w) \/ SpawnError(w)
    \/ StartDrain
    \/ FinishDrain

Spec == Init /\ [][Next]_vars

\* Node runs queued continuations, and its loop visits the timers between any
\* two batches of events, however often other calls keep it from being idle
\* (hence the strong fairness on timers, which Quiet disables and re-enables).
Fairness ==
    /\ \A r \in Request : WF_vars(Dispatch(r)) /\ SF_vars(RequestTimeout(r))
    /\ \A g \in Gen : WF_vars(FinishInit(g))
    /\ \A w \in Worker : SF_vars(InitTimeout(w))

FairSpec == Spec /\ Fairness

\* ... and every process that is left alone gets READY.
ReadySpec == FairSpec /\ \A w \in Worker : SF_vars(w \notin killed /\ Ready(w))

-----------------------------------------------------------------------------
(* Properties *)

\* A request is only ever owned by a worker whose process can still answer or
\* close: neither a death nor a retirement strands it (rejectPendingForWorker,
\* and the stdin check of embedWithPool against workers re-added after death).
NoStrandedRequest ==
    \A r \in Request : owner[r] # None => proc[owner[r]] = "running"

\* Load balancing and backpressure read worker.pending; through results,
\* errors, timeouts, deaths and retirements it stays the number of requests
\* the worker owns, as long as nothing drained the pool.
LoadCountsOwned ==
    drains = 0 => \A w \in Worker : load[w] = Cardinality(Owned(w))

\* What backpressure does bound: the requests of the healthy workers.
HealthyLoadBounded == HealthyLoad <= BackpressureLimit

\* An unsettled call always keeps its entry in pendingRequests, the only thing
\* that can settle it, unless drainPool clears the map under it.
OnlyDrainForgets ==
    [][\A r \in Request :
          (call[r] = "sent" /\ owner[r] # None /\ owner'[r] = None)
              => (call'[r] = "idle" \/ (draining /\ ~draining'))]_vars

\* A worker dying must not reject sibling workers' in-flight requests
\* (rejectPendingForWorker).
DeathIsLocal ==
    [][\A w \in Worker :
          (proc[w] # "closed" /\ proc'[w] = "closed")
              => \A r \in Request \ Owned(w) : call'[r] = call[r] /\ owner'[r] = owner[r]]_vars

\* Every request in flight settles, whatever its worker does (request timer),
\* unless drainPool forgets it.
SentSettles ==
    \A r \in Request : (call[r] = "sent") ~> (call[r] = "idle" \/ drains > 0)

\* A worker of run g ended before it said READY: its spawn promise is orphaned.
EndedEarly(g) == \E w \in batch[g] : proc[w] = "closed" /\ spawned[w] = "pending"

\* Calls waiting for the pool get an answer unless a worker ended early.
InitSettlesOrEndedEarly ==
    \A r \in Request :
        (call[r] = "waiting") ~>
            (call[r] # "waiting" \/ \E g \in Gen : EndedEarly(g))

-----------------------------------------------------------------------------
(* What the comments and the change log say, and the code does not do *)

\* "Falls back to legacy per-call spawn if pool init fails": a waiting call
\* must be answered.
InitSettles ==
    \A r \in Request : (call[r] = "waiting") ~> (call[r] # "waiting")

\* "Top up the pool after a worker is removed, so the healthy set does not
\* monotonically shrink to zero": while there are processes left to spawn, an
\* empty healthy set is refilled.
PoolReplenishes ==
    (initialized /\ healthy = {} /\ Unborn # {}) ~> (healthy # {})

\* "Gracefully shut down all workers": what was alive when the drain started
\* is stopped when it ends.
DrainStopsWorkers ==
    [][(draining /\ ~draining') =>
          \A w \in Worker : proc[w] = "running" => (w \in killed' \/ proc'[w] = "closed")]_vars

\* "Backpressure threshold: 50 concurrent embedding requests across the pool".
PendingBounded == Cardinality(Pending) <= BackpressureLimit

\* "Pick the least-loaded healthy worker": what is picked from is alive.
HealthyAreAlive == \A w \in healthy : proc[w] # "closed"
=============================================================================
