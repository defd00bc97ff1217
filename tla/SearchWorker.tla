---------------------------- MODULE SearchWorker ----------------------------
(***************************************************************************)
(* The retrieval server's Python search worker, shared-mcp/metrics/        *)
(* compute.js: started on demand, shared by all tool calls, restarted when *)
(* the embedding runtime changes.                                          *)
(*                                                                         *)
(* The server is one Node process.  Its callbacks are atomic; promise      *)
(* continuations run before the next event, so an event waits until no     *)
(* call is "ready".  The script and the Python runtime exist.              *)
(***************************************************************************)
EXTENDS Naturals, FiniteSets

CONSTANTS
    Child,        \* bound: search worker processes ever spawned
    Request,      \* calls of requestSearchWorker
    None,
    MaxRestarts,  \* SEARCH_WORKER_MAX_RESTARTS
    Limit         \* SEARCH_BACKPRESSURE_LIMIT

ASSUME SearchAssumption ==
    /\ None \notin Child
    /\ IsFiniteSet(Child)
    /\ MaxRestarts \in Nat /\ Limit \in Nat \ {0}

VARIABLES
    up,            \* the server runs
    searchWorker,  \* the current child
    startup,       \* the child searchWorkerStartupPromise waits for
    proc,          \* "dead": ended, but its exit event is still to come
    killed,        \* children that were sent a signal (child.killed)
    stopping,      \* children whose exit a stopSearchWorker awaits
    restartCount,  \* searchWorkerRestartCount
    circuitOpen,   \* searchWorkerCircuitOpen
    timers,        \* restarts scheduled and not run yet
    phase,         \* where each call is: "pending" is in searchWorkerPending
    target         \* the child a call is handed or written to

childVars == <<proc, killed>>
healthVars == <<restartCount, circuitOpen, timers>>
callVars == <<phase, target>>
vars == <<up, searchWorker, startup, childVars, stopping, healthVars, callVars>>

TypeOK ==
    /\ up \in BOOLEAN
    /\ searchWorker \in Child \cup {None}
    /\ startup \in Child \cup {None}
    /\ proc \in [Child -> {"unborn", "starting", "running", "dead", "gone"}]
    /\ killed \subseteq Child
    /\ stopping \subseteq Child
    /\ restartCount \in 0..Cardinality(Child)
    /\ circuitOpen \in BOOLEAN
    /\ timers \in 0..Cardinality(Child)
    /\ phase \in [Request -> {"new", "waiting", "ready", "pending", "answered", "failed"}]
    /\ target \in [Request -> Child \cup {None}]

Init ==
    /\ up = TRUE
    /\ searchWorker = None /\ startup = None
    /\ proc = [c \in Child |-> "unborn"]
    /\ killed = {} /\ stopping = {}
    /\ restartCount = 0 /\ circuitOpen = FALSE /\ timers = 0
    /\ phase = [r \in Request |-> "new"]
    /\ target = [r \in Request |-> None]

-----------------------------------------------------------------------------
(* Helpers *)

In(p) == {r \in Request : phase[r] = p}

\* An event of the loop: the continuations of the last one have run.
Event == up /\ In("ready") = {}

\* isProcessAlive: a signalled child does not count, one whose exit event is
\* still to come does.
Alive(c) == c # None /\ c \notin killed /\ proc[c] \in {"running", "dead"}

\* checkSearchWorkerCircuit; the window is over or not.
CircuitRefuses(windowOver) ==
    circuitOpen /\ restartCount >= MaxRestarts /\ ~windowOver

CountAfterCheck == IF circuitOpen THEN 0 ELSE restartCount

\* Fault: only the calls of the current child are rejected.
ResetOfCurrent ==
    /\ searchWorker' = None
    /\ phase' = [r \in Request |-> IF phase[r] = "pending" /\ target[r] = searchWorker
                                   THEN "failed" ELSE phase[r]]

\* resetSearchWorkerState: whatever the reason, all pending calls are rejected
\* and the current child is forgotten.
Reset ==
    /\ searchWorker' = None
    /\ phase' = [r \in Request |-> IF phase[r] = "pending" THEN "failed" ELSE phase[r]]

-----------------------------------------------------------------------------
(* requestSearchWorker and ensureSearchWorker *)

Overloaded == Cardinality(In("pending")) >= Limit

\* A circuit that does not refuse is closed and its count forgotten.
CircuitAllows ==
    /\ \E windowOver \in BOOLEAN : ~CircuitRefuses(windowOver)
    /\ restartCount' = CountAfterCheck
    /\ circuitOpen' = FALSE

\* The circuit or backpressure refuses the call.
Refuse(r) ==
    /\ up /\ phase[r] = "new"
    /\ \E windowOver \in BOOLEAN :
        IF CircuitRefuses(windowOver)
        THEN UNCHANGED <<restartCount, circuitOpen>>
        ELSE Overloaded /\ restartCount' = CountAfterCheck /\ circuitOpen' = FALSE
    /\ phase' = [phase EXCEPT ![r] = "failed"]
    /\ UNCHANGED <<up, searchWorker, startup, childVars, stopping, timers, target>>

Admitted(r) == up /\ phase[r] = "new" /\ CircuitAllows /\ ~Overloaded

\* The worker runs: the call goes on with it once the caller's code is done.
UseRunning(r) ==
    /\ Admitted(r) /\ Alive(searchWorker)
    /\ phase' = [phase EXCEPT ![r] = "ready"]
    /\ target' = [target EXCEPT ![r] = searchWorker]
    /\ UNCHANGED <<up, searchWorker, startup, childVars, stopping, timers>>

\* The worker is being started for another call.
JoinStartup(r) ==
    /\ Admitted(r) /\ ~Alive(searchWorker) /\ startup # None
    /\ phase' = [phase EXCEPT ![r] = "waiting"]
    /\ UNCHANGED <<up, searchWorker, startup, childVars, stopping, timers, target>>

\* Fault: the running worker is not used.
MustSpawnAnyway == startup = None

MustSpawn == ~Alive(searchWorker) /\ startup = None

SpawnFor(r) ==
    /\ Admitted(r) /\ MustSpawn
    /\ \E c \in Child :
        /\ proc[c] = "unborn"
        /\ proc' = [proc EXCEPT ![c] = "starting"]
        /\ startup' = c
    /\ phase' = [phase EXCEPT ![r] = "waiting"]
    /\ UNCHANGED <<up, searchWorker, killed, stopping, timers, target>>

\* The child's spawn event: it is the worker, whoever was; the waiting calls go on.
Spawned(c) ==
    /\ Event /\ startup = c /\ proc[c] = "starting"
    /\ proc' = [proc EXCEPT ![c] = "running"]
    /\ searchWorker' = c /\ startup' = None
    /\ phase' = [r \in Request |-> IF phase[r] = "waiting" THEN "ready" ELSE phase[r]]
    /\ target' = [r \in Request |-> IF phase[r] = "waiting" THEN c ELSE target[r]]
    /\ UNCHANGED <<up, killed, stopping, healthVars>>

\* The child's error event instead: the waiting calls fail, and so do the
\* pending ones.
SpawnError(c) ==
    /\ Event /\ startup = c /\ proc[c] = "starting"
    /\ proc' = [proc EXCEPT ![c] = "gone"]
    /\ startup' = None
    /\ searchWorker' = None
    /\ phase' = [r \in Request |-> IF phase[r] \in {"waiting", "pending"}
                                   THEN "failed" ELSE phase[r]]
    /\ UNCHANGED <<up, killed, stopping, healthVars, target>>

\* The call is registered and written to the child.
Send(r) ==
    /\ up /\ phase[r] = "ready"
    /\ phase' = [phase EXCEPT ![r] = "pending"]
    /\ UNCHANGED <<up, searchWorker, startup, childVars, stopping, healthVars, target>>

\* A line of the child answers the call; a result (not an error) shows health.
Answer(r) ==
    /\ Event /\ phase[r] = "pending" /\ proc[target[r]] \in {"running", "dead"}
    /\ \/ /\ phase' = [phase EXCEPT ![r] = "failed"]
          /\ UNCHANGED healthVars
       \/ /\ phase' = [phase EXCEPT ![r] = "answered"]
          /\ restartCount' = 0
          /\ circuitOpen' = IF restartCount > 0 THEN FALSE ELSE circuitOpen
          /\ UNCHANGED timers
    /\ UNCHANGED <<up, searchWorker, startup, childVars, stopping, target>>

\* Fault: one timer for all calls, lost when a second call sets it.
TimeoutShared(r) ==
    /\ Event /\ phase[r] = "pending" /\ In("pending") = {r}
    /\ phase' = [phase EXCEPT ![r] = "failed"]
    /\ UNCHANGED <<up, searchWorker, startup, childVars, stopping, healthVars, target>>

\* The call's timer; the child is not told.
Timeout(r) ==
    /\ Event /\ phase[r] = "pending"
    /\ phase' = [phase EXCEPT ![r] = "failed"]
    /\ UNCHANGED <<up, searchWorker, startup, childVars, stopping, healthVars, target>>

-----------------------------------------------------------------------------
(* The end of a child *)

\* The process ends, by itself or by a signal.
Die(c) ==
    /\ proc[c] = "running"
    /\ proc' = [proc EXCEPT ![c] = "dead"]
    /\ UNCHANGED <<up, searchWorker, startup, killed, stopping, healthVars, callVars>>

\* handleSearchWorkerExit, for any child that was ever the worker, current or
\* not; then the exitHandler of a stop that awaits it.
Exit(c) ==
    /\ Event /\ proc[c] = "dead"
    /\ proc' = [proc EXCEPT ![c] = "gone"]
    /\ Reset
    /\ stopping' = stopping \ {c}
    /\ \E windowOver \in BOOLEAN :
        IF CircuitRefuses(windowOver)
        THEN UNCHANGED healthVars
        ELSE /\ restartCount' = CountAfterCheck + 1
             /\ circuitOpen' = FALSE
             /\ timers' = timers + 1
    /\ UNCHANGED <<up, startup, killed, target>>

\* A scheduled restart: ensureSearchWorker is called without its parameter and
\* throws before it does anything.
TimerFires ==
    /\ Event /\ timers > 0
    /\ timers' = timers - 1
    /\ UNCHANGED <<up, searchWorker, startup, childVars, stopping,
                   restartCount, circuitOpen, callVars>>

-----------------------------------------------------------------------------
(* restartSearchWorker *)

\* set_embedding_runtime finds the worker running and stops it.  No startup is
\* in progress then.
Restart ==
    /\ up /\ Alive(searchWorker)
    /\ killed' = killed \cup {searchWorker}
    /\ stopping' = stopping \cup {searchWorker}
    /\ UNCHANGED <<up, searchWorker, startup, proc, healthVars, callVars>>

\* Five seconds later the child has not exited.  When the stop is over, however
\* it ended, restartSearchWorker calls ensureSearchWorker without its parameter
\* and throws: no worker is started.
StopTimeout(c) ==
    /\ Event /\ c \in stopping
    /\ stopping' = stopping \ {c}
    /\ Reset
    /\ UNCHANGED <<up, startup, childVars, healthVars, target>>

\* The server ends; killSearchWorkerOnExit signals the current child only.
ServerExit ==
    /\ up
    /\ up' = FALSE
    /\ killed' = IF Alive(searchWorker) THEN killed \cup {searchWorker} ELSE killed
    /\ UNCHANGED <<searchWorker, startup, proc, stopping, healthVars, callVars>>

-----------------------------------------------------------------------------

Next ==
    \/ \E r \in Request :
        \/ Refuse(r) \/ UseRunning(r) \/ JoinStartup(r) \/ SpawnFor(r)
        \/ Send(r) \/ Answer(r) \/ Timeout(r)
    \/ \E c \in Child :
        Spawned(c) \/ SpawnError(c) \/ Die(c) \/ Exit(c) \/ StopTimeout(c)
    \/ TimerFires \/ Restart \/ ServerExit

Spec == Init /\ [][Next]_vars

\* The loop delivers its events and timers.
Fairness ==
    /\ \A r \in Request : WF_vars(Send(r)) /\ WF_vars(Timeout(r))
    /\ \A c \in Child : WF_vars(Spawned(c) \/ SpawnError(c)) /\ WF_vars(Exit(c))
    /\ WF_vars(TimerFires)

FairSpec == Spec /\ Fairness

-----------------------------------------------------------------------------
(* Properties that hold *)

\* A call in the table waits for the current child or a stopped one whose exit
\* is still to come, so that an exit rejects it: no call outlives its child,
\* and none is left with an orphan (requestSearchWorker's await).
NoStrandedCall ==
    up => \A r \in In("pending") \cup In("ready") :
            /\ proc[target[r]] \in {"running", "dead"}
            /\ target[r] = searchWorker \/ target[r] \in killed

\* The calls that wait share one startup, of the only child being started, and
\* no usable worker is passed by meanwhile (searchWorkerStartupPromise).
SingleStartup ==
    /\ \A c \in Child : proc[c] = "starting" <=> c = startup
    /\ startup # None => ~Alive(searchWorker)
    /\ In("waiting") # {} => startup # None

\* As long as nobody stops a worker, there is one at most: crashes, failed
\* spawns and concurrent calls never leave two processes.
OneWorkerUnlessStopped ==
    killed = {} => \A c \in Child :
        proc[c] \in {"running", "dead"} => c = searchWorker /\ startup = None

-----------------------------------------------------------------------------
(* What the documents say and the code does not do *)

\* restartPolicy "always": a scheduled restart brings a worker up.
ScheduledRestartRestarts ==
    (timers > 0) ~> (Alive(searchWorker) \/ ~up)

\* maxRestarts 5: the circuit is open once that many restarts were counted.
CircuitOpens == restartCount > MaxRestarts => circuitOpen

\* The server has one search worker: the end of a stopped one leaves its
\* successor in place.
NoOrphan ==
    up => \A c \in Child : Alive(c) => c = searchWorker

\* Backpressure: at most Limit calls are in the table.
PendingBounded == Cardinality(In("pending")) <= Limit

\* A call fails only with its own child.
OthersExitSparesCalls ==
    [][\A c \in Child : Exit(c) =>
          \A r \in In("pending") : target[r] # c => phase'[r] = "pending"]_vars
=============================================================================
