------------------------------ MODULE McpProxy ------------------------------
(***************************************************************************)
(* The HTTP proxy in front of one stdio MCP child:                         *)
(* shared-mcp/singleton-stdio-mcp-proxy.mjs and shared-mcp/proto.          *)
(*                                                                         *)
(* The proxy is one Node process: an action is a whole event handler, and  *)
(* the continuations of settled promises run before the next event         *)
(* (Quiet).  A bootstrap is named by the child it spawns, and so is its    *)
(* "initialize" request: pending holds calls and children.                 *)
(***************************************************************************)
EXTENDS Naturals, FiniteSets

CONSTANTS
    Child,        \* identities of child processes that may be spawned
    Request,      \* JSON-RPC messages clients have outstanding at one time
    None,         \* no child, no promise
    MaxInflight,  \* MAX_INFLIGHT
    MaxAttempts,  \* DEFAULT_BACKOFF.maxAttempts
    GroupKill,    \* whether killTree reaches the child: taskkill does; on POSIX
                  \* kill(-pid) does not, as the child leads no process group
    SmallFrames   \* whether MAX_CHILD_FRAME_BYTES is below the size of a chunk,
                  \* so that one chunk can hold a response and then a violation

ASSUME ProxyAssumption ==
    /\ IsFiniteSet(Child) /\ IsFiniteSet(Request)
    /\ Child \cap Request = {}
    /\ None \notin Child
    /\ MaxInflight \in Nat \ {0}
    /\ MaxAttempts \in Nat
    /\ GroupKill \in BOOLEAN /\ SmallFrames \in BOOLEAN

VARIABLES
    child,         \* the module-level child
    proc,          \* each process: "dead" until its exit event is delivered
    attached,      \* children whose event listeners are still attached
    killed,        \* children with child.killed
    doomed,        \* children a signal was delivered to
    initialized,   \* initialized
    initPromise,   \* the bootstrap callers share, or None
    boot,          \* progress of each bootstrap
    pending,       \* keys of pendingRequests
    sentTo,        \* the child a pending call was written to
    inflight,      \* activeInflight
    call,          \* where each client message is
    awaits,        \* the bootstrap a waiting call awaits
    retries,       \* bootstraps whose failure schedules a restart
    restartTimer,  \* restartTimer is set
    attempts,      \* attemptCounter
    phase          \* life of the proxy process

childVars == <<child, proc, attached, killed, doomed>>
bootVars == <<initialized, initPromise, boot>>
callVars == <<pending, sentTo, inflight, call, awaits>>
restartVars == <<retries, restartTimer, attempts>>
vars == <<childVars, bootVars, callVars, restartVars, phase>>

TypeOK ==
    /\ child \in Child \cup {None}
    /\ proc \in [Child -> {"unborn", "unstarted", "alive", "dead", "exited"}]
    /\ attached \subseteq Child
    /\ killed \subseteq Child
    /\ doomed \subseteq Child
    /\ initialized \in BOOLEAN
    /\ initPromise \in Child \cup {None}
    /\ boot \in [Child -> {"none", "waiting", "answered", "failed", "done", "over"}]
    /\ pending \subseteq Child \cup Request
    /\ sentTo \in [Request -> Child \cup {None}]
    /\ inflight \in 0..MaxInflight
    /\ call \in [Request -> {"idle", "waiting", "resumed", "sent"}]
    /\ awaits \in [Request -> Child \cup {None}]
    /\ retries \in [Child -> SUBSET {"listen", "timer"}]
    /\ restartTimer \in BOOLEAN
    /\ attempts \in 0..MaxAttempts
    /\ phase \in {"starting", "serving", "closing", "exited", "crashed"}

Init ==
    /\ child = None
    /\ proc = [c \in Child |-> "unborn"]
    /\ attached = {} /\ killed = {} /\ doomed = {}
    /\ initialized = FALSE /\ initPromise = None
    /\ boot = [c \in Child |-> "none"]
    /\ pending = {} /\ inflight = 0
    /\ sentTo = [r \in Request |-> None]
    /\ call = [r \in Request |-> "idle"]
    /\ awaits = [r \in Request |-> None]
    /\ retries = [c \in Child |-> {}]
    /\ restartTimer = FALSE /\ attempts = 0
    /\ phase = "starting"

-----------------------------------------------------------------------------
(* State functions *)

Up == phase \notin {"exited", "crashed"}

\* No continuation is queued: the event loop may deliver the next event.
Quiet ==
    /\ Up
    /\ \A r \in Request : call[r] # "resumed"
    /\ \A c \in Child : boot[c] \notin {"answered", "failed"}

\* Fault: any child that runs is usable.
UsableBeforeHandshake == child # None /\ child \notin killed

\* What ensureInitialized tests first.
Usable == initialized /\ child # None /\ child \notin killed

\* ensureInitialized starts a bootstrap of its own.
MustBoot == ~Usable /\ initPromise = None

-----------------------------------------------------------------------------
(* Settling requests *)

\* Fault: the entries are dropped without rejecting their promises.
SettleSilently(xs) ==
    /\ pending' = pending \ xs
    /\ sentTo' = [r \in Request |-> IF r \in xs THEN None ELSE sentTo[r]]
    /\ UNCHANGED call

\* Requests xs leave pendingRequests and their callers have their answer or
\* error (a bootstrap goes on in a continuation, see Stdout and Fail).
Settle(xs) ==
    /\ pending' = pending \ xs
    /\ sentTo' = [r \in Request |-> IF r \in xs THEN None ELSE sentTo[r]]
    /\ call' = [r \in Request |-> IF r \in xs THEN "idle" ELSE call[r]]

\* The bootstraps among the rejected requests xs.
Fail(xs) == boot' = [c \in Child |-> IF c \in xs THEN "failed" ELSE boot[c]]

\* activeInflight after one request settles.
Released == IF inflight > 0 THEN inflight - 1 ELSE 0

\* rejectAllPending.
RejectAllPending == Settle(pending) /\ inflight' = 0

-----------------------------------------------------------------------------
(* The child: killTree, teardownChild, scheduleRestart, spawnChildProcess *)

\* Fault: the child is forgotten without a signal.
KillTreeSkipped(c) == UNCHANGED doomed

KillTree(c) == doomed' = IF GroupKill /\ c # None THEN doomed \cup {c} ELSE doomed

\* teardownChild acts on the child the module holds now.
TeardownChild ==
    /\ initialized' = FALSE /\ initPromise' = None
    /\ RejectAllPending
    /\ child' = None
    /\ attached' = attached \ {child}
    /\ KillTree(child)

\* scheduleRestart: nothing while shutting down or already scheduled; it gives
\* up at the limit.
ScheduleRestart ==
    IF phase = "closing" \/ restartTimer \/ attempts >= MaxAttempts
    THEN UNCHANGED <<restartTimer, attempts>>
    ELSE restartTimer' = TRUE /\ attempts' = attempts + 1

ClearRestartTimer == restartTimer' = FALSE

\* A new process (or an executable that does not start: only its "error" event
\* is logged), and the "initialize" request bootstrapChild sends it; the
\* inflight limit rejects that request too.
Boot(c, watchers) ==
    /\ proc[c] = "unborn"
    /\ \E p \in {"alive", "unstarted"} : proc' = [proc EXCEPT ![c] = p]
    /\ child' = c
    /\ attached' = attached \cup {c}
    /\ ClearRestartTimer
    /\ initPromise' = c
    /\ retries' = [retries EXCEPT ![c] = watchers]
    /\ IF inflight < MaxInflight
       THEN /\ boot' = [boot EXCEPT ![c] = "waiting"]
            /\ pending' = pending \cup {c}
            /\ inflight' = inflight + 1
       ELSE /\ boot' = [boot EXCEPT ![c] = "failed"]
            /\ UNCHANGED <<pending, inflight>>
    /\ UNCHANGED <<killed, doomed, initialized, sentTo>>

\* A write to a child that died but whose exit is not yet delivered is an
\* "error" event of child.stdin nobody listens to: uncaughtException exits.
Write(c) == phase' \in {phase} \cup (IF proc[c] = "dead" THEN {"crashed"} ELSE {})

-----------------------------------------------------------------------------
(* ensureInitialized and its callers *)

\* server.listen's callback: the first bootstrap.
Listen ==
    /\ phase = "starting"
    /\ phase' = "serving"
    /\ \E c \in Child : Boot(c, {"listen"})
    /\ UNCHANGED <<call, awaits, attempts>>

\* A client's message was read and reaches handleSingleRpc.
Arrives(r) == Quiet /\ phase # "starting" /\ call[r] = "idle"

\* ... which finds an initialized child,
RequestReady(r) ==
    /\ Arrives(r) /\ Usable
    /\ call' = [call EXCEPT ![r] = "resumed"]
    /\ UNCHANGED <<childVars, bootVars, pending, sentTo, inflight, awaits, restartVars, phase>>

\* ... or shares the bootstrap in progress,
RequestShare(r) ==
    /\ Arrives(r) /\ ~Usable /\ initPromise # None
    /\ call' = [call EXCEPT ![r] = "waiting"]
    /\ awaits' = [awaits EXCEPT ![r] = initPromise]
    /\ UNCHANGED <<childVars, bootVars, pending, sentTo, inflight, restartVars, phase>>

\* ... or starts one: on demand, also after the automatic restarts gave up, and
\* also while closing, for a body still being read.
RequestBoot(r) ==
    /\ Arrives(r) /\ MustBoot
    /\ \E c \in Child : Boot(c, {}) /\ awaits' = [awaits EXCEPT ![r] = c]
    /\ call' = [call EXCEPT ![r] = "waiting"]
    /\ UNCHANGED <<attempts, phase>>

\* The calls that await bootstrap c, moved to s.
Wake(c, s) ==
    /\ call' = [r \in Request |->
                  IF call[r] = "waiting" /\ awaits[r] = c THEN s ELSE call[r]]
    /\ awaits' = [r \in Request |-> IF awaits[r] = c THEN None ELSE awaits[r]]

\* bootstrapChild and ensureInitialized after a good initialize response.
BootOk(c) ==
    /\ Up /\ boot[c] = "answered"
    /\ boot' = [boot EXCEPT ![c] = "done"]
    /\ initialized' = TRUE /\ initPromise' = None
    /\ Wake(c, "resumed")
    /\ retries' = [retries EXCEPT ![c] = {}]
    /\ attempts' = IF "timer" \in retries[c] THEN 0 ELSE attempts
    /\ Write(c)
    /\ UNCHANGED <<childVars, pending, sentTo, inflight, restartTimer>>

\* ensureInitialized's catch and finally, then the catch of the restart timer
\* or of server.listen: only they schedule another attempt.
BootFailed(c) ==
    /\ Up /\ boot[c] = "failed"
    /\ initialized' = FALSE /\ initPromise' = None
    /\ boot' = [x \in Child |-> IF x = c THEN "over"
                                ELSE IF x \in pending THEN "failed" ELSE boot[x]]
    /\ pending' = {} /\ inflight' = 0
    /\ sentTo' = [r \in Request |-> None]
    /\ call' = [r \in Request |->
                  IF r \in pending \/ (call[r] = "waiting" /\ awaits[r] = c)
                  THEN "idle" ELSE call[r]]
    /\ awaits' = [r \in Request |-> IF awaits[r] = c THEN None ELSE awaits[r]]
    /\ child' = None
    /\ attached' = attached \ {child}
    /\ KillTree(child)
    /\ IF retries[c] # {} THEN ScheduleRestart ELSE UNCHANGED <<restartTimer, attempts>>
    /\ retries' = [retries EXCEPT ![c] = {}]
    /\ UNCHANGED <<proc, killed, phase>>

\* A resumed call that is a request is written to the child, under the limit.
Send(r) ==
    /\ Up /\ call[r] = "resumed"
    /\ IF child # None /\ inflight < MaxInflight
       THEN /\ pending' = pending \cup {r}
            /\ sentTo' = [sentTo EXCEPT ![r] = child]
            /\ inflight' = inflight + 1
            /\ call' = [call EXCEPT ![r] = "sent"]
            /\ Write(child)
       ELSE /\ call' = [call EXCEPT ![r] = "idle"]
            /\ UNCHANGED <<pending, sentTo, inflight, phase>>
    /\ UNCHANGED <<childVars, bootVars, awaits, restartVars>>

\* A resumed initialize has its result; a resumed notification is written.
Finish(r) ==
    /\ Up /\ call[r] = "resumed"
    /\ call' = [call EXCEPT ![r] = "idle"]
    /\ IF child # None THEN Write(child) ELSE UNCHANGED phase
    /\ UNCHANGED <<childVars, bootVars, pending, sentTo, inflight, awaits, restartVars>>

-----------------------------------------------------------------------------
(* Events: the child's output, its end, timers, signals *)

Talks(c) == c \in attached /\ proc[c] \in {"alive", "dead"}

\* A response to a pending call.
Answer(r) ==
    /\ Quiet
    /\ r \in pending /\ Talks(sentTo[r])
    /\ Settle({r})
    /\ inflight' = Released
    /\ UNCHANGED <<childVars, bootVars, awaits, restartVars, phase>>

\* A response, good or an error, to a pending initialize.
BootAnswer(c) ==
    /\ Quiet
    /\ c \in pending /\ Talks(c)
    /\ \E b \in {"answered", "failed"} : boot' = [boot EXCEPT ![c] = b]
    /\ Settle({c})
    /\ inflight' = Released
    /\ UNCHANGED <<childVars, initialized, initPromise, awaits, restartVars, phase>>

\* child.kill('SIGKILL'), unless it was killed before or has no process.
KillChild ==
    IF child # None /\ child \notin killed /\ proc[child] \in {"alive", "dead"}
    THEN killed' = killed \cup {child} /\ doomed' = doomed \cup {child}
    ELSE UNCHANGED <<killed, doomed>>

\* A chunk from child c (the current one or one that still has listeners, its
\* pipe outlives it) exceeds the frame limit: everything pending is rejected
\* and the current child is killed.  With small frames the same chunk may first
\* have answered the handshake, whose continuation then runs.
Violation(c) ==
    /\ Quiet
    /\ c \in attached /\ proc[c] \in {"alive", "dead", "exited"}
    /\ \E answered \in SUBSET IF SmallFrames THEN pending \cap {c} ELSE {} :
        boot' = [x \in Child |-> IF x \in answered THEN "answered"
                                 ELSE IF x \in pending THEN "failed" ELSE boot[x]]
    /\ initialized' = FALSE
    /\ RejectAllPending
    /\ KillChild
    /\ UNCHANGED <<child, proc, attached, initPromise, awaits, restartVars, phase>>

\* The process ends, by itself or by a signal.
Die(c) ==
    /\ Quiet
    /\ proc[c] = "alive"
    /\ proc' = [proc EXCEPT ![c] = "dead"]
    /\ UNCHANGED <<child, attached, killed, doomed, bootVars, callVars, restartVars, phase>>

\* handleChildExit, for any child whose listener is attached: it tears down the
\* current child, whichever that is.
Exit(c) ==
    /\ Quiet
    /\ proc[c] = "dead" /\ c \in attached
    /\ proc' = [proc EXCEPT ![c] = "exited"]
    /\ TeardownChild
    /\ Fail(pending)
    /\ ScheduleRestart
    /\ UNCHANGED <<killed, awaits, retries, phase>>

\* The exit of a child that was torn down is not listened to.
ExitUnheard(c) ==
    /\ Quiet
    /\ proc[c] = "dead" /\ c \notin attached
    /\ proc' = [proc EXCEPT ![c] = "exited"]
    /\ UNCHANGED <<child, attached, killed, doomed, bootVars, callVars, restartVars, phase>>

\* Fault: the slot is not given back.
RequestTimeoutKeepingSlot(r) ==
    /\ Quiet
    /\ r \in pending
    /\ Settle({r})
    /\ UNCHANGED <<childVars, bootVars, inflight, awaits, restartVars, phase>>

\* The request timer.
RequestTimeout(r) ==
    /\ Quiet
    /\ r \in pending
    /\ Settle({r})
    /\ inflight' = Released
    /\ UNCHANGED <<childVars, bootVars, awaits, restartVars, phase>>

\* The startup timer: the request timer of an initialize.
StartupTimeout(c) ==
    /\ Quiet
    /\ c \in pending
    /\ Settle({c}) /\ Fail({c})
    /\ inflight' = Released
    /\ UNCHANGED <<childVars, initialized, initPromise, awaits, restartVars, phase>>

\* The restart timer: ensureInitialized, whose success resets the counter.
TimerFires ==
    /\ Quiet /\ restartTimer
    /\ IF MustBoot
       THEN /\ \E c \in Child : Boot(c, {"timer"})
            /\ UNCHANGED attempts
       ELSE /\ restartTimer' = FALSE
            /\ attempts' = IF Usable THEN 0 ELSE attempts
            /\ retries' = [c \in Child |-> IF ~Usable /\ c = initPromise
                                           THEN retries[c] \cup {"timer"} ELSE retries[c]]
            /\ UNCHANGED <<childVars, bootVars, pending, sentTo, inflight>>
    /\ UNCHANGED <<call, awaits, phase>>

\* SIGINT or SIGTERM.
Shutdown ==
    /\ Quiet /\ phase = "serving"
    /\ phase' = "closing"
    /\ ClearRestartTimer
    /\ KillTree(child)
    /\ UNCHANGED <<child, proc, attached, killed, bootVars, callVars, retries, attempts>>

\* The exit timer of shutdown.
ProcessExit ==
    /\ Quiet /\ phase = "closing"
    /\ phase' = "exited"
    /\ UNCHANGED <<childVars, bootVars, callVars, restartVars>>

Next ==
    \/ \E r \in Request : \/ RequestReady(r) \/ RequestShare(r) \/ RequestBoot(r)
                          \/ Send(r) \/ Finish(r) \/ Answer(r) \/ RequestTimeout(r)
    \/ \E c \in Child : \/ BootOk(c) \/ BootFailed(c) \/ BootAnswer(c) \/ StartupTimeout(c)
                        \/ Violation(c) \/ Die(c) \/ Exit(c) \/ ExitUnheard(c)
    \/ Listen \/ TimerFires \/ Shutdown \/ ProcessExit

Spec == Init /\ [][Next]_vars

\* Node runs queued continuations and visits its timers however often other
\* events keep it busy.
Fairness ==
    /\ \A r \in Request : WF_vars(Send(r) \/ Finish(r)) /\ SF_vars(RequestTimeout(r))
    /\ \A c \in Child : /\ WF_vars(BootOk(c)) /\ WF_vars(BootFailed(c))
                        /\ SF_vars(StartupTimeout(c))

FairSpec == Spec /\ Fairness

-----------------------------------------------------------------------------
(* Properties that hold *)

\* activeInflight is the number of requests that will still settle, whatever
\* mix of answers, timeouts, exits and protocol violations settled the others:
\* a leaked slot would close the proxy to its clients for good.
InflightMatches == inflight = Cardinality(pending)

\* At most one bootstrap waits for its handshake, it is the one new callers
\* share, and its child is the current one (ensureInitialized, initPromise).
SingleFlight ==
    \A c \in Child : boot[c] \in {"waiting", "answered"} =>
        /\ initPromise = c /\ child = c
        /\ \A d \in Child \ {c} : boot[d] \notin {"waiting", "answered"}

\* A scheduled restart never meets a child or a bootstrap: every spawn clears
\* the timer and every path that sets it has torn the child down
\* (spawnChildProcess, handleChildExit, scheduleRestart).
RestartNeverRaces == restartTimer => child = None /\ initPromise = None

\* A call in flight was written to the current child, after its handshake: no
\* call waits on a child that was replaced, and none overtakes "initialize"
\* (forwardRequest awaits ensureInitialized).
HandshakeFirst ==
    \A r \in pending \cap Request : sentTo[r] = child /\ boot[child] = "done"

Unsignalled == {c \in Child : proc[c] = "alive" /\ c \notin doomed}

\* The proxy owns one child: every other process still alive has been sent a
\* signal (teardownChild and killTree before each spawn).
OneLiveChild == Cardinality(Unsignalled) <= 1

\* Every client message is answered or rejected, unless the proxy ends.
CallSettles == \A r \in Request : (call[r] # "idle") ~> (call[r] = "idle" \/ ~Up)

-----------------------------------------------------------------------------
(* What the documentation says and the code does not do *)

\* "The proxy health endpoint reports healthy only when the stdio child is
\* initialized and alive."  Usable is also what /healthz tests.
HealthyIsInitialized == Usable => boot[child] = "done"

\* "Shutdown closes the HTTP server and terminates the child process tree."
ShutdownEndsChildren == phase = "exited" => Unsignalled = {}

\* "Restart limits open the proxy circuit rather than spawning duplicate
\* children": once the restarts gave up, no step spawns a child.
CircuitOpen ==
    /\ phase = "serving" /\ Quiet
    /\ attempts = MaxAttempts /\ ~restartTimer
    /\ child = None

CircuitStaysOpen == [][CircuitOpen => child' = None]_vars

\* "restart scheduling after unexpected child failure": with the child gone and
\* attempts left, a restart is scheduled.
FailureIsRescheduled ==
    phase = "serving" /\ Quiet /\ child = None /\ attempts < MaxAttempts => restartTimer

\* "Reset the counter on a successful (no-throw) ensureInitialized".
SuccessResetsAttempts == Quiet /\ Usable => attempts = 0

\* "Unexpected child exit schedules a bounded restart": a child that dies does
\* not take the proxy with it.
ProxySurvivesChild == phase # "crashed"
=============================================================================
