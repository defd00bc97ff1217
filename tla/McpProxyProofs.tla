--------------------------- MODULE McpProxyProofs ---------------------------
(***************************************************************************)
(* Proofs about McpProxy for every number of children, calls and limits,   *)
(* and about DailyLog for every number of builds and batches.             *)
(***************************************************************************)
EXTENDS McpProxy, DailyLog, Subsequence, TLAPS

\* A bootstrap's initialize is pending exactly while it waits.
PendingBoots == \A c \in Child : c \in pending <=> boot[c] = "waiting"

\* A call is pending only after it was sent, to some child.
PendingCalls == \A r \in Request : r \in pending => call[r] = "sent" /\ sentTo[r] \in Child

\* Nothing refers to a child that was not spawned.
UnbornUnused ==
    \A c \in Child : proc[c] = "unborn" =>
        boot[c] = "none" /\ c # child /\ c \notin killed /\ c \notin attached

\* A good and a failed handshake are never queued together.
OneOutcome == \A c, d \in Child : boot[c] = "answered" => boot[d] # "failed"

\* Before server.listen's callback nothing has happened.
NothingBeforeListen ==
    phase = "starting" =>
        /\ child = None /\ initPromise = None /\ ~initialized /\ ~restartTimer
        /\ pending = {}
        /\ \A c \in Child : boot[c] = "none" /\ proc[c] = "unborn"
        /\ \A r \in Request : call[r] = "idle"

\* The inductive invariant on control; the counter is added below.
ControlInv ==
    /\ TypeOK
    /\ PendingBoots /\ PendingCalls /\ UnbornUnused
    /\ SingleFlight /\ RestartNeverRaces
    /\ OneOutcome /\ NothingBeforeListen

LEMMA ControlInit == Init => ControlInv
<1> SUFFICES ASSUME Init PROVE ControlInv
  OBVIOUS
<1> USE ProxyAssumption DEF Init
<1>1. TypeOK
  <2>1. retries \in [Child -> SUBSET {"listen", "timer"}]
    OBVIOUS
  <2>2. inflight \in 0..MaxInflight /\ attempts \in 0..MaxAttempts
    OBVIOUS
  <2>3. QED BY <2>1, <2>2 DEF TypeOK
<1>2. PendingBoots /\ PendingCalls /\ UnbornUnused
  BY DEF PendingBoots, PendingCalls, UnbornUnused
<1>3. SingleFlight /\ RestartNeverRaces /\ OneOutcome /\ NothingBeforeListen
  BY DEF SingleFlight, RestartNeverRaces, OneOutcome, NothingBeforeListen
<1>4. QED BY <1>1, <1>2, <1>3 DEF ControlInv

\* Spawning keeps the invariant wherever no bootstrap is in progress.
LEMMA BootKeeps ==
    ASSUME ControlInv, NEW c \in Child, NEW w \in SUBSET {"listen", "timer"}, Boot(c, w),
           initPromise = None, \A d \in Child : boot[d] \notin {"answered", "failed"},
           call' \in [Request -> {"idle", "waiting", "resumed", "sent"}],
           awaits' \in [Request -> Child \cup {None}],
           \A r \in Request : r \in pending => call'[r] = call[r],
           attempts' = attempts, phase' \in {"serving", "closing", "crashed"}
    PROVE  ControlInv'
<1> USE ProxyAssumption
<1>1. TypeOK'
  <2>1. inflight' \in 0..MaxInflight
    BY DEF ControlInv, TypeOK, Boot
  <2>2. retries' \in [Child -> SUBSET {"listen", "timer"}]
    BY DEF ControlInv, TypeOK, Boot
  <2>3. boot' \in [Child -> {"none", "waiting", "answered", "failed", "done", "over"}]
    BY DEF ControlInv, TypeOK, Boot
  <2>4. proc' \in [Child -> {"unborn", "unstarted", "alive", "dead", "exited"}]
    BY DEF ControlInv, TypeOK, Boot
  <2>5. pending' \subseteq Child \cup Request
    BY DEF ControlInv, TypeOK, Boot
  <2>6. QED BY <2>1, <2>2, <2>3, <2>4, <2>5 DEF ControlInv, TypeOK, Boot, ClearRestartTimer
<1>2. PendingBoots' /\ PendingCalls'
  BY DEF ControlInv, TypeOK, PendingBoots, PendingCalls, UnbornUnused, Boot
<1>3. UnbornUnused'
  BY DEF ControlInv, TypeOK, UnbornUnused, Boot
<1>4. SingleFlight'
  BY DEF ControlInv, TypeOK, SingleFlight, Boot
<1>5. RestartNeverRaces'
  BY DEF RestartNeverRaces, Boot, ClearRestartTimer
<1>6. OneOutcome' /\ NothingBeforeListen'
  BY DEF ControlInv, TypeOK, OneOutcome, NothingBeforeListen, Boot
<1>7. QED BY <1>1, <1>2, <1>3, <1>4, <1>5, <1>6 DEF ControlInv

\* scheduleRestart stays within its limit.
LEMMA ScheduleRestartTypes ==
    ASSUME restartTimer \in BOOLEAN, attempts \in 0..MaxAttempts, ScheduleRestart
    PROVE  restartTimer' \in BOOLEAN /\ attempts' \in 0..MaxAttempts
<1>1. CASE phase = "closing" \/ restartTimer \/ attempts >= MaxAttempts
  <2>1. UNCHANGED <<restartTimer, attempts>>
    BY <1>1, Zenon DEF ScheduleRestart
  <2>2. QED BY <2>1
<1>2. CASE ~(phase = "closing" \/ restartTimer \/ attempts >= MaxAttempts)
  <2>1. restartTimer' = TRUE /\ attempts' = attempts + 1
    BY <1>2, Zenon DEF ScheduleRestart
  <2>2. ~(attempts >= MaxAttempts)
    BY <1>2, Zenon
  <2>3. QED BY <2>1, <2>2, ProxyAssumption
<1>3. QED BY <1>1, <1>2

\* Every action but the three that spawn keeps the invariant.
LEMMA RequestReadyKeeps ==
    ASSUME ControlInv, NEW r \in Request, RequestReady(r)
    PROVE  ControlInv'
<1> USE ProxyAssumption DEF ControlInv
<1>1. TypeOK'
  BY DEF TypeOK, RequestReady, Arrives, childVars, bootVars, restartVars, Usable, Quiet, Up
<1>2. PendingBoots' /\ PendingCalls'
  BY DEF TypeOK, PendingBoots, PendingCalls, RequestReady, Arrives, childVars, bootVars, restartVars, Usable, Quiet, Up
<1>3. UnbornUnused'
  BY DEF TypeOK, UnbornUnused, PendingBoots, RequestReady, Arrives, childVars, bootVars, restartVars, Usable, Quiet, Up
<1>4. SingleFlight' /\ RestartNeverRaces'
  BY DEF TypeOK, PendingBoots, SingleFlight, RestartNeverRaces, RequestReady, Arrives, childVars, bootVars, restartVars, Usable, Quiet, Up
<1>5. OneOutcome' /\ NothingBeforeListen'
  BY DEF TypeOK, PendingBoots, SingleFlight, OneOutcome, NothingBeforeListen, RequestReady, Arrives, childVars, bootVars, restartVars, Usable, Quiet, Up
<1>6. QED BY <1>1, <1>2, <1>3, <1>4, <1>5

LEMMA RequestShareKeeps ==
    ASSUME ControlInv, NEW r \in Request, RequestShare(r)
    PROVE  ControlInv'
<1> USE ProxyAssumption DEF ControlInv
<1>1. TypeOK'
  BY DEF TypeOK, RequestShare, Arrives, childVars, bootVars, restartVars, Usable, Quiet, Up
<1>2. PendingBoots' /\ PendingCalls'
  BY DEF TypeOK, PendingBoots, PendingCalls, RequestShare, Arrives, childVars, bootVars, restartVars, Usable, Quiet, Up
<1>3. UnbornUnused'
  BY DEF TypeOK, UnbornUnused, PendingBoots, RequestShare, Arrives, childVars, bootVars, restartVars, Usable, Quiet, Up
<1>4. SingleFlight' /\ RestartNeverRaces'
  BY DEF TypeOK, PendingBoots, SingleFlight, RestartNeverRaces, RequestShare, Arrives, childVars, bootVars, restartVars, Usable, Quiet, Up
<1>5. OneOutcome' /\ NothingBeforeListen'
  BY DEF TypeOK, PendingBoots, SingleFlight, OneOutcome, NothingBeforeListen, RequestShare, Arrives, childVars, bootVars, restartVars, Usable, Quiet, Up
<1>6. QED BY <1>1, <1>2, <1>3, <1>4, <1>5

LEMMA SendKeeps ==
    ASSUME ControlInv, NEW r \in Request, Send(r)
    PROVE  ControlInv'
<1> USE ProxyAssumption DEF ControlInv
<1>1. TypeOK'
  BY DEF TypeOK, Send, childVars, bootVars, restartVars, Write, Up
<1>2. PendingBoots' /\ PendingCalls'
  BY DEF TypeOK, PendingBoots, PendingCalls, Send, childVars, bootVars, restartVars, Write, Up
<1>3. UnbornUnused'
  BY DEF TypeOK, UnbornUnused, PendingBoots, Send, childVars, bootVars, restartVars, Write, Up
<1>4. SingleFlight' /\ RestartNeverRaces'
  BY DEF TypeOK, PendingBoots, SingleFlight, RestartNeverRaces, Send, childVars, bootVars, restartVars, Write, Up
<1>5. OneOutcome' /\ NothingBeforeListen'
  BY DEF TypeOK, PendingBoots, SingleFlight, OneOutcome, NothingBeforeListen, Send, childVars, bootVars, restartVars, Write, Up
<1>6. QED BY <1>1, <1>2, <1>3, <1>4, <1>5

LEMMA FinishKeeps ==
    ASSUME ControlInv, NEW r \in Request, Finish(r)
    PROVE  ControlInv'
<1> USE ProxyAssumption DEF ControlInv
<1>1. TypeOK'
  BY DEF TypeOK, Finish, childVars, bootVars, restartVars, Write, Up
<1>2. PendingBoots' /\ PendingCalls'
  BY DEF TypeOK, PendingBoots, PendingCalls, Finish, childVars, bootVars, restartVars, Write, Up
<1>3. UnbornUnused'
  BY DEF TypeOK, UnbornUnused, PendingBoots, Finish, childVars, bootVars, restartVars, Write, Up
<1>4. SingleFlight' /\ RestartNeverRaces'
  BY DEF TypeOK, PendingBoots, SingleFlight, RestartNeverRaces, Finish, childVars, bootVars, restartVars, Write, Up
<1>5. OneOutcome' /\ NothingBeforeListen'
  BY DEF TypeOK, PendingBoots, SingleFlight, OneOutcome, NothingBeforeListen, Finish, childVars, bootVars, restartVars, Write, Up
<1>6. QED BY <1>1, <1>2, <1>3, <1>4, <1>5

LEMMA AnswerKeeps ==
    ASSUME ControlInv, NEW r \in Request, Answer(r)
    PROVE  ControlInv'
<1> USE ProxyAssumption DEF ControlInv
<1>1. TypeOK'
  BY DEF TypeOK, Answer, childVars, bootVars, restartVars, Quiet, Settle, Released
<1>2. PendingBoots' /\ PendingCalls'
  BY DEF TypeOK, PendingBoots, PendingCalls, Answer, childVars, bootVars, restartVars, Quiet, Settle, Released
<1>3. UnbornUnused'
  BY DEF TypeOK, UnbornUnused, PendingBoots, Answer, childVars, bootVars, restartVars, Quiet, Settle, Released
<1>4. SingleFlight' /\ RestartNeverRaces'
  BY DEF TypeOK, PendingBoots, SingleFlight, RestartNeverRaces, Answer, childVars, bootVars, restartVars, Quiet, Settle, Released
<1>5. OneOutcome' /\ NothingBeforeListen'
  BY DEF TypeOK, PendingBoots, SingleFlight, OneOutcome, NothingBeforeListen, Answer, childVars, bootVars, restartVars, Quiet, Settle, Released
<1>6. QED BY <1>1, <1>2, <1>3, <1>4, <1>5

LEMMA RequestTimeoutKeeps ==
    ASSUME ControlInv, NEW r \in Request, RequestTimeout(r)
    PROVE  ControlInv'
<1> USE ProxyAssumption DEF ControlInv
<1>1. TypeOK'
  BY DEF TypeOK, RequestTimeout, childVars, bootVars, restartVars, Quiet, Settle, Released
<1>2. PendingBoots' /\ PendingCalls'
  BY DEF TypeOK, PendingBoots, PendingCalls, RequestTimeout, childVars, bootVars, restartVars, Quiet, Settle, Released
<1>3. UnbornUnused'
  BY DEF TypeOK, UnbornUnused, PendingBoots, RequestTimeout, childVars, bootVars, restartVars, Quiet, Settle, Released
<1>4. SingleFlight' /\ RestartNeverRaces'
  BY DEF TypeOK, PendingBoots, SingleFlight, RestartNeverRaces, RequestTimeout, childVars, bootVars, restartVars, Quiet, Settle, Released
<1>5. OneOutcome' /\ NothingBeforeListen'
  BY DEF TypeOK, PendingBoots, SingleFlight, OneOutcome, NothingBeforeListen, RequestTimeout, childVars, bootVars, restartVars, Quiet, Settle, Released
<1>6. QED BY <1>1, <1>2, <1>3, <1>4, <1>5

LEMMA BootOkKeeps ==
    ASSUME ControlInv, NEW c \in Child, BootOk(c)
    PROVE  ControlInv'
<1> USE ProxyAssumption DEF ControlInv
<1>1. TypeOK'
  BY DEF TypeOK, BootOk, childVars, Wake, Write, Up
<1>2. PendingBoots' /\ PendingCalls'
  BY DEF TypeOK, PendingBoots, PendingCalls, BootOk, childVars, Wake, Write, Up
<1>3. UnbornUnused'
  BY DEF TypeOK, UnbornUnused, PendingBoots, BootOk, childVars, Wake, Write, Up
<1>4. SingleFlight' /\ RestartNeverRaces'
  BY DEF TypeOK, PendingBoots, SingleFlight, RestartNeverRaces, BootOk, childVars, Wake, Write, Up
<1>5. OneOutcome' /\ NothingBeforeListen'
  BY DEF TypeOK, PendingBoots, SingleFlight, OneOutcome, NothingBeforeListen, BootOk, childVars, Wake, Write, Up
<1>6. QED BY <1>1, <1>2, <1>3, <1>4, <1>5

LEMMA BootFailedKeeps ==
    ASSUME ControlInv, NEW c \in Child, BootFailed(c)
    PROVE  ControlInv'
<1> USE ProxyAssumption DEF ControlInv
<1>1. TypeOK'
  <2>1. restartTimer' \in BOOLEAN /\ attempts' \in 0..MaxAttempts
    BY ScheduleRestartTypes DEF TypeOK, BootFailed
  <2>2. boot' \in [Child -> {"none", "waiting", "answered", "failed", "done", "over"}]
    BY DEF TypeOK, BootFailed, Fail
  <2>3. /\ sentTo' \in [Request -> Child \cup {None}]
       /\ call' \in [Request -> {"idle", "waiting", "resumed", "sent"}]
    BY DEF TypeOK, BootFailed, KillTree
  <2>4. killed' \subseteq Child /\ doomed' \subseteq Child
    BY DEF TypeOK, BootFailed, KillTree
  <2>5. /\ proc' \in [Child -> {"unborn", "unstarted", "alive", "dead", "exited"}]
       /\ retries' \in [Child -> SUBSET {"listen", "timer"}]
       /\ awaits' \in [Request -> Child \cup {None}]
    BY DEF TypeOK, BootFailed, KillTree
  <2>6. inflight' \in 0..MaxInflight
    BY DEF BootFailed
  <2>7. pending' = {} /\ initialized' \in BOOLEAN /\ initPromise' \in Child \cup {None}
    BY DEF TypeOK, BootFailed
  <2>8. /\ child' \in Child \cup {None} /\ attached' \subseteq Child
       /\ phase' \in {"starting", "serving", "closing", "exited", "crashed"}
    BY DEF TypeOK, BootFailed
  <2>9. QED BY <2>1, <2>2, <2>3, <2>4, <2>5, <2>6, <2>7, <2>8 DEF TypeOK
<1>2. PendingBoots' /\ PendingCalls'
  BY DEF TypeOK, PendingBoots, PendingCalls, BootFailed, KillTree, ScheduleRestart, Up
<1>3. UnbornUnused'
  BY DEF TypeOK, UnbornUnused, PendingBoots, BootFailed, KillTree, ScheduleRestart, Up
<1>4. SingleFlight' /\ RestartNeverRaces'
  <2>1. \A x \in Child : boot'[x] \notin {"waiting", "answered"}
    BY DEF TypeOK, PendingBoots, OneOutcome, BootFailed
  <2>2. child' = None /\ initPromise' = None
    BY DEF BootFailed
  <2>3. QED BY <2>1, <2>2 DEF SingleFlight, RestartNeverRaces
<1>5. OneOutcome' /\ NothingBeforeListen'
  BY DEF TypeOK, PendingBoots, SingleFlight, OneOutcome, NothingBeforeListen, BootFailed, KillTree, ScheduleRestart, Up
<1>6. QED BY <1>1, <1>2, <1>3, <1>4, <1>5

LEMMA BootAnswerKeeps ==
    ASSUME ControlInv, NEW c \in Child, BootAnswer(c)
    PROVE  ControlInv'
<1> USE ProxyAssumption DEF ControlInv
<1>1. TypeOK'
  BY DEF TypeOK, BootAnswer, childVars, restartVars, Quiet, Settle, Released
<1>2. PendingBoots' /\ PendingCalls'
  BY DEF TypeOK, PendingBoots, PendingCalls, BootAnswer, childVars, restartVars, Quiet, Settle, Released
<1>3. UnbornUnused'
  BY DEF TypeOK, UnbornUnused, PendingBoots, BootAnswer, childVars, restartVars, Quiet, Settle, Released
<1>4. SingleFlight' /\ RestartNeverRaces'
  BY DEF TypeOK, PendingBoots, SingleFlight, RestartNeverRaces, BootAnswer, childVars, restartVars, Quiet, Settle, Released
<1>5. OneOutcome' /\ NothingBeforeListen'
  BY DEF TypeOK, PendingBoots, SingleFlight, OneOutcome, NothingBeforeListen, BootAnswer, childVars, restartVars, Quiet, Settle, Released
<1>6. QED BY <1>1, <1>2, <1>3, <1>4, <1>5

LEMMA StartupTimeoutKeeps ==
    ASSUME ControlInv, NEW c \in Child, StartupTimeout(c)
    PROVE  ControlInv'
<1> USE ProxyAssumption DEF ControlInv
<1>1. TypeOK'
  BY DEF TypeOK, StartupTimeout, childVars, restartVars, Quiet, Settle, Fail, Released
<1>2. PendingBoots' /\ PendingCalls'
  BY DEF TypeOK, PendingBoots, PendingCalls, StartupTimeout, childVars, restartVars, Quiet, Settle, Fail, Released
<1>3. UnbornUnused'
  BY DEF TypeOK, UnbornUnused, PendingBoots, StartupTimeout, childVars, restartVars, Quiet, Settle, Fail, Released
<1>4. SingleFlight' /\ RestartNeverRaces'
  BY DEF TypeOK, PendingBoots, SingleFlight, RestartNeverRaces, StartupTimeout, childVars, restartVars, Quiet, Settle, Fail, Released
<1>5. OneOutcome' /\ NothingBeforeListen'
  BY DEF TypeOK, PendingBoots, SingleFlight, OneOutcome, NothingBeforeListen, StartupTimeout, childVars, restartVars, Quiet, Settle, Fail, Released
<1>6. QED BY <1>1, <1>2, <1>3, <1>4, <1>5

LEMMA ViolationKeeps ==
    ASSUME ControlInv, NEW c \in Child, Violation(c)
    PROVE  ControlInv'
<1> USE ProxyAssumption DEF ControlInv
<1>1. TypeOK'
  <2>1. restartTimer' \in BOOLEAN /\ attempts' \in 0..MaxAttempts
    BY DEF TypeOK, restartVars, Violation
  <2>2. boot' \in [Child -> {"none", "waiting", "answered", "failed", "done", "over"}]
    BY DEF TypeOK, Violation, Fail
  <2>3. /\ sentTo' \in [Request -> Child \cup {None}]
       /\ call' \in [Request -> {"idle", "waiting", "resumed", "sent"}]
    BY DEF TypeOK, Violation, RejectAllPending, Settle, KillChild, childVars, restartVars
  <2>4. killed' \subseteq Child /\ doomed' \subseteq Child
    BY DEF TypeOK, Violation, RejectAllPending, Settle, KillChild, childVars, restartVars
  <2>5. /\ proc' \in [Child -> {"unborn", "unstarted", "alive", "dead", "exited"}]
       /\ retries' \in [Child -> SUBSET {"listen", "timer"}]
       /\ awaits' \in [Request -> Child \cup {None}]
    BY DEF TypeOK, Violation, RejectAllPending, Settle, KillChild, childVars, restartVars
  <2>6. inflight' \in 0..MaxInflight
    BY DEF Violation, RejectAllPending, Settle, childVars, restartVars
  <2>7. pending' = {} /\ initialized' \in BOOLEAN /\ initPromise' \in Child \cup {None}
    BY DEF TypeOK, Violation, RejectAllPending, Settle, childVars, restartVars
  <2>8. /\ child' \in Child \cup {None} /\ attached' \subseteq Child
       /\ phase' \in {"starting", "serving", "closing", "exited", "crashed"}
    BY DEF TypeOK, Violation, RejectAllPending, Settle, childVars, restartVars
  <2>9. QED BY <2>1, <2>2, <2>3, <2>4, <2>5, <2>6, <2>7, <2>8 DEF TypeOK
<1>2. PendingBoots' /\ PendingCalls'
  BY DEF TypeOK, PendingBoots, PendingCalls, Violation, childVars, restartVars, Quiet, RejectAllPending, Settle, KillChild
<1>3. UnbornUnused'
  BY DEF TypeOK, UnbornUnused, PendingBoots, Violation, childVars, restartVars, Quiet, RejectAllPending, Settle, KillChild
<1>4. SingleFlight' /\ RestartNeverRaces'
  BY DEF TypeOK, PendingBoots, SingleFlight, RestartNeverRaces, Violation, childVars, restartVars, Quiet, RejectAllPending, Settle, KillChild
<1>5. OneOutcome' /\ NothingBeforeListen'
  BY DEF TypeOK, PendingBoots, SingleFlight, OneOutcome, NothingBeforeListen, Violation, childVars, restartVars, Quiet, RejectAllPending, Settle, KillChild
<1>6. QED BY <1>1, <1>2, <1>3, <1>4, <1>5

LEMMA DieKeeps ==
    ASSUME ControlInv, NEW c \in Child, Die(c)
    PROVE  ControlInv'
<1> USE ProxyAssumption DEF ControlInv
<1>1. TypeOK'
  BY DEF TypeOK, Die, bootVars, callVars, restartVars, Quiet
<1>2. PendingBoots' /\ PendingCalls'
  BY DEF TypeOK, PendingBoots, PendingCalls, Die, bootVars, callVars, restartVars, Quiet
<1>3. UnbornUnused'
  BY DEF TypeOK, UnbornUnused, PendingBoots, Die, bootVars, callVars, restartVars, Quiet
<1>4. SingleFlight' /\ RestartNeverRaces'
  BY DEF TypeOK, PendingBoots, SingleFlight, RestartNeverRaces, Die, bootVars, callVars, restartVars, Quiet
<1>5. OneOutcome' /\ NothingBeforeListen'
  BY DEF TypeOK, PendingBoots, SingleFlight, OneOutcome, NothingBeforeListen, Die, bootVars, callVars, restartVars, Quiet
<1>6. QED BY <1>1, <1>2, <1>3, <1>4, <1>5

LEMMA ExitKeeps ==
    ASSUME ControlInv, NEW c \in Child, Exit(c)
    PROVE  ControlInv'
<1> USE ProxyAssumption DEF ControlInv
<1>1. TypeOK'
  <2>1. restartTimer' \in BOOLEAN /\ attempts' \in 0..MaxAttempts
    BY ScheduleRestartTypes DEF TypeOK, Exit
  <2>2. boot' \in [Child -> {"none", "waiting", "answered", "failed", "done", "over"}]
    BY DEF TypeOK, Exit, Fail
  <2>3. /\ sentTo' \in [Request -> Child \cup {None}]
       /\ call' \in [Request -> {"idle", "waiting", "resumed", "sent"}]
    BY DEF TypeOK, Exit, TeardownChild, RejectAllPending, Settle, KillTree
  <2>4. killed' \subseteq Child /\ doomed' \subseteq Child
    BY DEF TypeOK, Exit, TeardownChild, RejectAllPending, Settle, KillTree
  <2>5. /\ proc' \in [Child -> {"unborn", "unstarted", "alive", "dead", "exited"}]
       /\ retries' \in [Child -> SUBSET {"listen", "timer"}]
       /\ awaits' \in [Request -> Child \cup {None}]
    BY DEF TypeOK, Exit, TeardownChild, RejectAllPending, Settle, KillTree
  <2>6. inflight' \in 0..MaxInflight
    BY DEF Exit, TeardownChild, RejectAllPending, Settle
  <2>7. pending' = {} /\ initialized' \in BOOLEAN /\ initPromise' \in Child \cup {None}
    BY DEF TypeOK, Exit, TeardownChild, RejectAllPending, Settle
  <2>8. /\ child' \in Child \cup {None} /\ attached' \subseteq Child
       /\ phase' \in {"starting", "serving", "closing", "exited", "crashed"}
    BY DEF TypeOK, Exit, TeardownChild, RejectAllPending, Settle
  <2>9. QED BY <2>1, <2>2, <2>3, <2>4, <2>5, <2>6, <2>7, <2>8 DEF TypeOK
<1>2. PendingBoots' /\ PendingCalls'
  BY DEF TypeOK, PendingBoots, PendingCalls, Exit, Quiet, TeardownChild, RejectAllPending, Settle, KillTree, Fail, ScheduleRestart
<1>3. UnbornUnused'
  BY DEF TypeOK, UnbornUnused, PendingBoots, Exit, Quiet, TeardownChild, RejectAllPending, Settle, KillTree, Fail, ScheduleRestart
<1>4. SingleFlight' /\ RestartNeverRaces'
  BY DEF TypeOK, PendingBoots, SingleFlight, RestartNeverRaces, Exit, Quiet, TeardownChild, RejectAllPending, Settle, KillTree, Fail, ScheduleRestart
<1>5. OneOutcome'
  BY DEF TypeOK, OneOutcome, Exit, Quiet, Fail
<1>6. NothingBeforeListen'
  <2>1. phase # "starting"
    BY DEF NothingBeforeListen, UnbornUnused, TypeOK, Exit
  <2>2. QED BY <2>1 DEF NothingBeforeListen, Exit
<1>7. QED BY <1>1, <1>2, <1>3, <1>4, <1>5, <1>6

LEMMA ExitUnheardKeeps ==
    ASSUME ControlInv, NEW c \in Child, ExitUnheard(c)
    PROVE  ControlInv'
<1> USE ProxyAssumption DEF ControlInv
<1>1. TypeOK'
  BY DEF TypeOK, ExitUnheard, bootVars, callVars, restartVars, Quiet
<1>2. PendingBoots' /\ PendingCalls'
  BY DEF TypeOK, PendingBoots, PendingCalls, ExitUnheard, bootVars, callVars, restartVars, Quiet
<1>3. UnbornUnused'
  BY DEF TypeOK, UnbornUnused, PendingBoots, ExitUnheard, bootVars, callVars, restartVars, Quiet
<1>4. SingleFlight' /\ RestartNeverRaces'
  BY DEF TypeOK, PendingBoots, SingleFlight, RestartNeverRaces, ExitUnheard, bootVars, callVars, restartVars, Quiet
<1>5. OneOutcome' /\ NothingBeforeListen'
  BY DEF TypeOK, PendingBoots, SingleFlight, OneOutcome, NothingBeforeListen, ExitUnheard, bootVars, callVars, restartVars, Quiet
<1>6. QED BY <1>1, <1>2, <1>3, <1>4, <1>5

LEMMA ShutdownKeeps ==
    ASSUME ControlInv, Shutdown
    PROVE  ControlInv'
<1> USE ProxyAssumption DEF ControlInv
<1>1. TypeOK'
  BY DEF TypeOK, Shutdown, bootVars, callVars, ClearRestartTimer, KillTree, Quiet
<1>2. PendingBoots' /\ PendingCalls'
  BY DEF TypeOK, PendingBoots, PendingCalls, Shutdown, bootVars, callVars, ClearRestartTimer, KillTree, Quiet
<1>3. UnbornUnused'
  BY DEF TypeOK, UnbornUnused, PendingBoots, Shutdown, bootVars, callVars, ClearRestartTimer, KillTree, Quiet
<1>4. SingleFlight' /\ RestartNeverRaces'
  BY DEF TypeOK, PendingBoots, SingleFlight, RestartNeverRaces, Shutdown, bootVars, callVars, ClearRestartTimer, KillTree, Quiet
<1>5. OneOutcome' /\ NothingBeforeListen'
  BY DEF TypeOK, PendingBoots, SingleFlight, OneOutcome, NothingBeforeListen, Shutdown, bootVars, callVars, ClearRestartTimer, KillTree, Quiet
<1>6. QED BY <1>1, <1>2, <1>3, <1>4, <1>5

LEMMA ProcessExitKeeps ==
    ASSUME ControlInv, ProcessExit
    PROVE  ControlInv'
<1> USE ProxyAssumption DEF ControlInv
<1>1. TypeOK'
  BY DEF TypeOK, ProcessExit, childVars, bootVars, callVars, restartVars, Quiet
<1>2. PendingBoots' /\ PendingCalls'
  BY DEF TypeOK, PendingBoots, PendingCalls, ProcessExit, childVars, bootVars, callVars, restartVars, Quiet
<1>3. UnbornUnused'
  BY DEF TypeOK, UnbornUnused, PendingBoots, ProcessExit, childVars, bootVars, callVars, restartVars, Quiet
<1>4. SingleFlight' /\ RestartNeverRaces'
  BY DEF TypeOK, PendingBoots, SingleFlight, RestartNeverRaces, ProcessExit, childVars, bootVars, callVars, restartVars, Quiet
<1>5. OneOutcome' /\ NothingBeforeListen'
  BY DEF TypeOK, PendingBoots, SingleFlight, OneOutcome, NothingBeforeListen, ProcessExit, childVars, bootVars, callVars, restartVars, Quiet
<1>6. QED BY <1>1, <1>2, <1>3, <1>4, <1>5

\* The inductive step: no step of the proxy leaves ControlInv.
LEMMA ControlStep == ControlInv /\ [Next]_vars => ControlInv'
<1> SUFFICES ASSUME ControlInv, [Next]_vars PROVE ControlInv'
  OBVIOUS
<1> USE ProxyAssumption
<1>1. CASE Listen
  <2>1. PICK c \in Child : Boot(c, {"listen"})
    BY <1>1 DEF Listen
  <2>2. /\ initPromise = None /\ \A d \in Child : boot[d] \notin {"answered", "failed"}
        /\ phase' = "serving" /\ UNCHANGED <<call, awaits, attempts>>
    BY <1>1 DEF Listen, ControlInv, NothingBeforeListen
  <2>3. QED BY <2>1, <2>2, BootKeeps DEF ControlInv, TypeOK
<1>2. ASSUME NEW r \in Request, RequestBoot(r) PROVE ControlInv'
  <2>1. PICK c \in Child : Boot(c, {}) /\ awaits' = [awaits EXCEPT ![r] = c]
    BY <1>2 DEF RequestBoot, Arrives
  <2>2. /\ initPromise = None /\ \A d \in Child : boot[d] \notin {"answered", "failed"}
        /\ phase \in {"serving", "closing"} /\ UNCHANGED <<attempts, phase>>
        /\ call' = [call EXCEPT ![r] = "waiting"] /\ r \notin pending
    BY <1>2 DEF RequestBoot, Arrives, MustBoot, Quiet, Up, ControlInv, TypeOK, PendingCalls
  <2>3. /\ call' \in [Request -> {"idle", "waiting", "resumed", "sent"}]
        /\ awaits' \in [Request -> Child \cup {None}]
        /\ \A x \in Request : x \in pending => call'[x] = call[x]
    BY <2>1, <2>2 DEF ControlInv, TypeOK
  <2>4. QED BY <2>1, <2>2, <2>3, BootKeeps
<1>3. CASE TimerFires /\ MustBoot
  <2>1. PICK c \in Child : Boot(c, {"timer"})
    BY <1>3 DEF TimerFires
  <2>2. /\ initPromise = None /\ \A d \in Child : boot[d] \notin {"answered", "failed"}
        /\ UNCHANGED <<call, awaits, attempts, phase>>
    BY <1>3 DEF TimerFires, MustBoot, Quiet
  <2>3. phase' \in {"serving", "closing", "crashed"}
    BY <1>3, <2>2 DEF TimerFires, Quiet, Up, ControlInv, TypeOK, NothingBeforeListen, RestartNeverRaces
  <2>4. QED BY <2>1, <2>2, <2>3, BootKeeps DEF ControlInv, TypeOK
<1>4. CASE TimerFires /\ ~MustBoot
  <2>1. restartTimer' = FALSE /\ attempts' \in 0..MaxAttempts
    BY <1>4 DEF TimerFires, ControlInv, TypeOK
  <2>2. retries' \in [Child -> SUBSET {"listen", "timer"}]
    BY <1>4 DEF TimerFires, ControlInv, TypeOK
  <2>3. UNCHANGED <<childVars, bootVars, callVars, phase>>
    BY <1>4 DEF TimerFires, callVars
  <2>4. TypeOK'
    BY <2>1, <2>2, <2>3 DEF ControlInv, TypeOK, childVars, bootVars, callVars
  <2>5. PendingBoots' /\ PendingCalls' /\ UnbornUnused' /\ SingleFlight' /\ OneOutcome'
    BY <2>3 DEF ControlInv, PendingBoots, PendingCalls, UnbornUnused, SingleFlight, OneOutcome,
                childVars, bootVars, callVars
  <2>6. RestartNeverRaces' /\ NothingBeforeListen'
    BY <2>1, <2>3 DEF ControlInv, RestartNeverRaces, NothingBeforeListen, childVars, bootVars, callVars
  <2>7. QED BY <2>4, <2>5, <2>6 DEF ControlInv
<1>5. CASE UNCHANGED vars
  BY <1>5 DEF ControlInv, TypeOK, PendingBoots, PendingCalls, UnbornUnused,
      SingleFlight, RestartNeverRaces, OneOutcome, NothingBeforeListen,
      vars, childVars, bootVars, callVars, restartVars
<1>6. QED
  BY <1>1, <1>2, <1>3, <1>4, <1>5, RequestReadyKeeps, RequestShareKeeps, SendKeeps, FinishKeeps,
     AnswerKeeps, RequestTimeoutKeeps, BootOkKeeps, BootFailedKeeps, BootAnswerKeeps,
     StartupTimeoutKeeps, ViolationKeeps, DieKeeps, ExitKeeps, ExitUnheardKeeps,
     ShutdownKeeps, ProcessExitKeeps, Zenon DEF Next

\* The proxy's state keeps its types in every reachable state.
THEOREM ProxyTypeOK == Spec => []TypeOK
<1>1. Init => ControlInv
  BY ControlInit
<1>2. ControlInv /\ [Next]_vars => ControlInv'
  BY ControlStep
<1>3. ControlInv => TypeOK
  BY DEF ControlInv
<1>4. QED BY <1>1, <1>2, <1>3, PTL DEF Spec

\* Callers share one bootstrap, and it belongs to the current child, whatever
\* deaths, violations and timeouts surround it (ensureInitialized).
THEOREM ProxySingleFlight == Spec => []SingleFlight
<1>1. Init => ControlInv
  BY ControlInit
<1>2. ControlInv /\ [Next]_vars => ControlInv'
  BY ControlStep
<1>3. ControlInv => SingleFlight
  BY DEF ControlInv
<1>4. QED BY <1>1, <1>2, <1>3, PTL DEF Spec

\* A scheduled restart never meets a child or a bootstrap in progress
\* (scheduleRestart, spawnChildProcess).
THEOREM ProxyRestartNeverRaces == Spec => []RestartNeverRaces
<1>1. Init => ControlInv
  BY ControlInit
<1>2. ControlInv /\ [Next]_vars => ControlInv'
  BY ControlStep
<1>3. ControlInv => RestartNeverRaces
  BY DEF ControlInv
<1>4. QED BY <1>1, <1>2, <1>3, PTL DEF Spec

-----------------------------------------------------------------------------
\* The inflight counter.

LEMMA PendingIsFinite == TypeOK => IsFiniteSet(pending)
BY ProxyAssumption, FS_Union, FS_Subset DEF TypeOK

LEMMA OneMorePending ==
    ASSUME TypeOK, InflightMatches, NEW x, x \notin pending,
           pending' = pending \cup {x}, inflight' = inflight + 1
    PROVE  InflightMatches'
BY PendingIsFinite, FS_AddElement DEF InflightMatches

LEMMA OneLessPending ==
    ASSUME TypeOK, InflightMatches, NEW x \in pending,
           pending' = pending \ {x}, inflight' = Released
    PROVE  InflightMatches'
<1>1. IsFiniteSet(pending) /\ Cardinality(pending) \in Nat
  BY PendingIsFinite, FS_CardinalityType
<1>2. Cardinality(pending \ {x}) = Cardinality(pending) - 1
  BY <1>1, FS_RemoveElement
<1>3. Cardinality(pending) # 0
  BY <1>1, FS_EmptySet
<1>4. QED BY <1>1, <1>2, <1>3 DEF InflightMatches, Released

LEMMA NonePending ==
    ASSUME pending' = {}, inflight' = 0
    PROVE  InflightMatches'
BY FS_EmptySet DEF InflightMatches

LEMMA BootCounts ==
    ASSUME ControlInv, InflightMatches, NEW c \in Child, NEW w, Boot(c, w)
    PROVE  InflightMatches'
<1>1. CASE inflight < MaxInflight
  <2>1. c \notin pending
    BY DEF Boot, ControlInv, PendingBoots, UnbornUnused
  <2>2. pending' = pending \cup {c} /\ inflight' = inflight + 1
    BY <1>1 DEF Boot
  <2>3. QED BY <2>1, <2>2, OneMorePending DEF ControlInv
<1>2. CASE ~(inflight < MaxInflight)
  BY <1>2 DEF Boot, InflightMatches
<1>3. QED BY <1>1, <1>2

LEMMA InflightStep ==
    ControlInv /\ InflightMatches /\ [Next]_vars => InflightMatches'
<1> SUFFICES ASSUME ControlInv, InflightMatches, [Next]_vars PROVE InflightMatches'
  OBVIOUS
<1>1. TypeOK
  BY DEF ControlInv
<1>2. ASSUME NEW r \in Request, Send(r) PROVE InflightMatches'
  <2>1. CASE child # None /\ inflight < MaxInflight
    <3>1. r \notin pending
      BY <1>2 DEF Send, ControlInv, PendingCalls
    <3>2. pending' = pending \cup {r} /\ inflight' = inflight + 1
      BY <1>2, <2>1 DEF Send
    <3>3. QED BY <1>1, <3>1, <3>2, OneMorePending
  <2>2. CASE ~(child # None /\ inflight < MaxInflight)
    BY <1>2, <2>2 DEF Send, InflightMatches
  <2>3. QED BY <2>1, <2>2
<1>3. ASSUME NEW x \in pending, pending' = pending \ {x}, inflight' = Released
      PROVE  InflightMatches'
  BY <1>1, <1>3, OneLessPending
<1>4. ASSUME NEW r \in Request, Answer(r) \/ RequestTimeout(r) PROVE InflightMatches'
  BY <1>3, <1>4 DEF Answer, RequestTimeout, Settle
<1>5. ASSUME NEW c \in Child, BootAnswer(c) \/ StartupTimeout(c) PROVE InflightMatches'
  BY <1>3, <1>5 DEF BootAnswer, StartupTimeout, Settle
<1>6. ASSUME NEW c \in Child, Violation(c) \/ Exit(c) PROVE InflightMatches'
  <2>1. pending' = {} /\ inflight' = 0
    BY <1>6 DEF Violation, Exit, TeardownChild, RejectAllPending, Settle
  <2>2. QED BY <2>1, NonePending
<1>7. ASSUME NEW c \in Child, BootFailed(c) PROVE InflightMatches'
  BY <1>7, NonePending DEF BootFailed
<1>8. ASSUME NEW r \in Request, RequestBoot(r) PROVE InflightMatches'
  BY <1>8, BootCounts DEF RequestBoot, Arrives
<1>9. CASE Listen
  BY <1>9, BootCounts DEF Listen
<1>10. CASE TimerFires
  BY <1>10, BootCounts DEF TimerFires, InflightMatches
<1>11. ASSUME UNCHANGED <<pending, inflight>> PROVE InflightMatches'
  BY <1>11 DEF InflightMatches
<1>12. ASSUME NEW r \in Request, RequestReady(r) \/ RequestShare(r) \/ Finish(r)
       PROVE  InflightMatches'
  BY <1>11, <1>12 DEF Arrives, RequestReady, RequestShare, Finish
<1>13. ASSUME NEW c \in Child, BootOk(c) \/ Die(c) \/ ExitUnheard(c)
       PROVE  InflightMatches'
  BY <1>11, <1>13 DEF BootOk, Die, ExitUnheard, callVars
<1>14. CASE Shutdown \/ ProcessExit \/ UNCHANGED vars
  BY <1>11, <1>14 DEF Shutdown, ProcessExit, vars, callVars
<1>15. QED
  BY <1>2, <1>4, <1>5, <1>6, <1>7, <1>8, <1>9, <1>10, <1>12, <1>13, <1>14, Zenon DEF Next

\* activeInflight counts exactly the requests still to be settled, for every
\* mix of answers, timeouts, exits and violations (rpc.mjs).
THEOREM ProxyInflightMatches == Spec => []InflightMatches
<1>1. Init => ControlInv /\ InflightMatches
  BY ControlInit, FS_EmptySet DEF Init, InflightMatches
<1>2. ControlInv /\ InflightMatches /\ [Next]_vars => ControlInv' /\ InflightMatches'
  BY ControlStep, InflightStep
<1>3. QED BY <1>1, <1>2, PTL DEF Spec

-----------------------------------------------------------------------------
\* Calls follow the handshake, when a chunk holds no more than one frame.

\* A bootstrap in progress or complete belongs to a child nobody killed, a
\* complete one is what initialized stands for, and calls go on only then.
HandshakeInv ==
    /\ \A c \in Child : boot[c] \in {"waiting", "answered"} => c \notin killed
    /\ initialized => child # None /\ child \notin killed /\ boot[child] = "done"
    /\ (\E r \in Request : r \in pending \/ call[r] = "resumed") => initialized
    /\ (\E r \in Request : call[r] = "resumed") => \A c \in Child : boot[c] # "failed"
    /\ HandshakeFirst

LEMMA HandshakeInit == Init => HandshakeInv
BY DEF Init, HandshakeInv, HandshakeFirst

\* A spawn happens with no call in flight.
LEMMA HandshakeBoot ==
    ASSUME ControlInv, HandshakeInv, NEW c \in Child, NEW w, Boot(c, w), ~initialized,
           \A r \in Request : call'[r] = "resumed" => call[r] = "resumed"
    PROVE  HandshakeInv'
BY ProxyAssumption DEF ControlInv, TypeOK, UnbornUnused, HandshakeInv, HandshakeFirst, Boot

LEMMA HandshakeStep ==
    ~SmallFrames /\ ControlInv /\ HandshakeInv /\ [Next]_vars => HandshakeInv'
<1> SUFFICES ASSUME ~SmallFrames, ControlInv, HandshakeInv, [Next]_vars PROVE HandshakeInv'
  OBVIOUS
<1> USE ProxyAssumption DEF HandshakeInv, HandshakeFirst
<1>1. TypeOK /\ PendingBoots /\ PendingCalls /\ SingleFlight /\ OneOutcome
  BY DEF ControlInv
<1>2. MustBoot => ~initialized
  BY DEF MustBoot, Usable
<1>3. ASSUME NEW r \in Request, RequestBoot(r) PROVE HandshakeInv'
  <2>1. PICK c \in Child : Boot(c, {})
    BY <1>3 DEF RequestBoot, Arrives
  <2>2. ~initialized /\ \A x \in Request : call'[x] = "resumed" => call[x] = "resumed"
    BY <1>1, <1>2, <1>3 DEF RequestBoot, Arrives, TypeOK
  <2>3. QED BY <2>1, <2>2, HandshakeBoot
<1>4. CASE Listen
  <2>1. PICK c \in Child : Boot(c, {"listen"})
    BY <1>4 DEF Listen
  <2>2. ~initialized /\ call' = call
    BY <1>4 DEF Listen, ControlInv, NothingBeforeListen
  <2>3. QED BY <2>1, <2>2, HandshakeBoot
<1>5. CASE TimerFires
  <2>1. CASE MustBoot
    <3>1. PICK c \in Child : Boot(c, {"timer"})
      BY <1>5, <2>1 DEF TimerFires
    <3>2. ~initialized /\ call' = call
      BY <1>2, <1>5, <2>1 DEF TimerFires
    <3>3. QED BY <3>1, <3>2, HandshakeBoot
  <2>2. CASE ~MustBoot
    BY <1>5, <2>2 DEF TimerFires, childVars, bootVars
  <2>3. QED BY <2>1, <2>2
<1>6. ASSUME NEW r \in Request, RequestReady(r) PROVE HandshakeInv'
  BY <1>1, <1>6 DEF TypeOK, PendingCalls, RequestReady, Arrives, Usable, Quiet, childVars, bootVars
<1>7. ASSUME NEW r \in Request, RequestShare(r) PROVE HandshakeInv'
  BY <1>1, <1>7 DEF TypeOK, RequestShare, Arrives, childVars, bootVars
<1>8. ASSUME NEW r \in Request, Send(r) PROVE HandshakeInv'
  BY <1>1, <1>8 DEF TypeOK, Send, childVars, bootVars
<1>9. ASSUME NEW r \in Request, Finish(r) PROVE HandshakeInv'
  BY <1>1, <1>9 DEF TypeOK, Finish, childVars, bootVars
<1>10. ASSUME NEW r \in Request, Answer(r) \/ RequestTimeout(r) PROVE HandshakeInv'
  BY <1>1, <1>10 DEF TypeOK, Answer, RequestTimeout, Settle, childVars, bootVars
<1>11. ASSUME NEW c \in Child, BootAnswer(c) \/ StartupTimeout(c) PROVE HandshakeInv'
  BY <1>1, <1>11 DEF TypeOK, PendingBoots, BootAnswer, StartupTimeout, Settle, Fail, Quiet, childVars
<1>12. ASSUME NEW c \in Child, BootOk(c) PROVE HandshakeInv'
  BY <1>1, <1>12 DEF TypeOK, SingleFlight, OneOutcome, BootOk, Wake, childVars
<1>13. ASSUME NEW c \in Child, BootFailed(c) PROVE HandshakeInv'
  BY <1>1, <1>13 DEF TypeOK, PendingBoots, BootFailed
<1>14. ASSUME NEW c \in Child, Violation(c) PROVE HandshakeInv'
  BY <1>1, <1>14 DEF TypeOK, PendingBoots, Violation, RejectAllPending, Settle, KillChild, Quiet
<1>15. ASSUME NEW c \in Child, Exit(c) PROVE HandshakeInv'
  BY <1>1, <1>15 DEF TypeOK, PendingBoots, Exit, TeardownChild, RejectAllPending, Settle, Fail, Quiet
<1>16. ASSUME NEW c \in Child, Die(c) \/ ExitUnheard(c) PROVE HandshakeInv'
  BY <1>16 DEF Die, ExitUnheard, bootVars, callVars
<1>17. CASE Shutdown \/ ProcessExit \/ UNCHANGED vars
  BY <1>17 DEF Shutdown, ProcessExit, vars, childVars, bootVars, callVars
<1>18. QED
  BY <1>3, <1>4, <1>5, <1>6, <1>7, <1>8, <1>9, <1>10, <1>11, <1>12, <1>13, <1>14, <1>15,
     <1>16, <1>17, Zenon DEF Next

\* A call in flight is on the current child and came after its handshake, if a
\* chunk of output never holds both a response and an oversized frame.
THEOREM ProxyHandshakeFirst ==
    ASSUME ~SmallFrames PROVE Spec => []HandshakeFirst
<1>1. Init => ControlInv /\ HandshakeInv
  BY ControlInit, HandshakeInit
<1>2. ControlInv /\ HandshakeInv /\ [Next]_vars => ControlInv' /\ HandshakeInv'
  BY ControlStep, HandshakeStep
<1>3. HandshakeInv => HandshakeFirst
  BY DEF HandshakeInv
<1>4. QED BY <1>1, <1>2, <1>3, PTL DEF Spec

-----------------------------------------------------------------------------
\* One live child, where killTree reaches its target.

\* A process that is alive and was not signalled is the current child, and the
\* current child can only be replaced once it is signalled or dead.
OwnershipInv ==
    /\ killed \subseteq doomed
    /\ \A c \in Unsignalled : c = child
    /\ child \in Unsignalled => initialized \/ boot[child] \in {"waiting", "answered", "failed"}

LEMMA OwnershipInit == Init => OwnershipInv
BY ProxyAssumption DEF Init, OwnershipInv, Unsignalled

LEMMA OwnershipBoot ==
    ASSUME ControlInv, OwnershipInv, NEW c \in Child, NEW w, Boot(c, w), child \notin Unsignalled
    PROVE  OwnershipInv'
BY ProxyAssumption DEF ControlInv, TypeOK, UnbornUnused, OwnershipInv, Unsignalled, Boot

LEMMA OwnershipStep ==
    GroupKill /\ ControlInv /\ OwnershipInv /\ [Next]_vars => OwnershipInv'
<1> SUFFICES ASSUME GroupKill, ControlInv, OwnershipInv, [Next]_vars PROVE OwnershipInv'
  OBVIOUS
<1> USE ProxyAssumption DEF OwnershipInv, Unsignalled
<1>1. TypeOK /\ PendingBoots /\ SingleFlight /\ OneOutcome
  BY DEF ControlInv
<1>2. ASSUME Quiet, MustBoot PROVE child \notin Unsignalled
  BY <1>1, <1>2 DEF TypeOK, SingleFlight, Quiet, MustBoot, Usable
<1>3. ASSUME NEW r \in Request, RequestBoot(r) PROVE OwnershipInv'
  BY <1>2, <1>3, OwnershipBoot DEF RequestBoot, Arrives
<1>4. CASE Listen
  BY <1>4, OwnershipBoot DEF Listen, ControlInv, NothingBeforeListen
<1>5. CASE TimerFires
  BY <1>2, <1>5, OwnershipBoot DEF TimerFires, childVars, bootVars
<1>6. ASSUME UNCHANGED <<childVars, bootVars>> PROVE OwnershipInv'
  BY <1>6 DEF childVars, bootVars
<1>7. ASSUME NEW r \in Request, RequestReady(r) \/ RequestShare(r) \/ Send(r) \/ Finish(r)
                                \/ Answer(r) \/ RequestTimeout(r)
      PROVE  OwnershipInv'
  BY <1>6, <1>7 DEF Arrives, RequestReady, RequestShare, Send, Finish, Answer, RequestTimeout
<1>8. ASSUME NEW c \in Child, BootAnswer(c) \/ StartupTimeout(c) PROVE OwnershipInv'
  BY <1>1, <1>8 DEF TypeOK, BootAnswer, StartupTimeout, Fail, childVars
<1>9. ASSUME NEW c \in Child, BootOk(c) PROVE OwnershipInv'
  BY <1>1, <1>9 DEF TypeOK, BootOk, childVars
<1>10. ASSUME NEW c \in Child, BootFailed(c) PROVE OwnershipInv'
  BY <1>1, <1>10 DEF TypeOK, BootFailed, KillTree
<1>11. ASSUME NEW c \in Child, Violation(c) PROVE OwnershipInv'
  BY <1>1, <1>11 DEF TypeOK, Violation, KillChild
<1>12. ASSUME NEW c \in Child, Exit(c) PROVE OwnershipInv'
  BY <1>1, <1>12 DEF TypeOK, Exit, TeardownChild, KillTree
<1>13. ASSUME NEW c \in Child, Die(c) \/ ExitUnheard(c) PROVE OwnershipInv'
  BY <1>1, <1>13 DEF TypeOK, Die, ExitUnheard, bootVars
<1>14. CASE Shutdown
  BY <1>1, <1>14 DEF TypeOK, Shutdown, KillTree, bootVars
<1>15. CASE ProcessExit \/ UNCHANGED vars
  BY <1>6, <1>15 DEF ProcessExit, vars
<1>16. QED
  BY <1>3, <1>4, <1>5, <1>7, <1>8, <1>9, <1>10, <1>11, <1>12, <1>13, <1>14, <1>15, Zenon DEF Next

\* Where killTree reaches its target, at most one child is alive that was not
\* sent a signal, for every interleaving of restarts, timeouts and messages.
THEOREM ProxyOneLiveChild ==
    ASSUME GroupKill PROVE Spec => []OneLiveChild
<1>1. Init => ControlInv /\ OwnershipInv
  BY ControlInit, OwnershipInit
<1>2. ControlInv /\ OwnershipInv /\ [Next]_vars => ControlInv' /\ OwnershipInv'
  BY ControlStep, OwnershipStep
<1>3. OwnershipInv => OneLiveChild
  <2>1. SUFFICES ASSUME OwnershipInv PROVE OneLiveChild
    OBVIOUS
  <2>2. Unsignalled \subseteq {child}
    BY <2>1 DEF OwnershipInv
  <2>3. IsFiniteSet({child}) /\ Cardinality({child}) = 1
    BY FS_Singleton
  <2>4. QED BY <2>2, <2>3, FS_Subset, FS_CardinalityType DEF OneLiveChild
<1>4. QED BY <1>1, <1>2, <1>3, PTL DEF Spec

----------------------------------------------------------------------------
(* The daily log, and the .lock files it is written under. *)

Where == {"idle", "ensure", "create", "open", "probe", "reclaim", "pid", "scan", "append", "unwind", "leave",
          "logged", "failed", "try ensure", "try create", "try", "try pid", "try probe",
          "try reclaim", "try again", "try append", "try leave", "patched", "skipped"}

LogShapes ==
    /\ build = [p \in Process |-> [at |-> build[p].at, attempt |-> build[p].attempt, new |-> build[p].new]]
    /\ \A p \in Process : build[p].at \in Where /\ (build[p].at = "append" => build[p].new \subseteq Batch[p])
    /\ lock \in [Logs -> {Nobody} \cup [by : Process \cup {Dead}, written : BOOLEAN]]
    /\ log \in Seq(Ids)

\* Whoever is inside has the lock, what it is about to append is not in the log,
\* and the log has no id twice.
LogKept ==
    /\ \A p \in Process : (InLog(p) => Mine(p, "log")) /\ (InPatches(p) => Mine(p, "patches"))
    /\ \A p \in Process : At(p, "append") => build[p].new \subseteq Batch[p] \ Range(log)
    /\ \A i, j \in DOMAIN log : log[i] = log[j] => i = j

LogInv == LogShapes /\ (~stolen => LogKept)

LEMMA LogStart == LogInit => LogInv
<1> SUFFICES ASSUME LogInit PROVE LogInv
  OBVIOUS
<1>1. log = <<>> /\ log \in Seq(Ids) /\ DOMAIN log = {}
  BY DEF LogInit
<1> QED
  BY <1>1 DEF LogInit, LogInv, LogShapes, LogKept, InLog, InPatches, At, Idle, Where


\* Process p goes on as r says.
LEMMA GoesOnAs ==
    ASSUME LogShapes, NEW p \in Process, NEW a \in Where, NEW t, NEW n, a = "append" => n \subseteq Batch[p],
           build' = [build EXCEPT ![p] = [at |-> a, attempt |-> t, new |-> n]]
    PROVE  /\ build' = [q \in Process |-> [at |-> build'[q].at, attempt |-> build'[q].attempt, new |-> build'[q].new]]
           /\ \A q \in Process : /\ build'[q].at \in Where
                                 /\ build'[q].at = "append" => build'[q].new \subseteq Batch[q]
           /\ build'[p].at = a /\ build'[p].new = n /\ \A q \in Process \ {p} : build'[q] = build[q]
  BY DEF LogShapes

\* A step of p that leaves the log and the locks alone, and enters neither.
LEMMA OutsideKeeps ==
    ASSUME LogInv, NEW p \in Process, NEW a \in Where, NEW t, NEW n,
           build' = [build EXCEPT ![p] = [at |-> a, attempt |-> t, new |-> n]],
           UNCHANGED <<lock, log, stolen>>,
           a \notin {"pid", "scan", "append", "unwind", "leave", "try pid", "try append", "try leave"}
           \/ (a \in {"scan", "unwind", "leave"} /\ InLog(p)) \/ (a \in {"try append", "try leave"} /\ InPatches(p))
           \/ (a = "append" /\ InLog(p) /\ n \subseteq Batch[p] \ Range(log))
    PROVE  LogInv'
<1>1. LogShapes' /\ build'[p].at = a /\ build'[p].new = n /\ \A q \in Process \ {p} : build'[q] = build[q]
  BY GoesOnAs DEF LogInv, LogShapes
<1>2. ASSUME ~stolen' PROVE LogKept'
  <2>1. LogKept
    BY <1>2 DEF LogInv
  <2>2. ASSUME NEW q \in Process
        PROVE  /\ InLog(q)' => Mine(q, "log")'
               /\ InPatches(q)' => Mine(q, "patches")'
               /\ At(q, "append")' => build'[q].new \subseteq Batch[q] \ Range(log')
    <3>1. /\ InLog(q) => Mine(q, "log")
          /\ InPatches(q) => Mine(q, "patches")
          /\ At(q, "append") => build[q].new \subseteq Batch[q] \ Range(log)
      BY <2>1 DEF LogKept
    <3>2. (Mine(q, "log")' <=> Mine(q, "log")) /\ (Mine(q, "patches")' <=> Mine(q, "patches"))
      BY DEF Mine
    <3>3. CASE q # p
      <4>1. build'[q] = build[q]
        BY <1>1, <3>3
      <4> QED
        BY <3>1, <3>2, <4>1 DEF InLog, InPatches, At
    <3>4. CASE q = p
      <4>1. InLog(p)' => InLog(p)
        BY <1>1 DEF InLog, At
      <4>2. InPatches(p)' => InPatches(p)
        BY <1>1 DEF InPatches, At
      <4>3. At(p, "append")' => n \subseteq Batch[p] \ Range(log)
        BY <1>1 DEF At
      <4> QED
        BY <1>1, <3>1, <3>2, <3>4, <4>1, <4>2, <4>3
    <3> QED
      BY <3>3, <3>4
  <2> QED
    BY <2>1, <2>2 DEF LogKept
<1> QED
  BY <1>1, <1>2 DEF LogInv

\* Creating the lock file of f.
LEMMA AcquireKeeps ==
    ASSUME LogInv, NEW p \in Process, NEW f \in Logs, Acquire(p, f), NEW t, NEW n,
           NEW a \in {IF f = "log" THEN "pid" ELSE "try pid"},
           build' = [build EXCEPT ![p] = [at |-> a, attempt |-> t, new |-> n]],
           UNCHANGED <<log, stolen>>
    PROVE  LogInv'
<1> DEFINE new == [by |-> p, written |-> FALSE]
<1>1. a \in Where /\ Logs = {"log", "patches"}
  BY DEF Where, Logs
<1>2. /\ build'[p].at = a /\ \A q \in Process \ {p} : build'[q] = build[q]
      /\ build' = [q \in Process |-> [at |-> build'[q].at, attempt |-> build'[q].attempt, new |-> build'[q].new]]
      /\ \A q \in Process : /\ build'[q].at \in Where
                            /\ build'[q].at = "append" => build'[q].new \subseteq Batch[q]
  BY <1>1, GoesOnAs DEF LogInv
<1>3. lock' \in [Logs -> {Nobody} \cup [by : Process \cup {Dead}, written : BOOLEAN]]
  BY DEF Acquire, LogInv, LogShapes
<1>4. new # Nobody /\ lock[f] = Nobody /\ lock'[f] = new /\ \A g \in Logs \ {f} : lock'[g] = lock[g]
  <2>1. new \in [by : Process \cup {Dead}, written : BOOLEAN]
    OBVIOUS
  <2>2. new # Nobody
    BY <2>1, DailyLogAssumption
  <2> QED
    BY <2>2 DEF Acquire, LogInv, LogShapes
<1>5. ASSUME ~stolen' PROVE LogKept'
  <2>1. LogKept
    BY <1>5 DEF LogInv
  <2>2. ASSUME NEW q \in Process
        PROVE  /\ InLog(q)' => Mine(q, "log")'
               /\ InPatches(q)' => Mine(q, "patches")'
               /\ At(q, "append")' => build'[q].new \subseteq Batch[q] \ Range(log')
    <3>1. (InLog(q)' => Mine(q, "log")') /\ (InPatches(q)' => Mine(q, "patches")')
      <4>1. CASE q = p
        <5>1. Mine(p, f)'
          <6>1. lock'[f] = new /\ new # Nobody /\ new.by = p
            BY <1>4
          <6> HIDE DEF new
          <6> QED
            BY <6>1 DEF Mine
        <5>2. (InLog(q)' => f = "log") /\ (InPatches(q)' => f = "patches")
          BY <1>1, <1>2, <4>1 DEF InLog, InPatches
        <5> QED
          BY <4>1, <5>1, <5>2
      <4>2. CASE q # p
        <5>1. build'[q] = build[q] /\ (InLog(q) => Mine(q, "log")) /\ (InPatches(q) => Mine(q, "patches"))
          BY <1>1, <1>2, <1>4, <2>1, <4>2 DEF LogKept
        <5>2. (InLog(q)' <=> InLog(q)) /\ (InPatches(q)' <=> InPatches(q))
          BY <5>1 DEF InLog, InPatches
        <5>3. \A g \in Logs : Mine(q, g) => Mine(q, g)'
          BY <1>1, <1>2, <1>4, <2>1, <4>2 DEF Mine
        <5> QED
          BY <1>1, <1>2, <1>4, <2>1, <5>1, <5>2, <5>3
      <4> QED
        BY <4>1, <4>2
    <3>2. At(q, "append")' => q # p /\ At(q, "append") /\ build'[q].new = build[q].new
      BY <1>1, <1>2, <1>4, <2>1 DEF At
    <3>3. log' = log
      OBVIOUS
    <3> QED
      BY <2>1, <3>1, <3>2, <3>3 DEF LogKept
  <2> QED
    BY <2>1, <2>2 DEF LogKept
<1> QED
  BY <1>2, <1>3, <1>5 DEF LogInv, LogShapes

\* Removing the lock file of f, from inside or because it is stale.
LEMMA UnlinkKeeps ==
    ASSUME LogInv, NEW p \in Process, NEW f \in Logs, UnlinkLock(p, f), NEW a \in Where, NEW t, NEW n,
           a \notin {"pid", "scan", "append", "unwind", "leave", "try pid", "try append", "try leave"},
           f = "log" => ~InPatches(p), f = "patches" => ~InLog(p),
           build' = [build EXCEPT ![p] = [at |-> a, attempt |-> t, new |-> n]], log' = log
    PROVE  LogInv'
<1>1. Logs = {"log", "patches"}
  BY DEF Logs
<1>2. /\ build'[p].at = a /\ \A q \in Process \ {p} : build'[q] = build[q]
      /\ build' = [q \in Process |-> [at |-> build'[q].at, attempt |-> build'[q].attempt, new |-> build'[q].new]]
      /\ \A q \in Process : /\ build'[q].at \in Where
                            /\ build'[q].at = "append" => build'[q].new \subseteq Batch[q]
  BY GoesOnAs DEF LogInv
<1>3. /\ lock' \in [Logs -> {Nobody} \cup [by : Process \cup {Dead}, written : BOOLEAN]]
      /\ \A g \in Logs \ {f} : lock'[g] = lock[g]
  BY DEF UnlinkLock, LogInv, LogShapes
<1>4. ASSUME ~stolen' PROVE LogKept'
  <2>1. LogKept /\ (lock[f] = Nobody \/ Mine(p, f) \/ lock[f].by = Dead)
    BY <1>4 DEF LogInv, UnlinkLock
  <2>2. \A q \in Process \ {p} : ~Mine(q, f)
    BY <2>1, DailyLogAssumption DEF Mine
  <2>3. ASSUME NEW q \in Process
        PROVE  /\ InLog(q)' => Mine(q, "log")'
               /\ InPatches(q)' => Mine(q, "patches")'
               /\ At(q, "append")' => build'[q].new \subseteq Batch[q] \ Range(log')
    <3>1. (InLog(q)' => Mine(q, "log")') /\ (InPatches(q)' => Mine(q, "patches")')
      <4>1. CASE q = p
        BY <1>1, <1>2, <1>3, <2>1, <2>2, <4>1 DEF LogKept, InLog, InPatches, Mine
      <4>2. CASE q # p
        <5>1. build'[q] = build[q] /\ (InLog(q) => Mine(q, "log")) /\ (InPatches(q) => Mine(q, "patches"))
          BY <1>1, <1>2, <1>3, <2>1, <2>2, <4>2 DEF LogKept
        <5>2. (InLog(q)' <=> InLog(q)) /\ (InPatches(q)' <=> InPatches(q))
          BY <5>1 DEF InLog, InPatches
        <5>3. \A g \in Logs : Mine(q, g) => Mine(q, g)'
          BY <1>1, <1>2, <1>3, <2>1, <2>2, <4>2 DEF Mine
        <5> QED
          BY <1>1, <1>2, <1>3, <2>1, <2>2, <5>1, <5>2, <5>3
      <4> QED
        BY <4>1, <4>2
    <3>2. At(q, "append")' => q # p /\ At(q, "append") /\ build'[q].new = build[q].new
      BY <1>1, <1>2, <1>3, <2>1, <2>2 DEF At
    <3>3. log' = log
      OBVIOUS
    <3> QED
      BY <2>1, <3>1, <3>2, <3>3 DEF LogKept
  <2> QED
    BY <2>1, <2>3 DEF LogKept
<1> QED
  BY <1>2, <1>3, <1>4 DEF LogInv, LogShapes

\* Writing the pid into the lock file, or into the one that was created.
LEMMA PidKeeps ==
    ASSUME LogInv, NEW p \in Process, NEW f \in Logs, WritePid(p, f), NEW a, NEW t, NEW n,
           (a = "scan" /\ InLog(p)) \/ (a = "try append" /\ InPatches(p)),
           build' = [build EXCEPT ![p] = [at |-> a, attempt |-> t, new |-> n]], UNCHANGED <<log, stolen>>
    PROVE  LogInv'
<1>1. a \in Where
  BY DEF Where
<1>2. /\ build'[p].at = a /\ \A q \in Process \ {p} : build'[q] = build[q]
      /\ build' = [q \in Process |-> [at |-> build'[q].at, attempt |-> build'[q].attempt, new |-> build'[q].new]]
      /\ \A q \in Process : /\ build'[q].at \in Where
                            /\ build'[q].at = "append" => build'[q].new \subseteq Batch[q]
  BY <1>1, GoesOnAs DEF LogInv
<1>3. /\ lock' \in [Logs -> {Nobody} \cup [by : Process \cup {Dead}, written : BOOLEAN]]
      /\ \A g \in Logs : lock'[g] = lock[g] \/ (Mine(p, g) /\ lock'[g] # Nobody /\ lock'[g].by = p)
  <2>1. CASE lock' = lock
    BY <2>1 DEF LogInv, LogShapes
  <2>2. CASE Mine(p, f) /\ lock' = [lock EXCEPT ![f].written = TRUE]
    <3>1. lock[f] \in [by : Process \cup {Dead}, written : BOOLEAN] /\ lock[f].by = p /\ DOMAIN lock = Logs
      BY <2>2 DEF Mine, LogInv, LogShapes
    <3> DEFINE l == [lock[f] EXCEPT !.written = TRUE]
    <3>2. l \in [by : Process \cup {Dead}, written : BOOLEAN] /\ l.by = p
      BY <3>1
    <3>3. lock' = [lock EXCEPT ![f] = l]
      BY <2>2
    <3>4. l # Nobody
      BY <3>2, DailyLogAssumption
    <3> HIDE DEF l
    <3> QED
      BY <2>2, <3>1, <3>2, <3>3, <3>4 DEF LogInv, LogShapes
  <2> QED
    BY <2>1, <2>2 DEF WritePid
<1>4. ASSUME ~stolen' PROVE LogKept'
  <2>1. LogKept /\ "log" \in Logs /\ "patches" \in Logs
    BY <1>4 DEF LogInv, Logs
  <2>2. ASSUME NEW q \in Process
        PROVE  /\ InLog(q)' => Mine(q, "log")'
               /\ InPatches(q)' => Mine(q, "patches")'
               /\ At(q, "append")' => build'[q].new \subseteq Batch[q] \ Range(log')
    <3>1. (InLog(q)' => Mine(q, "log")') /\ (InPatches(q)' => Mine(q, "patches")')
      <4>1. CASE q = p
        BY <1>2, <1>3, <2>1, <4>1 DEF LogKept, InLog, InPatches, Mine
      <4>2. CASE q # p
        <5>1. build'[q] = build[q] /\ (InLog(q) => Mine(q, "log")) /\ (InPatches(q) => Mine(q, "patches"))
          BY <1>2, <1>3, <2>1, <4>2 DEF LogKept
        <5>2. (InLog(q)' <=> InLog(q)) /\ (InPatches(q)' <=> InPatches(q))
          BY <5>1 DEF InLog, InPatches
        <5>3. \A g \in Logs : Mine(q, g) => Mine(q, g)'
          BY <1>2, <1>3, <2>1, <4>2 DEF Mine
        <5> QED
          BY <1>2, <1>3, <2>1, <5>1, <5>2, <5>3
      <4> QED
        BY <4>1, <4>2
    <3>2. At(q, "append")' => q # p /\ At(q, "append") /\ build'[q].new = build[q].new
      BY <1>2, <1>3, <2>1 DEF At
    <3>3. log' = log
      OBVIOUS
    <3> QED
      BY <2>1, <3>1, <3>2, <3>3 DEF LogKept
  <2> QED
    BY <2>1, <2>2 DEF LogKept
<1> QED
  BY <1>2, <1>3, <1>4 DEF LogInv, LogShapes


\* The ids of a batch follow the log, each one once.
LEMMA AppendKeeps ==
    ASSUME LogInv, NEW p \in Process, AppendLines(p)
    PROVE  LogInv'
<1> DEFINE new == build[p].new
           lines == SetToSeq(new)
           n == Len(log)
           k == Cardinality(new)
<1>1. /\ At(p, "append") /\ log' = log \o lines /\ UNCHANGED <<lock, stolen>>
      /\ build' = [build EXCEPT ![p] = [at |-> "unwind", attempt |-> build[p].attempt, new |-> new]]
  BY DEF AppendLines, Goto, Bring, LogInv, LogShapes
<1>2. LogShapes /\ "unwind" \in Where /\ "unwind" # "append"
  BY DEF LogInv, Where
<1>3. /\ build'[p].at = "unwind" /\ \A q \in Process \ {p} : build'[q] = build[q]
      /\ build' = [q \in Process |-> [at |-> build'[q].at, attempt |-> build'[q].attempt, new |-> build'[q].new]]
      /\ \A q \in Process : /\ build'[q].at \in Where
                            /\ build'[q].at = "append" => build'[q].new \subseteq Batch[q]
  BY <1>1, <1>2 DEF LogShapes
<1>4. new \subseteq Batch[p] /\ Batch[p] \subseteq Ids /\ IsFiniteSet(Batch[p])
  BY <1>1, <1>2, DailyLogAssumption DEF LogShapes, At
<1>5. lines \in [1..k -> new] /\ k \in Nat /\ \A i, j \in 1..k : lines[i] = lines[j] => i = j
  <2>1. IsFiniteSet(new)
    BY <1>4, FS_Subset
  <2> QED
    BY <2>1, SetToSeqIs
<1>6. log \in Seq(Ids) /\ n \in Nat
  BY <1>2 DEF LogShapes
<1> HIDE DEF k, lines, new
<1>7. lines \in Seq(Ids) /\ Len(lines) = k
  BY <1>4, <1>5
<1> HIDE DEF n
<1>8. /\ log' \in Seq(Ids) /\ DOMAIN log' = 1..(n + k)
      /\ \A i \in 1..n : log'[i] = log[i]
      /\ \A i \in (n + 1)..(n + k) : log'[i] = lines[i - n]
  BY <1>1, <1>6, <1>7 DEF n
<1>9. LogShapes'
  BY <1>1, <1>2, <1>3, <1>8 DEF LogShapes
<1>10. ASSUME ~stolen PROVE LogKept'
  <2>1. LogKept /\ new \subseteq Batch[p] \ Range(log)
    BY <1>1, <1>10 DEF LogInv, LogKept, new
  <2>7. \A i \in 1..n : \A j \in (n + 1)..(n + k) : log'[i] # log'[j]
    <3> SUFFICES ASSUME NEW i \in 1..n, NEW j \in (n + 1)..(n + k) PROVE log'[i] # log'[j]
      OBVIOUS
    <3>1. j - n \in 1..k
      BY <1>5, <1>6
    <3>2. log'[j] \in new
      BY <1>5, <1>8, <3>1
    <3>3. log'[i] \in Range(log)
      BY <1>6, <1>8 DEF Range, n
    <3> QED
      BY <2>1, <3>2, <3>3
  <2>8. \A i, j \in (n + 1)..(n + k) : log'[i] = log'[j] => i = j
    <3> SUFFICES ASSUME NEW i \in (n + 1)..(n + k), NEW j \in (n + 1)..(n + k), log'[i] = log'[j] PROVE i = j
      OBVIOUS
    <3>0. i - n \in 1..k /\ j - n \in 1..k
      BY <1>5, <1>6
    <3>1. log'[i] = lines[i - n] /\ log'[j] = lines[j - n]
      BY <1>8
    <3>2. i - n = j - n
      BY <1>5, <3>0, <3>1
    <3> QED
      BY <1>6, <3>2
  <2>9. \A i, j \in DOMAIN log' : log'[i] = log'[j] => i = j
    <3> SUFFICES ASSUME NEW i \in DOMAIN log', NEW j \in DOMAIN log', log'[i] = log'[j] PROVE i = j
      OBVIOUS
    <3>1. (i \in 1..n \/ i \in (n + 1)..(n + k)) /\ (j \in 1..n \/ j \in (n + 1)..(n + k))
      BY <1>5, <1>6, <1>8
    <3>2. CASE i \in 1..n /\ j \in 1..n
      BY <1>6, <1>8, <2>1, <3>2 DEF LogKept, n
    <3> QED
      BY <2>7, <2>8, <3>1, <3>2
  <2>10. \A q \in Process : q # p => ~InLog(q)
    BY <1>1, <2>1 DEF LogKept, Mine, InLog, At
  <2>11. ASSUME NEW q \in Process
         PROVE  /\ InLog(q)' => Mine(q, "log")'
                /\ InPatches(q)' => Mine(q, "patches")'
                /\ ~At(q, "append")'
    <3>1. CASE q = p
      BY <1>1, <1>3, <2>1, <3>1 DEF LogKept, InLog, InPatches, Mine, At
    <3>2. CASE q # p
      <4>1. build'[q] = build[q] /\ ~InLog(q) /\ (InPatches(q) => Mine(q, "patches"))
        BY <1>3, <2>1, <2>10, <3>2 DEF LogKept
      <4> QED
        BY <1>1, <4>1 DEF InLog, InPatches, Mine, At
    <3> QED
      BY <3>1, <3>2
  <2> QED
    BY <2>9, <2>11 DEF LogKept
<1> QED
  BY <1>1, <1>9, <1>10 DEF LogInv

LEMMA LogCrashKeeps ==
    ASSUME LogInv, NEW p \in Process, Crash(p)
    PROVE  LogInv'
<1>1. /\ build' = [build EXCEPT ![p] = [at |-> "idle", attempt |-> 0, new |-> {}]]
      /\ UNCHANGED <<log, stolen>> /\ "idle" \in Where /\ "idle" # "append"
      /\ lock' = [f \in Logs |-> IF Mine(p, f) THEN [lock[f] EXCEPT !.by = Dead] ELSE lock[f]]
  BY DEF Crash, Idle, Where
<1>2. /\ build'[p].at = "idle" /\ \A q \in Process \ {p} : build'[q] = build[q]
      /\ build' = [q \in Process |-> [at |-> build'[q].at, attempt |-> build'[q].attempt, new |-> build'[q].new]]
      /\ \A q \in Process : /\ build'[q].at \in Where
                            /\ build'[q].at = "append" => build'[q].new \subseteq Batch[q]
  BY <1>1 DEF LogInv, LogShapes
<1>3. \A f \in Logs : lock'[f] \in {Nobody} \cup [by : Process \cup {Dead}, written : BOOLEAN]
  BY <1>1 DEF LogInv, LogShapes, Mine
<1>4. \A q \in Process \ {p} : \A f \in Logs : Mine(q, f) => Mine(q, f)'
  BY <1>1 DEF Mine
<1>5. ASSUME ~stolen' PROVE LogKept'
  <2>1. LogKept /\ "log" \in Logs /\ "patches" \in Logs
    BY <1>1, <1>5 DEF LogInv, Logs
  <2>2. ASSUME NEW q \in Process
        PROVE  /\ InLog(q)' => Mine(q, "log")'
               /\ InPatches(q)' => Mine(q, "patches")'
               /\ At(q, "append")' => build'[q].new \subseteq Batch[q] \ Range(log')
    <3>1. CASE q = p
      BY <1>2, <3>1 DEF InLog, InPatches, At
    <3>2. CASE q # p
      <4>1. /\ build'[q] = build[q] /\ log' = log /\ (InLog(q) => Mine(q, "log")) /\ (InPatches(q) => Mine(q, "patches"))
            /\ (At(q, "append") => build[q].new \subseteq Batch[q] \ Range(log))
        BY <1>1, <1>2, <2>1, <3>2 DEF LogKept
      <4>2. (InLog(q)' <=> InLog(q)) /\ (InPatches(q)' <=> InPatches(q)) /\ (At(q, "append")' <=> At(q, "append"))
        BY <4>1 DEF InLog, InPatches, At
      <4> QED
        BY <1>4, <2>1, <3>2, <4>1, <4>2
    <3> QED
      BY <3>1, <3>2
  <2> QED
    BY <1>1, <2>1, <2>2 DEF LogKept
<1> QED
  BY <1>1, <1>2, <1>3, <1>5 DEF LogInv, LogShapes

LEMMA LogStartKeeps ==
    ASSUME LogInv, NEW p \in Process, StartLog(p) \/ StartPatch(p) \/ EndBuild(p)
    PROVE  LogInv'
<1>1. "ensure" \in Where /\ "try ensure" \in Where /\ "idle" \in Where
  BY DEF Where
<1>2. CASE StartLog(p)
  <2>1. build' = [build EXCEPT ![p] = [at |-> "ensure", attempt |-> 0, new |-> {}]] /\ UNCHANGED <<lock, log, stolen>>
    BY <1>2 DEF StartLog
  <2> QED
    BY <1>1, <2>1, OutsideKeeps
<1>3. CASE StartPatch(p)
  <2>1. /\ build' = [build EXCEPT ![p] = [at |-> "try ensure", attempt |-> 0, new |-> patches \cup Enriched[p]]]
        /\ UNCHANGED <<lock, log, stolen>>
    BY <1>3 DEF StartPatch
  <2> QED
    BY <1>1, <2>1, OutsideKeeps
<1>4. CASE EndBuild(p)
  <2>1. build' = [build EXCEPT ![p] = [at |-> "idle", attempt |-> 0, new |-> {}]] /\ UNCHANGED <<lock, log, stolen>>
    BY <1>4 DEF EndBuild, Idle
  <2> QED
    BY <1>1, <2>1, OutsideKeeps
<1> QED
  BY <1>2, <1>3, <1>4

\* What Bring, Goto and Tried make of a process.
LEMMA GoesOnIs ==
    ASSUME LogInv, NEW p \in Process, NEW a, NEW n
    PROVE  /\ Bring(p, a, n) => build' = [build EXCEPT ![p] = [at |-> a, attempt |-> build[p].attempt, new |-> n]]
           /\ Goto(p, a) => build' = [build EXCEPT ![p] = [at |-> a, attempt |-> build[p].attempt, new |-> build[p].new]]
           /\ Tried(p, a) => build' = [build EXCEPT ![p] = [at |-> a, attempt |-> build[p].attempt + 1, new |-> build[p].new]]
  BY DEF LogInv, LogShapes, Bring, Goto, Tried

\* Creating the file, or emptying it: what is not in the log now is not in an
\* empty one.
LEMMA EnsureKeeps ==
    ASSUME LogInv, NEW p \in Process, Ensure(p) \/ Create(p) \/ TryEnsure(p) \/ TryCreate(p)
    PROVE  LogInv'
<1> DEFINE tries == build[p].attempt
           brought == build[p].new
<1>1. CASE Ensure(p) \/ TryEnsure(p) \/ TryCreate(p)
  <2>1. PICK a \in {"open", "create", "try", "try create"} : Goto(p, a) /\ UNCHANGED <<lock, log, stolen>>
    BY <1>1 DEF Ensure, TryEnsure, TryCreate
  <2>2. build' = [build EXCEPT ![p] = [at |-> a, attempt |-> tries, new |-> brought]]
    BY <2>1, GoesOnIs
  <2>3. a \in Where /\ a \notin {"pid", "scan", "append", "unwind", "leave", "try pid", "try append", "try leave"}
    BY <2>1 DEF Where
  <2> QED
    BY <2>1, <2>2, <2>3, OutsideKeeps
<1>2. CASE Create(p)
  <2>1. Goto(p, "open") /\ UNCHANGED <<lock, stolen>> /\ log' = <<>>
    BY <1>2 DEF Create
  <2>2. build' = [build EXCEPT ![p] = [at |-> "open", attempt |-> tries, new |-> brought]]
    BY <2>1, GoesOnIs
  <2>3. "open" \in Where /\ "open" # "append"
    BY DEF Where
  <2>4. /\ build'[p].at = "open" /\ \A q \in Process \ {p} : build'[q] = build[q]
        /\ build' = [q \in Process |-> [at |-> build'[q].at, attempt |-> build'[q].attempt, new |-> build'[q].new]]
        /\ \A q \in Process : /\ build'[q].at \in Where
                              /\ build'[q].at = "append" => build'[q].new \subseteq Batch[q]
    BY <2>2, <2>3 DEF LogInv, LogShapes
  <2>5. log' \in Seq(Ids) /\ DOMAIN log' = {} /\ Range(log') = {}
    BY <2>1 DEF Range
  <2>6. ASSUME ~stolen' PROVE LogKept'
    <3>1. LogKept
      BY <2>1, <2>6 DEF LogInv
    <3>2. ASSUME NEW q \in Process
          PROVE  /\ InLog(q)' => Mine(q, "log")'
                 /\ InPatches(q)' => Mine(q, "patches")'
                 /\ At(q, "append")' => build'[q].new \subseteq Batch[q] \ Range(log')
      <4>1. CASE q = p
        BY <2>4, <4>1 DEF InLog, InPatches, At
      <4>2. CASE q # p
        <5>1. /\ build'[q] = build[q] /\ lock' = lock
              /\ (InLog(q) => Mine(q, "log")) /\ (InPatches(q) => Mine(q, "patches"))
          BY <2>1, <2>4, <3>1, <4>2 DEF LogKept
        <5>2. (InLog(q)' => Mine(q, "log")') /\ (InPatches(q)' => Mine(q, "patches")')
          BY <5>1 DEF InLog, InPatches, Mine
        <5>3. At(q, "append")' => build'[q].new \subseteq Batch[q]
          BY <2>4 DEF At
        <5> QED
          BY <2>5, <5>2, <5>3
      <4> QED
        BY <4>1, <4>2
    <3> QED
      BY <2>5, <3>2 DEF LogKept
  <2> QED
    BY <2>1, <2>4, <2>5, <2>6 DEF LogInv, LogShapes
<1> QED
  BY <1>1, <1>2

LEMMA WithLockKeeps ==
    ASSUME LogInv, NEW p \in Process,
           \/ Open(p) \/ Probe(p) \/ Reclaim(p) \/ RecordPid(p) \/ Scan(p) \/ AppendLines(p) \/ Unwind(p) \/ Leave(p)
    PROVE  LogInv'
<1> DEFINE tries == build[p].attempt
           brought == build[p].new
           next == IF tries < MAX_RETRIES THEN "ensure" ELSE "failed"
<1>1. Where = {"idle", "ensure", "create", "open", "probe", "reclaim", "pid", "scan", "append", "unwind", "leave",
               "logged", "failed", "try ensure", "try create", "try", "try pid", "try probe",
               "try reclaim", "try again", "try append", "try leave", "patched", "skipped"} /\ "log" \in Logs /\ next \in {"ensure", "failed"}
  BY DEF Where, Logs
<1> HIDE DEF next
<1>2. CASE Open(p)
  <2>1. CASE Acquire(p, "log") /\ Tried(p, "pid")
    <3>1. build' = [build EXCEPT ![p] = [at |-> "pid", attempt |-> tries + 1, new |-> brought]] /\ UNCHANGED <<log, stolen>>
      BY <1>2, <2>1, GoesOnIs DEF Open
    <3>2. "pid" \in {IF "log" = "log" THEN "pid" ELSE "try pid"}
      OBVIOUS
    <3> QED
      BY <1>1, <2>1, <3>1, <3>2, AcquireKeeps
  <2>2. CASE UNCHANGED lock /\ Tried(p, "probe")
    <3>1. /\ build' = [build EXCEPT ![p] = [at |-> "probe", attempt |-> tries + 1, new |-> brought]]
          /\ UNCHANGED <<lock, log, stolen>>
      BY <1>2, <2>2, GoesOnIs DEF Open
    <3> QED
      BY <1>1, <3>1, OutsideKeeps
  <2> QED
    BY <1>2, <2>1, <2>2 DEF Open
<1>3. CASE Probe(p)
  <2>1. PICK a \in {"reclaim", "ensure", "failed"} : Goto(p, a)
    BY <1>3 DEF Probe, Again
  <2>2. build' = [build EXCEPT ![p] = [at |-> a, attempt |-> tries, new |-> brought]] /\ UNCHANGED <<lock, log, stolen>>
    BY <1>3, <2>1, GoesOnIs DEF Probe
  <2>3. a \in Where /\ a \notin {"pid", "scan", "append", "unwind", "leave", "try pid", "try append", "try leave"}
    BY <1>1, <2>1
  <2> QED
    BY <2>2, <2>3, OutsideKeeps
<1>4. CASE Reclaim(p) \/ Unwind(p) \/ Leave(p)
  <2>1. PICK a \in {"logged", "ensure", "failed"} : Goto(p, a) /\ UnlinkLock(p, "log") /\ log' = log
    BY <1>4 DEF Reclaim, Unwind, Leave, Again
  <2>2. build' = [build EXCEPT ![p] = [at |-> a, attempt |-> tries, new |-> brought]]
    BY <2>1, GoesOnIs
  <2>3. ~InPatches(p)
    BY <1>4 DEF Reclaim, Unwind, Leave, At, InPatches
  <2>4. a \in Where /\ a \notin {"pid", "scan", "append", "unwind", "leave", "try pid", "try append", "try leave"}
    BY <1>1, <2>1
  <2>5. ("log" = "log" => ~InPatches(p)) /\ ("log" = "patches" => ~InLog(p))
    BY <2>3
  <2> QED
    BY <1>1, <2>1, <2>2, <2>4, <2>5, UnlinkKeeps
<1>5. CASE RecordPid(p)
  <2>1. WritePid(p, "log") /\ InLog(p) /\ UNCHANGED <<log, stolen>>
    BY <1>5 DEF RecordPid, InLog, At
  <2>2. build' = [build EXCEPT ![p] = [at |-> "scan", attempt |-> tries, new |-> brought]]
    BY <1>5, GoesOnIs DEF RecordPid
  <2> QED
    BY <1>1, <2>1, <2>2, PidKeeps
<1>6. CASE Scan(p)
  <2> DEFINE new == Batch[p] \ Range(log)
             to == IF new = {} THEN "leave" ELSE "append"
  <2>1. InLog(p) /\ UNCHANGED <<lock, log, stolen>> /\ Bring(p, to, new)
    BY <1>6 DEF Scan, InLog, At
  <2>2. build' = [build EXCEPT ![p] = [at |-> to, attempt |-> tries, new |-> new]]
    BY <2>1, GoesOnIs
  <2>3. new \subseteq Batch[p] \ Range(log) /\ to \in {"leave", "append"}
    OBVIOUS
  <2> HIDE DEF new, to
  <2> QED
    BY <1>1, <2>1, <2>2, <2>3, OutsideKeeps
<1> QED
  BY <1>2, <1>3, <1>4, <1>5, <1>6, AppendKeeps

LEMMA TryWithLockKeeps ==
    ASSUME LogInv, NEW p \in Process,
           \/ TryOpen(p) \/ TryProbe(p) \/ TryReclaim(p) \/ TryAgain(p) \/ TryPid(p) \/ TryAppend(p) \/ TryLeave(p)
    PROVE  LogInv'
<1> DEFINE tries == build[p].attempt
           brought == build[p].new
<1>1. Where = {"idle", "ensure", "create", "open", "probe", "reclaim", "pid", "scan", "append", "unwind", "leave",
               "logged", "failed", "try ensure", "try create", "try", "try pid", "try probe",
               "try reclaim", "try again", "try append", "try leave", "patched", "skipped"} /\ "patches" \in Logs /\ "patches" # "log"
  BY DEF Where, Logs
<1>2. CASE TryOpen(p) \/ TryAgain(p)
  <2>1. CASE Acquire(p, "patches") /\ Goto(p, "try pid")
    <3>1. build' = [build EXCEPT ![p] = [at |-> "try pid", attempt |-> tries, new |-> brought]] /\ UNCHANGED <<log, stolen>>
      BY <1>2, <2>1, GoesOnIs DEF TryOpen, TryAgain
    <3>2. "try pid" \in {IF "patches" = "log" THEN "pid" ELSE "try pid"}
      OBVIOUS
    <3> QED
      BY <1>1, <2>1, <3>1, <3>2, AcquireKeeps
  <2>2. CASE UNCHANGED lock /\ \E a \in {"try probe", "skipped"} : Goto(p, a)
    <3>1. PICK a \in {"try probe", "skipped"} : Goto(p, a)
      BY <2>2
    <3>2. build' = [build EXCEPT ![p] = [at |-> a, attempt |-> tries, new |-> brought]] /\ UNCHANGED <<lock, log, stolen>>
      BY <1>2, <2>2, <3>1, GoesOnIs DEF TryOpen, TryAgain
    <3> QED
      BY <1>1, <3>1, <3>2, OutsideKeeps
  <2> QED
    BY <1>2, <2>1, <2>2 DEF TryOpen, TryAgain
<1>3. CASE TryProbe(p)
  <2>1. PICK a \in {"try reclaim", "skipped"} : Goto(p, a)
    BY <1>3 DEF TryProbe
  <2>2. build' = [build EXCEPT ![p] = [at |-> a, attempt |-> tries, new |-> brought]] /\ UNCHANGED <<lock, log, stolen>>
    BY <1>3, <2>1, GoesOnIs DEF TryProbe
  <2> QED
    BY <1>1, <2>1, <2>2, OutsideKeeps
<1>4. CASE TryReclaim(p) \/ TryLeave(p)
  <2>1. PICK a \in {"try again", "patched"} : Goto(p, a) /\ UnlinkLock(p, "patches") /\ log' = log
    BY <1>4 DEF TryReclaim, TryLeave
  <2>2. build' = [build EXCEPT ![p] = [at |-> a, attempt |-> tries, new |-> brought]]
    BY <2>1, GoesOnIs
  <2>3. ~InLog(p)
    BY <1>4 DEF TryReclaim, TryLeave, At, InLog
  <2>4. a \in Where /\ a \notin {"pid", "scan", "append", "unwind", "leave", "try pid", "try append", "try leave"}
    BY <1>1, <2>1
  <2>5. ("patches" = "log" => ~InPatches(p)) /\ ("patches" = "patches" => ~InLog(p))
    BY <2>3
  <2> QED
    BY <1>1, <2>1, <2>2, <2>4, <2>5, UnlinkKeeps
<1>5. CASE TryPid(p)
  <2>1. WritePid(p, "patches") /\ InPatches(p) /\ UNCHANGED <<log, stolen>>
    BY <1>5 DEF TryPid, InPatches, At
  <2>2. build' = [build EXCEPT ![p] = [at |-> "try append", attempt |-> tries, new |-> brought]]
    BY <1>5, GoesOnIs DEF TryPid
  <2> QED
    BY <1>1, <2>1, <2>2, PidKeeps
<1>6. CASE TryAppend(p)
  <2>1. InPatches(p) /\ UNCHANGED <<lock, log, stolen>>
    BY <1>6 DEF TryAppend, InPatches, At
  <2>2. build' = [build EXCEPT ![p] = [at |-> "try leave", attempt |-> tries, new |-> brought]]
    BY <1>6, GoesOnIs DEF TryAppend
  <2> QED
    BY <1>1, <2>1, <2>2, OutsideKeeps
<1> QED
  BY <1>2, <1>3, <1>4, <1>5, <1>6

\* The invariant of the two logs and their lock files.
THEOREM LogInductive == LogSpec => []LogInv
<1>1. ASSUME LogInv, [LogNext]_logVars PROVE LogInv'
  <2>1. CASE LogNext
    BY <1>1, <2>1, LogStartKeeps, EnsureKeeps, WithLockKeeps, TryWithLockKeeps, LogCrashKeeps DEF LogNext, Step
  <2>2. CASE UNCHANGED logVars
    BY <1>1, <2>2 DEF logVars, LogInv, LogShapes, LogKept, InLog, InPatches, At, Mine
  <2> QED
    BY <1>1, <2>1, <2>2
<1> QED
  BY <1>1, LogStart, PTL DEF LogSpec

\* The retry that follows the failing fsync, crashes and competing builds log an
\* id once, as long as nobody unlinks the lock of a live process: the scan for
\* the ids already there and the append happen under the lock (appendDailyLogs).
THEOREM IdsLoggedOnce == LogSpec => []LoggedOnce
<1>1. LogInv => LoggedOnce
  BY DEF LogInv, LogKept, LoggedOnce
<1> QED
  BY <1>1, LogInductive, PTL

\* Without such a theft no two builds are inside the same lock.
THEOREM LogLocksExclude == LogSpec => []OneInsideUnlessStolen
<1>1. LogInv => OneInsideUnlessStolen
  BY DEF LogInv, LogKept, OneInsideUnlessStolen, Mine
<1> QED
  BY <1>1, LogInductive, PTL
=============================================================================
