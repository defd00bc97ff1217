-------------------------- MODULE BlackboardDaemon --------------------------
(***************************************************************************)
(* The daemon that keeps a block of WORKING.md and OpenClaw's task table   *)
(* in step: syncDbToMd renders the table into the block, handleMdChange    *)
(* takes boxes the user ticked to the table.  The user edits the note and  *)
(* OpenClaw the table at any time and without the daemon's lock.           *)
(*                                                                         *)
(* The watchdog runs one daemon at a time.  In it the handlers do not      *)
(* overlap: flock is no dependency, so that acquireLock returns without    *)
(* waiting for anything.  The sync that handleMdChange starts while it     *)
(* holds the lock spins for five seconds and gives up; it changes nothing  *)
(* and is left out.  The note exists throughout.                           *)
(***************************************************************************)
EXTENDS Naturals, FiniteSets

CONSTANTS Tasks,        \* ids, numbers
          Limit,        \* the query's LIMIT
          Moves,        \* what OpenClaw does to a task: pairs of states
          MaxEdits, MaxMoves, MaxKills,     \* bounds
          Nobody, Dead

States == {"none", "open", "failed", "submitted", "aborted"}
MaxRestarts == 3

ASSUME BlackboardAssumption ==
    /\ Tasks \subseteq Nat /\ Limit \in Nat \ {0} /\ Moves \subseteq States \X States
    /\ MaxEdits \in Nat /\ MaxMoves \in Nat /\ MaxKills \in Nat /\ Nobody # Dead

VARIABLES
    db,         \* the state of each task
    block,      \* the block in the note: per task shown its box and its state
    fresh,      \* lastMdSignature is the note's signature
    noteLock,   \* WORKING.md.lock.lock: Nobody, or its owner and whether the pid is in it
    at,         \* what the daemon is doing
    want,       \* the block it has rendered
    ids,        \* the ticked boxes it has read
    restarts,   \* restartCount
    edits, moves, kills,
    ticked      \* history: the tasks the user has ever ticked

daemonVars == <<db, block, fresh, noteLock, at, want, ids, restarts, edits, moves, kills, ticked>>
env == <<edits, moves, kills, ticked>>

Nothing == [t \in {} |-> [box |-> " ", state |-> "none"]]

\* readBlackboardRows: the newest of those that are not aborted.
Rows == LET live == {t \in Tasks : db[t] \notin {"none", "aborted"}}
        IN  {t \in live : Cardinality({u \in live : u > t}) < Limit}

\* renderBlackboard.
Rendered == [t \in Rows |-> [box |-> IF db[t] \in {"submitted", "failed"} THEN "x" ELSE " ",
                             state |-> db[t]]]

DaemonInit ==
    /\ db = [t \in Tasks |-> "none"] /\ block = Nothing /\ fresh = TRUE /\ noteLock = Nobody
    /\ at = "down" /\ want = Nothing /\ ids = {} /\ restarts = 0
    /\ edits = 0 /\ moves = 0 /\ kills = 0 /\ ticked = {}

----------------------------------------------------------------------------
\* acquireLock, with the pid file; where names the handler that wants it.

\* Fault: a lock is never taken from a process that is gone.
StaleNever == FALSE

\* An empty file has no pid in it to be found dead: parseInt gives NaN.
Stale == noteLock # Nobody /\ noteLock.written /\ noteLock.by = Dead

TakeLock(where, next) ==
    /\ at = where /\ noteLock = Nobody
    /\ noteLock' = [by |-> "daemon", written |-> FALSE] /\ at' = next
    /\ UNCHANGED <<db, block, fresh, want, ids, restarts, env>>

WritePid(where, next) ==
    /\ at = where /\ noteLock' = [noteLock EXCEPT !.written = TRUE] /\ at' = next
    /\ UNCHANGED <<db, block, fresh, want, ids, restarts, env>>

RemoveStale(where) ==
    /\ at = where /\ Stale /\ noteLock' = Nobody
    /\ UNCHANGED <<db, block, fresh, at, want, ids, restarts, env>>

\* After five seconds the cycle is skipped.
GiveUp(where) ==
    /\ at = where /\ noteLock # Nobody /\ ~Stale /\ at' = "idle"
    /\ UNCHANGED <<db, block, fresh, noteLock, want, ids, restarts, env>>

ReleaseLock ==
    /\ at = "release" /\ noteLock' = Nobody /\ at' = "idle" /\ want' = Nothing /\ ids' = {}
    /\ UNCHANGED <<db, block, fresh, restarts, env>>

----------------------------------------------------------------------------
\* syncDbToMd.

ReadRows ==
    /\ at = "idle" /\ want' = Rendered /\ at' = "compare"
    /\ UNCHANGED <<db, block, fresh, noteLock, ids, restarts, env>>

\* Equal contents are not written again.
Compare ==
    /\ at = "compare" /\ at' = IF block = want THEN "idle" ELSE "sync lock"
    /\ UNCHANGED <<db, block, fresh, noteLock, want, ids, restarts, env>>

\* The note is read again; the block stays the one rendered before.
LockedRead ==
    /\ at = "locked read" /\ at' = IF block = want THEN "release" ELSE "write"
    /\ UNCHANGED <<db, block, fresh, noteLock, want, ids, restarts, env>>

\* atomicWrite: the temporary file is renamed over the note.
Write ==
    /\ at = "write" /\ block' = want /\ fresh' = FALSE /\ at' = "sign"
    /\ UNCHANGED <<db, noteLock, want, ids, restarts, env>>

\* The signature is taken from whatever the note is by now.
Sign ==
    /\ at = "sign" /\ fresh' = TRUE /\ at' = "release"
    /\ UNCHANGED <<db, block, noteLock, want, ids, restarts, env>>

----------------------------------------------------------------------------
\* handleMdChange.

Notice ==
    /\ at = "idle" /\ ~fresh /\ fresh' = TRUE /\ at' = "handle lock"
    /\ UNCHANGED <<db, block, noteLock, want, ids, restarts, env>>

\* extractCheckedTaskIds.
ReadBoxes ==
    /\ at = "read boxes"
    /\ ids' = {t \in DOMAIN block : block[t].box = "x"}
    /\ at' = IF ids' = {} THEN "release" ELSE "mark"
    /\ UNCHANGED <<db, block, fresh, noteLock, want, restarts, env>>

\* Fault: a failed task may be marked.
SettledButFailed == {"submitted", "aborted"}

\* markTasksComplete leaves these alone.
Settled == {"submitted", "failed", "aborted"}

Mark ==
    /\ at = "mark" /\ at' = "release"
    /\ db' = [t \in Tasks |-> IF t \in ids /\ db[t] \notin Settled \cup {"none"}
                              THEN "submitted" ELSE db[t]]
    /\ UNCHANGED <<block, fresh, noteLock, want, ids, restarts, env>>

\* Python or SQLite fails; the handler logs the error and releases its lock.
QueryFails ==
    /\ at = "mark" /\ at' = "release"
    /\ UNCHANGED <<db, block, fresh, noteLock, want, ids, restarts, env>>

----------------------------------------------------------------------------
\* The process.

\* attachMdWatcher, and a first sync.  The signature is taken at the start.
Start ==
    /\ at = "down" /\ at' = "idle" /\ fresh' = TRUE /\ restarts' = 0
    /\ want' = Nothing /\ ids' = {} /\ UNCHANGED <<db, block, noteLock, env>>

\* An error outside the handlers (the watcher emits one): onCrash starts the
\* main loop again after a second, unless it has done so three times since a
\* first restart less than five minutes ago.
OnCrash(windowOver) ==
    /\ at = "idle" /\ kills < MaxKills /\ kills' = kills + 1
    /\ IF restarts < MaxRestarts \/ windowOver
       THEN restarts' = (IF windowOver THEN 1 ELSE restarts + 1) /\ UNCHANGED at
       ELSE at' = "down" /\ UNCHANGED restarts
    /\ UNCHANGED <<db, block, fresh, noteLock, want, ids, edits, moves, ticked>>

Kill ==
    /\ at # "down" /\ kills < MaxKills /\ kills' = kills + 1 /\ at' = "down"
    /\ noteLock' = IF noteLock = Nobody THEN noteLock ELSE [noteLock EXCEPT !.by = Dead]
    /\ UNCHANGED <<db, block, fresh, want, ids, restarts, edits, moves, ticked>>

\* The user saves the note with a box ticked or cleared.
Edit(t) ==
    /\ edits < MaxEdits /\ edits' = edits + 1 /\ t \in DOMAIN block /\ fresh' = FALSE
    /\ block' = [block EXCEPT ![t] = [box |-> IF @.box = "x" THEN " " ELSE "x", state |-> @.state]]
    /\ ticked' = IF block[t].box = "x" THEN ticked ELSE ticked \cup {t}
    /\ UNCHANGED <<db, noteLock, at, want, ids, restarts, moves, kills>>

\* The user saves the note with a change outside the block.
EditElsewhere ==
    /\ edits < MaxEdits /\ edits' = edits + 1 /\ fresh' = FALSE
    /\ UNCHANGED <<db, block, noteLock, at, want, ids, restarts, moves, kills, ticked>>

\* OpenClaw.
Move(t) ==
    /\ moves < MaxMoves /\ moves' = moves + 1
    /\ \E s \in States : <<db[t], s>> \in Moves /\ db' = [db EXCEPT ![t] = s]
    /\ UNCHANGED <<block, fresh, noteLock, at, want, ids, restarts, edits, kills, ticked>>

Lock(where, next) == TakeLock(where, next) \/ RemoveStale(where) \/ GiveUp(where)

Sync ==
    \/ Compare \/ Lock("sync lock", "sync pid") \/ WritePid("sync pid", "locked read")
    \/ LockedRead \/ Write \/ Sign
Handle ==
    \/ Lock("handle lock", "handle pid") \/ WritePid("handle pid", "read boxes")
    \/ ReadBoxes \/ Mark \/ QueryFails

DaemonNext ==
    \/ ReadRows \/ Notice \/ Sync \/ Handle \/ ReleaseLock \/ Start \/ Kill
    \/ EditElsewhere \/ \E over \in BOOLEAN : OnCrash(over)
    \/ \E t \in Tasks : Edit(t) \/ Move(t)

DaemonSpec == DaemonInit /\ [][DaemonNext]_daemonVars

\* The daemon goes on, the watchdog starts it again, and the interval of
\* fifteen seconds comes round whatever the other handler does.
FairDaemonSpec ==
    DaemonSpec /\ WF_daemonVars(Sync \/ Handle \/ ReleaseLock \/ Start) /\ SF_daemonVars(ReadRows)

----------------------------------------------------------------------------
\* Properties.

\* TypeOK: every variable keeps its type.
DaemonTypeOK ==
    /\ db \in [Tasks -> States] /\ DOMAIN block \subseteq Tasks /\ fresh \in BOOLEAN
    /\ noteLock \in {Nobody} \cup [by : {"daemon", Dead}, written : BOOLEAN]
    /\ ids \subseteq Tasks /\ restarts \in 0..MaxRestarts /\ ticked \subseteq Tasks

\* As long as OpenClaw never reopens a task, the daemon submits a task only
\* when the user has ticked its box, though failed tasks are shown ticked too.
OnlyTickedSubmitted ==
    [][\A t \in Tasks : db[t] # db'[t] /\ moves' = moves => t \in ticked]_daemonVars

\* When user, OpenClaw and crashes come to rest, note and table agree for good,
\* unless a kill has left an empty lock file.
Orphaned == noteLock # Nobody /\ noteLock.by = Dead /\ ~noteLock.written
EventuallyAgree == <>[](block = Rendered) \/ <>[]Orphaned

\* obsidian-blackboard-daemon.js:386 says the read inside the lock confirms
\* that the file has not changed underneath: no tick saved since the rows
\* were read is overwritten.
NoTickOverwritten ==
    [][at = "write" /\ at' = "sign" =>
          \A t \in DOMAIN block \cap DOMAIN want :
              block[t].box = "x" /\ block[t].state = want[t].state => want[t].box = "x"]_daemonVars
=============================================================================
