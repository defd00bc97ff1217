------------------------------ MODULE DailyLog ------------------------------
(***************************************************************************)
(* The .lock files of paths-and-io.js and the two append-only files that   *)
(* rebuilds write under them: the daily log, with withFileLock, and the    *)
(* patch log of enriched facts, with tryWithFileLock.  Several rebuilds    *)
(* run as separate processes and may be killed at any point; a new one has *)
(* a new pid.                                                              *)
(*                                                                         *)
(* fs.tryLockSync exists in no release of Node, so that the paths written  *)
(* for it are dead and the .lock file is the only lock.  One date's log    *)
(* and one record's patches are modelled; compactPatches has no caller.    *)
(***************************************************************************)
EXTENDS Naturals, Sequences, FiniteSets, SequencesExt

CONSTANTS Process, Ids, Facts,
          Batch,        \* the ids each process's build wants logged
          Enriched,     \* the facts each process's build extracts
          MaxCrashes,   \* bounds the kills
          Nobody, Dead

MAX_RETRIES == 3
Logs == {"log", "patches"}

ASSUME DailyLogAssumption ==
    /\ Batch \in [Process -> SUBSET Ids] /\ Enriched \in [Process -> SUBSET Facts]
    /\ \A p \in Process : IsFiniteSet(Batch[p])
    /\ MaxCrashes \in Nat /\ Nobody \notin Process /\ Dead \notin Process /\ Nobody # Dead
    /\ Nobody \notin [by : Process \cup {Dead}, written : BOOLEAN]

VARIABLES
    lock,       \* per file: Nobody, or by whom it was created and whether the pid is in it
    there,      \* which of the two files exist
    log,        \* the daily log, a sequence of ids
    patches,    \* the facts in the patch log
    build,      \* per process: at, the attempt, and the ids or facts it is about to write
    crashes,
    stolen      \* history: a live process's lock was unlinked by another

logVars == <<lock, there, log, patches, build, crashes, stolen>>

Idle == [at |-> "idle", attempt |-> 0, new |-> {}]

LogInit ==
    /\ lock = [f \in Logs |-> Nobody] /\ there = {} /\ log = <<>> /\ patches = {}
    /\ build = [p \in Process |-> Idle] /\ crashes = 0 /\ stolen = FALSE

At(p, where) == build[p].at = where

\* Process p goes on, with another set of what is new, or with another attempt.
Bring(p, where, new) == build' = [build EXCEPT ![p] = [at |-> where, attempt |-> @.attempt, new |-> new]]
Goto(p, where) == Bring(p, where, build[p].new)
Tried(p, where) == build' = [build EXCEPT ![p] = [at |-> where, attempt |-> @.attempt + 1, new |-> @.new]]

Mine(p, f) == lock[f] # Nobody /\ lock[f].by = p

\* Fault: only a lock of a pid that cannot be parsed is stale.
StaleNever(f) == lock[f] # Nobody /\ ~lock[f].written /\ lock[f].by = Dead

\* isStaleLock: a pid can be read and no such process lives.  An empty file,
\* and one that is gone again, are not stale.
Stale(f) == lock[f] # Nobody /\ lock[f].written /\ lock[f].by = Dead

\* openSync with wx.
Acquire(p, f) == lock[f] = Nobody /\ lock' = [lock EXCEPT ![f] = [by |-> p, written |-> FALSE]]

\* unlinkSync takes whatever file has the name.
UnlinkLock(p, f) ==
    /\ lock' = [lock EXCEPT ![f] = Nobody]
    /\ stolen' = (stolen \/ (lock[f] # Nobody /\ ~Mine(p, f) /\ lock[f].by # Dead))

\* Recording the pid goes to the file that was opened.
WritePid(p, f) == lock' = IF Mine(p, f) THEN [lock EXCEPT ![f].written = TRUE] ELSE lock

----------------------------------------------------------------------------
\* appendDailyLogs under withFileLock.

StartLog(p) ==
    /\ At(p, "idle") /\ Batch[p] # {}
    /\ build' = [build EXCEPT ![p] = [at |-> "ensure", attempt |-> 0, new |-> {}]]
    /\ UNCHANGED <<lock, there, log, patches, crashes, stolen>>

\* Before the lock is tried, and without it: a file that is not there is created,
\* or emptied, when another build has written it since.
Ensure(p) ==
    /\ At(p, "ensure") /\ Goto(p, IF "log" \in there THEN "open" ELSE "create")
    /\ UNCHANGED <<lock, there, log, patches, crashes, stolen>>

Create(p) ==
    /\ At(p, "create") /\ there' = there \cup {"log"} /\ log' = <<>> /\ Goto(p, "open")
    /\ UNCHANGED <<lock, patches, crashes, stolen>>

Open(p) ==
    /\ At(p, "open")
    /\ \/ Acquire(p, "log") /\ Tried(p, "pid")
       \/ lock["log"] # Nobody /\ UNCHANGED lock /\ Tried(p, "probe")
    /\ UNCHANGED <<there, log, patches, crashes, stolen>>

\* The next round of the loop; the backoff in between only takes time.
Again(p) == Goto(p, IF build[p].attempt < MAX_RETRIES THEN "ensure" ELSE "failed")

Probe(p) ==
    /\ At(p, "probe")
    /\ IF Stale("log") THEN Goto(p, "reclaim") ELSE Again(p)
    /\ UNCHANGED <<lock, there, log, patches, crashes, stolen>>

Reclaim(p) ==
    /\ At(p, "reclaim") /\ UnlinkLock(p, "log") /\ Again(p)
    /\ UNCHANGED <<there, log, patches, crashes>>

RecordPid(p) ==
    /\ At(p, "pid") /\ WritePid(p, "log") /\ Goto(p, "scan")
    /\ UNCHANGED <<there, log, patches, crashes, stolen>>

\* Fault: the ids in the file are not looked up.
ScanNothing(p) ==
    /\ At(p, "scan")
    /\ Bring(p, "append", Batch[p])
    /\ UNCHANGED <<lock, there, log, patches, crashes, stolen>>

\* scanExistingIds and the filter.
Scan(p) ==
    /\ At(p, "scan")
    /\ LET new == Batch[p] \ Range(log)
       IN  Bring(p, IF new = {} THEN "leave" ELSE "append", new)
    /\ UNCHANGED <<lock, there, log, patches, crashes, stolen>>

\* appendFileSync; then fsyncSync of the descriptor -1 throws.
AppendLines(p) ==
    /\ At(p, "append") /\ log' = log \o SetToSeq(build[p].new) /\ Goto(p, "unwind")
    /\ UNCHANGED <<lock, there, patches, crashes, stolen>>

\* The finally clause, after an error and without one.
Unwind(p) ==
    /\ At(p, "unwind") /\ UnlinkLock(p, "log") /\ Again(p)
    /\ UNCHANGED <<there, log, patches, crashes>>
Leave(p) ==
    /\ At(p, "leave") /\ UnlinkLock(p, "log") /\ Goto(p, "logged")
    /\ UNCHANGED <<there, log, patches, crashes>>

\* The build goes on, or ends with the error it was thrown.
EndBuild(p) ==
    /\ build[p].at \in {"logged", "failed", "patched", "skipped"}
    /\ build' = [build EXCEPT ![p] = Idle]
    /\ UNCHANGED <<lock, there, log, patches, crashes, stolen>>

----------------------------------------------------------------------------
\* patchJsonlRecord under tryWithFileLock, one attempt.

\* The facts already in the patch log are read before the lock is tried.
StartPatch(p) ==
    /\ At(p, "idle") /\ Enriched[p] # {}
    /\ build' = [build EXCEPT ![p] = [at |-> "try ensure", attempt |-> 0, new |-> patches \cup Enriched[p]]]
    /\ UNCHANGED <<lock, there, log, patches, crashes, stolen>>

TryEnsure(p) ==
    /\ At(p, "try ensure") /\ Goto(p, IF "patches" \in there THEN "try" ELSE "try create")
    /\ UNCHANGED <<lock, there, log, patches, crashes, stolen>>

TryCreate(p) ==
    /\ At(p, "try create") /\ there' = there \cup {"patches"} /\ patches' = {} /\ Goto(p, "try")
    /\ UNCHANGED <<lock, log, crashes, stolen>>

TryOpen(p) ==
    /\ At(p, "try")
    /\ \/ Acquire(p, "patches") /\ Goto(p, "try pid")
       \/ lock["patches"] # Nobody /\ UNCHANGED lock /\ Goto(p, "try probe")
    /\ UNCHANGED <<there, log, patches, crashes, stolen>>

TryProbe(p) ==
    /\ At(p, "try probe") /\ Goto(p, IF Stale("patches") THEN "try reclaim" ELSE "skipped")
    /\ UNCHANGED <<lock, there, log, patches, crashes, stolen>>

TryReclaim(p) ==
    /\ At(p, "try reclaim") /\ UnlinkLock(p, "patches") /\ Goto(p, "try again")
    /\ UNCHANGED <<there, log, patches, crashes>>

\* The second open is not guarded: it throws when another was faster, which
\* counts as not acquired.
TryAgain(p) ==
    /\ At(p, "try again")
    /\ \/ Acquire(p, "patches") /\ Goto(p, "try pid")
       \/ lock["patches"] # Nobody /\ UNCHANGED lock /\ Goto(p, "skipped")
    /\ UNCHANGED <<there, log, patches, crashes, stolen>>

TryPid(p) ==
    /\ At(p, "try pid") /\ WritePid(p, "patches") /\ Goto(p, "try append")
    /\ UNCHANGED <<there, log, patches, crashes, stolen>>

TryAppend(p) ==
    /\ At(p, "try append") /\ patches' = patches \cup build[p].new /\ Goto(p, "try leave")
    /\ UNCHANGED <<lock, there, log, crashes, stolen>>

TryLeave(p) ==
    /\ At(p, "try leave") /\ UnlinkLock(p, "patches") /\ Goto(p, "patched")
    /\ UNCHANGED <<there, log, patches, crashes>>

\* readJsonlWithPatches: what a reader finds for the record, base \cup patches.
View(base) == base \cup patches

----------------------------------------------------------------------------

\* The lock file stays, with a pid that is no longer alive, or empty.
Crash(p) ==
    /\ build[p].at # "idle" /\ crashes < MaxCrashes /\ crashes' = crashes + 1
    /\ lock' = [f \in Logs |-> IF Mine(p, f) THEN [lock[f] EXCEPT !.by = Dead] ELSE lock[f]]
    /\ build' = [build EXCEPT ![p] = Idle]
    /\ UNCHANGED <<there, log, patches, stolen>>

Step(p) ==
    \/ Ensure(p) \/ Create(p) \/ Open(p) \/ Probe(p) \/ Reclaim(p) \/ RecordPid(p) \/ Scan(p)
    \/ AppendLines(p) \/ Unwind(p) \/ Leave(p) \/ EndBuild(p)
    \/ TryEnsure(p) \/ TryCreate(p) \/ TryOpen(p) \/ TryProbe(p) \/ TryReclaim(p) \/ TryAgain(p) \/ TryPid(p)
    \/ TryAppend(p) \/ TryLeave(p)

LogNext == \E p \in Process : StartLog(p) \/ StartPatch(p) \/ Step(p) \/ Crash(p)

LogSpec == LogInit /\ [][LogNext]_logVars

\* A process that runs goes on; which builds are started is left open.
FairLogSpec == LogSpec /\ \A p \in Process : WF_logVars(Step(p))

----------------------------------------------------------------------------
\* Properties.

InLog(p) == build[p].at \in {"pid", "scan", "append", "unwind", "leave"}
InPatches(p) == build[p].at \in {"try pid", "try append", "try leave"}

\* LogTypeOK: every variable keeps its type.
LogTypeOK ==
    /\ lock \in [Logs -> {Nobody} \cup [by : Process \cup {Dead}, written : BOOLEAN]]
    /\ there \subseteq Logs /\ log \in Seq(Ids) /\ patches \subseteq Facts
    /\ crashes \in 0..MaxCrashes /\ stolen \in BOOLEAN
    /\ \A p \in Process : build[p].attempt \in 0..MAX_RETRIES /\ build[p].new \subseteq Ids \cup Facts

\* Two builds are inside the same lock only after somebody unlinked the lock of
\* a live process, which two that reclaim the same stale lock may do.
OneInsideUnlessStolen ==
    stolen \/ \A p, q \in Process :
                 (InLog(p) /\ InLog(q)) \/ (InPatches(p) /\ InPatches(q)) => p = q

\* The retry after the failing fsync, a crash and competing builds log an id
\* once, unless a lock was stolen.
LoggedOnce == stolen \/ \A i, j \in DOMAIN log : log[i] = log[j] => i = j

\* memory-layers-dedup.js:297 has the lock around the full cycle of reading,
\* changing and writing: appendDailyLogs returns without an error only when its
\* batch is in the log.  It does not hold: the file is created outside the lock.
ReturnsLogged == \A p \in Process : At(p, "logged") => Batch[p] \subseteq Range(log)

\* When no crash leaves an empty lock file behind, builds that end up having
\* the store to themselves get their ids and facts written, stale locks
\* notwithstanding, if they are started often enough.
Orphaned == \E f \in Logs : lock[f] # Nobody /\ lock[f].by = Dead /\ ~lock[f].written
EventuallyWritten ==
    \A p \in Process :
        []~Orphaned /\ <>[](\A q \in Process \ {p} : At(q, "idle")) =>
            /\ []<>At(p, "open") => <>(Batch[p] \subseteq Range(log))
            /\ []<>At(p, "try") => <>(Enriched[p] \subseteq View({}))

\* paths-and-io.js:152 says the lock of a dead owner can be reclaimed instead
\* of blocking forever: builds that keep trying do not keep finding it.
DeadOwnersLockIsReclaimed ==
    \A p \in Process : []<>At(p, "open") => ~<>[](lock["log"] # Nobody /\ lock["log"].by = Dead)
=============================================================================
