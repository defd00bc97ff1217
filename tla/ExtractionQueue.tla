--------------------------- MODULE ExtractionQueue ---------------------------
(***************************************************************************)
(* The Stop hook and the SessionStart replay                               *)
(* (hooks/stop-hook-llm-extract): short-lived processes that share the     *)
(* retry queue pending-extractions.jsonl under a lock file, which a later  *)
(* process removes when it is more than 30 seconds old.                    *)
(*                                                                         *)
(* One action is one system call on a shared file, or several that touch   *)
(* different files nobody else writes.  A process can be killed anywhere   *)
(* and suspended anywhere.  The queue's rename replaces the file at once   *)
(* (POSIX).                                                                *)
(***************************************************************************)
EXTENDS Naturals, FiniteSets

CONSTANTS
    Hook,        \* Stop hook processes
    Replayer,    \* SessionStart replay processes
    Session,
    NoSession,
    MaxReplay    \* DEFAULT_MAX_REPLAY

ASSUME QueueAssumption ==
    /\ Hook \cap Replayer = {}
    /\ NoSession \notin Session
    /\ MaxReplay \in Nat \ {0}

Process == Hook \cup Replayer

VARIABLES
    pending,      \* sessions queued in pending-extractions.jsonl
    facts,        \* sessions with extracted facts in projects/*.jsonl
    placeholder,  \* sessions with an extraction_failed record there
    inbox,        \* sessions with a replayed record in shared-inbox.jsonl
    lock,         \* the queue's lock file; "stale": older than staleLockMs
    pc,           \* where each process is; "idle": it does not run
    sess,         \* the session it works on
    seen,         \* the queue as it read it inside the lock
    todo,         \* the replay's records still to visit
    left,         \* successful replays left
    counted,      \* the removal ends a successful replay
    overlapped    \* history: two processes have been inside the lock at once

files == <<pending, facts, placeholder, inbox>>
locals == <<sess, seen, todo, left, counted>>
vars == <<files, lock, pc, locals, overlapped>>

Holding == {"inside", "rewriting", "releasing", "unwinding"}

TypeOK ==
    /\ pending \subseteq Session /\ facts \subseteq Session
    /\ placeholder \subseteq Session /\ inbox \subseteq Session
    /\ lock \in {"free", "fresh", "stale"}
    /\ pc \in [Process -> {"idle", "extracting", "locking", "stealing", "placeholder",
                           "choosing"} \cup Holding]
    /\ sess \in [Process -> Session \cup {NoSession}]
    /\ seen \in [Process -> SUBSET Session]
    /\ todo \in [Process -> SUBSET Session]
    /\ left \in [Process -> 0..MaxReplay]
    /\ counted \in [Process -> BOOLEAN]
    /\ overlapped \in BOOLEAN

Init ==
    /\ pending = {} /\ facts = {} /\ placeholder = {} /\ inbox = {}
    /\ lock = "free"
    /\ pc = [p \in Process |-> "idle"]
    /\ sess = [p \in Process |-> NoSession]
    /\ seen = [p \in Process |-> {}]
    /\ todo = [p \in Process |-> {}]
    /\ left = [p \in Process |-> 0]
    /\ counted = [p \in Process |-> FALSE]
    /\ overlapped = FALSE

-----------------------------------------------------------------------------
(* Helpers *)

Inside == {p \in Process : pc[p] \in Holding}

Goto(p, label) == pc' = [pc EXCEPT ![p] = label]

\* The process ends and what it knew is gone.
Ends(p) ==
    /\ Goto(p, "idle")
    /\ sess' = [sess EXCEPT ![p] = NoSession]
    /\ seen' = [seen EXCEPT ![p] = {}]
    /\ todo' = [todo EXCEPT ![p] = {}]
    /\ left' = [left EXCEPT ![p] = 0]
    /\ counted' = [counted EXCEPT ![p] = FALSE]

\* A replay goes on with its next record.
NextRecord(p) ==
    /\ Goto(p, "choosing")
    /\ sess' = [sess EXCEPT ![p] = NoSession]
    /\ seen' = [seen EXCEPT ![p] = {}]
    /\ counted' = [counted EXCEPT ![p] = FALSE]
    /\ UNCHANGED todo

\* An exception under the lock or while waiting for it.  The replay survives it
\* only in the try block, that is, after an extraction.
Throw(p) ==
    IF p \in Replayer /\ counted[p]
    THEN NextRecord(p) /\ UNCHANGED left
    ELSE Ends(p)

-----------------------------------------------------------------------------
(* acquireLock and withFileLock *)

Acquire(p) ==
    /\ pc[p] = "locking" /\ lock = "free"
    /\ lock' = "fresh"
    /\ Goto(p, "inside")
    /\ overlapped' = (overlapped \/ Inside # {})
    /\ UNCHANGED <<files, locals>>

\* Fault: an old lock is polled like a fresh one.
PollStale(p) ==
    /\ pc[p] = "locking" /\ lock = "stale"
    /\ UNCHANGED vars

\* The lock exists and its age says that its owner is gone...
FindStale(p) ==
    /\ pc[p] = "locking" /\ lock = "stale"
    /\ Goto(p, "stealing")
    /\ UNCHANGED <<files, lock, locals, overlapped>>

\* ...so the file is unlinked, whoever made it by now.
Steal(p) ==
    /\ pc[p] = "stealing"
    /\ lock' = "free"
    /\ Goto(p, "locking")
    /\ UNCHANGED <<files, locals, overlapped>>

LockTimeout(p) ==
    /\ pc[p] = "locking" /\ lock = "fresh"
    /\ Throw(p)
    /\ UNCHANGED <<files, lock, overlapped>>

\* A read, append or rename under the lock fails.
IOFails(p) ==
    /\ pc[p] \in {"inside", "rewriting"}
    /\ Goto(p, "unwinding")
    /\ UNCHANGED <<files, lock, locals, overlapped>>

\* The finally block unlinks the lock file, whoever made it by now.  A hook then
\* writes its placeholder; a replay counts and goes on.
Release(p) ==
    /\ pc[p] = "releasing"
    /\ lock' = "free"
    /\ IF p \in Hook
       THEN Goto(p, "placeholder") /\ UNCHANGED locals
       ELSE /\ left' = [left EXCEPT ![p] = IF counted[p] THEN left[p] - 1 ELSE left[p]]
            /\ NextRecord(p)
    /\ UNCHANGED <<files, overlapped>>

Unwind(p) ==
    /\ pc[p] = "unwinding"
    /\ lock' = "free"
    /\ Throw(p)
    /\ UNCHANGED <<files, overlapped>>

-----------------------------------------------------------------------------
(* stop-extract.mjs *)

\* The project's file has a record of the session, of facts or of a failure.
Processed(s) == s \in facts \cup placeholder

\* A session stops that has no record yet.
Stop(h, s) ==
    /\ pc[h] = "idle" /\ ~Processed(s)
    /\ Goto(h, "extracting")
    /\ sess' = [sess EXCEPT ![h] = s]
    /\ UNCHANGED <<files, lock, seen, todo, left, counted, overlapped>>

Extracted(h) ==
    /\ pc[h] = "extracting"
    /\ facts' = facts \cup {sess[h]}
    /\ Ends(h)
    /\ UNCHANGED <<pending, placeholder, inbox, lock, overlapped>>

\* Fault: the failure record comes first.
ExtractionFailsPlaceholderFirst(h) ==
    /\ pc[h] = "extracting"
    /\ Goto(h, "locking")
    /\ placeholder' = placeholder \cup {sess[h]}
    /\ UNCHANGED <<pending, facts, inbox, lock, locals, overlapped>>

\* No answer, or the record of the facts cannot be appended: queue the session.
ExtractionFails(h) ==
    /\ pc[h] = "extracting"
    /\ Goto(h, "locking")
    /\ UNCHANGED <<files, lock, locals, overlapped>>

AppendRequest(h) ==
    /\ pc[h] = "inside"
    /\ pending' = pending \cup {sess[h]}
    /\ Goto(h, "releasing")
    /\ UNCHANGED <<facts, placeholder, inbox, lock, locals, overlapped>>

\* The failure record; or its lock times out and the hook ends without it.
WritePlaceholder(h) ==
    /\ pc[h] = "placeholder"
    /\ placeholder' = placeholder \cup {sess[h]}
    /\ Ends(h)
    /\ UNCHANGED <<pending, facts, inbox, lock, overlapped>>

PlaceholderFails(h) ==
    /\ pc[h] = "placeholder"
    /\ Ends(h)
    /\ UNCHANGED <<files, lock, overlapped>>

-----------------------------------------------------------------------------
(* session-start-replay.mjs *)

\* The queue is read without the lock.
StartReplay(r) ==
    /\ pc[r] = "idle" /\ pending # {}
    /\ Goto(r, "choosing")
    /\ todo' = [todo EXCEPT ![r] = pending]
    /\ left' = [left EXCEPT ![r] = MaxReplay]
    /\ UNCHANGED <<files, lock, sess, seen, counted, overlapped>>

\* The shared inbox has a record of the session.
Replayed(s) == s \in inbox

\* The next record: one that has its result is only removed.
Choose(r, s) ==
    /\ pc[r] = "choosing" /\ left[r] > 0 /\ s \in todo[r]
    /\ sess' = [sess EXCEPT ![r] = s]
    /\ todo' = [todo EXCEPT ![r] = @ \ {s}]
    /\ Goto(r, IF Replayed(s) THEN "locking" ELSE "extracting")
    /\ UNCHANGED <<files, lock, seen, left, counted, overlapped>>

EndReplay(r) ==
    /\ pc[r] = "choosing" /\ (left[r] = 0 \/ todo[r] = {})
    /\ Ends(r)
    /\ UNCHANGED <<files, lock, overlapped>>

\* No transcript, no answer or no result: the record stays.
ReplayFails(r) ==
    /\ pc[r] = "extracting"
    /\ NextRecord(r)
    /\ UNCHANGED <<files, lock, left, overlapped>>

\* writeResult; when the markdown note fails after the record was written, the
\* record stays queued.
WriteResult(r) ==
    /\ pc[r] = "extracting"
    /\ inbox' = inbox \cup {sess[r]}
    /\ \/ /\ Goto(r, "locking")
          /\ counted' = [counted EXCEPT ![r] = TRUE]
          /\ UNCHANGED <<sess, seen, todo>>
       \/ NextRecord(r)
    /\ UNCHANGED <<pending, facts, placeholder, lock, left, overlapped>>

\* removeJsonlRecords: read the queue...
ReadQueue(r) ==
    /\ pc[r] = "inside"
    /\ IF sess[r] \in pending
       THEN Goto(r, "rewriting") /\ seen' = [seen EXCEPT ![r] = pending]
       ELSE Goto(r, "releasing") /\ UNCHANGED seen
    /\ UNCHANGED <<files, lock, sess, todo, left, counted, overlapped>>

Retained(r) == seen[r] \ {sess[r]}

\* ...and replace it by what is left of it.
RewriteQueue(r) ==
    /\ pc[r] = "rewriting"
    /\ pending' = Retained(r)
    /\ Goto(r, "releasing")
    /\ UNCHANGED <<facts, placeholder, inbox, lock, locals, overlapped>>

-----------------------------------------------------------------------------
(* The environment *)

\* 30 seconds pass: the owner is gone, or suspended.
LockAges ==
    /\ lock = "fresh"
    /\ lock' = "stale"
    /\ UNCHANGED <<files, pc, locals, overlapped>>

\* The process is killed; Claude Code gives a hook 30 seconds (hooks.json).
Killed(p) ==
    /\ pc[p] # "idle"
    /\ Ends(p)
    /\ UNCHANGED <<files, lock, overlapped>>

-----------------------------------------------------------------------------

LockStep(p) ==
    \/ Acquire(p) \/ FindStale(p) \/ Steal(p) \/ LockTimeout(p)
    \/ IOFails(p) \/ Release(p) \/ Unwind(p)

HookStep(h) ==
    \/ \E s \in Session : Stop(h, s)
    \/ Extracted(h) \/ ExtractionFails(h) \/ AppendRequest(h)
    \/ WritePlaceholder(h) \/ PlaceholderFails(h)

ReplayStep(r) ==
    \/ \E s \in Session : Choose(r, s)
    \/ StartReplay(r) \/ EndReplay(r) \/ ReplayFails(r) \/ WriteResult(r)
    \/ ReadQueue(r) \/ RewriteQueue(r)

Next ==
    \/ \E p \in Process : LockStep(p) \/ Killed(p)
    \/ \E h \in Hook : HookStep(h)
    \/ \E r \in Replayer : ReplayStep(r)
    \/ LockAges

Spec == Init /\ [][Next]_vars

\* A step that ends a process as a kill would, but in order.
Completes(p) ==
    \/ EndReplay(p)
    \/ p \in Hook /\ (Extracted(p) \/ WritePlaceholder(p))

\* What goes wrong: kills, failed calls, and a lock waited for in vain.
Fault ==
    \/ \E p \in Process : (Killed(p) /\ ~Completes(p)) \/ LockTimeout(p) \/ IOFails(p)
    \/ \E r \in Replayer : ReplayFails(r) \/ (WriteResult(r) /\ pc'[r] = "choosing")

\* Processes run, an abandoned lock ages, sessions keep starting, and at some
\* point nothing goes wrong any more.
Fairness ==
    /\ \A p \in Process : WF_vars(LockStep(p))
    /\ \A h \in Hook : WF_vars(HookStep(h) /\ pc[h] # "idle")
    /\ \A r \in Replayer : WF_vars(ReplayStep(r))
    /\ WF_vars(LockAges)
    /\ <>[][~Fault]_vars

FairSpec == Spec /\ Fairness

-----------------------------------------------------------------------------
(* Properties that hold *)

\* A queued request leaves the queue only when its result is in the shared
\* inbox, through kills, timeouts, stolen locks and concurrent replays, as long
\* as the lock never let two processes in (removeJsonlRecords rewrites the file
\* from what it read).
RequestKept ==
    [][\A s \in pending \ pending' : s \in inbox \/ overlapped]_vars

\* A failure record, which keeps the Stop hook from ever trying the session
\* again, is there only with the session queued or replayed (main's order).
NoSilentLoss ==
    placeholder \subseteq pending \cup inbox \/ overlapped

\* Every queued request is replayed and removed, abandoned locks included.
QueueDrains ==
    \A s \in Session : (s \in pending) ~> (s \notin pending \/ overlapped)

-----------------------------------------------------------------------------
(* What the code does not guarantee *)

\* The lock excludes: two processes that judge the same lock stale both get in,
\* and so does one while the owner of a lock sleeps.
LockExcludes == ~overlapped

\* A session is replayed once: the check and the append share no lock.
ReplayedOnce ==
    [][\A r \in Replayer : WriteResult(r) => sess[r] \notin inbox]_vars
=============================================================================
