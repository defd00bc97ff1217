------------------------ MODULE ExtractionQueueProofs ------------------------
(***************************************************************************)
(* Proofs about ExtractionQueue for any sets of hooks, replays and         *)
(* sessions and any replay limit, and about BlackboardDaemon and           *)
(* MemoryBridge for any tasks, calls and observations.                     *)
(***************************************************************************)
EXTENDS ExtractionQueue, MemoryBridge, SequenceTheorems, TLAPS

\* A process past its choice works on a session.
HasSession == \A p \in Process : pc[p] \notin {"idle", "choosing"} => sess[p] \in Session

\* A replay that works on a record has not used up its limit.
LeftWhileBusy ==
    \A r \in Replayer :
        pc[r] \in {"extracting", "locking", "stealing"} \cup Holding => left[r] > 0

\* overlapped remembers that the lock failed to exclude.
HolderUnique == ~overlapped => \A p, q \in Inside : p = q

\* So nobody changes the queue between a replay's read and its rename.
SeenIsQueue == ~overlapped => \A p \in Process : pc[p] = "rewriting" => seen[p] = pending

\* A replay asks for the lock only to remove a session that has its result.
RemovesReplayed ==
    \A r \in Replayer : pc[r] \in {"locking", "stealing"} \cup Holding => sess[r] \in inbox

\* What a hook has queued is there when it writes the failure record.
AppendedStays ==
    ~overlapped => \A h \in Hook :
        pc[h] \in {"releasing", "placeholder"} => sess[h] \in pending \cup inbox

IInv ==
    /\ TypeOK /\ HasSession /\ LeftWhileBusy
    /\ HolderUnique /\ SeenIsQueue /\ RemovesReplayed /\ AppendedStays
    /\ NoSilentLoss

-----------------------------------------------------------------------------

LEMMA IInit == Init => IInv
<1> SUFFICES ASSUME Init PROVE IInv
  OBVIOUS
<1>1. TypeOK
  <2>1. left \in [Process -> 0..MaxReplay]
    BY QueueAssumption DEF Init
  <2>2. seen \in [Process -> SUBSET Session] /\ todo \in [Process -> SUBSET Session]
    BY DEF Init
  <2>3. QED BY <2>1, <2>2 DEF Init, TypeOK
<1>2. HasSession /\ LeftWhileBusy /\ RemovesReplayed
  BY DEF Init, HasSession, LeftWhileBusy, RemovesReplayed, Holding, Process
<1>3. HolderUnique /\ SeenIsQueue /\ AppendedStays /\ NoSilentLoss
  BY DEF Init, HolderUnique, SeenIsQueue, AppendedStays, NoSilentLoss, Inside, Holding, Process
<1>4. QED BY <1>1, <1>2, <1>3 DEF IInv

\* A process that ends, or a replay that goes on with its next record, disturbs
\* nothing: the files are as they were.
LEMMA Leaving ==
    ASSUME IInv, NEW p \in Process,
           Ends(p) \/ (p \in Replayer /\ NextRecord(p) /\ left'[p] \in 0..MaxReplay
                       /\ left' = [left EXCEPT ![p] = left'[p]]),
           UNCHANGED <<files, overlapped>>, lock' \in {"free", "fresh", "stale"}
    PROVE  IInv'
<1>1. TypeOK'
  <2>1. CASE Ends(p)
    BY <2>1, QueueAssumption DEF Ends, Goto, IInv, TypeOK, files
  <2>2. CASE NextRecord(p) /\ left'[p] \in 0..MaxReplay /\ left' = [left EXCEPT ![p] = left'[p]]
    BY <2>2 DEF NextRecord, Goto, IInv, TypeOK, files
  <2>3. QED BY <2>1, <2>2
<1>2. /\ pc'[p] \in {"idle", "choosing"}
      /\ \A q \in Process \ {p} : /\ pc'[q] = pc[q] /\ sess'[q] = sess[q]
                                  /\ seen'[q] = seen[q] /\ left'[q] = left[q]
  BY DEF Ends, NextRecord, Goto, IInv, TypeOK
<1>3. HasSession' /\ LeftWhileBusy' /\ RemovesReplayed'
  BY <1>2 DEF IInv, HasSession, LeftWhileBusy, RemovesReplayed, Holding, Process, files
<1>4. HolderUnique' /\ SeenIsQueue'
  BY <1>2 DEF IInv, HolderUnique, SeenIsQueue, Inside, Holding, files
<1>5. AppendedStays' /\ NoSilentLoss'
  BY <1>2 DEF IInv, AppendedStays, NoSilentLoss, Process, files
<1>6. QED BY <1>1, <1>3, <1>4, <1>5 DEF IInv

\* An exception is one of the two.
LEMMA Thrown ==
    ASSUME IInv, NEW p \in Process, Throw(p),
           UNCHANGED <<files, overlapped>>, lock' \in {"free", "fresh", "stale"}
    PROVE  IInv'
<1>1. CASE p \in Replayer /\ counted[p]
  <2>1. left'[p] \in 0..MaxReplay /\ left' = [left EXCEPT ![p] = left'[p]]
    BY <1>1 DEF Throw, IInv, TypeOK
  <2>2. QED BY <1>1, <2>1, Leaving DEF Throw
<1>2. CASE ~(p \in Replayer /\ counted[p])
  BY <1>2, Leaving DEF Throw
<1>3. QED BY <1>1, <1>2

LEMMA LockSteps ==
    ASSUME IInv, NEW p \in Process, LockStep(p) \/ Killed(p)
    PROVE  IInv'
<1> USE DEF IInv, TypeOK, HasSession, LeftWhileBusy, HolderUnique, SeenIsQueue,
            RemovesReplayed, AppendedStays, NoSilentLoss, Inside, Holding, Process,
            Goto, files, locals
<1>1. CASE Acquire(p)
  BY <1>1 DEF Acquire
<1>2. CASE FindStale(p)
  BY <1>2 DEF FindStale
<1>3. CASE Steal(p)
  BY <1>3 DEF Steal
<1>4. CASE IOFails(p)
  BY <1>4 DEF IOFails
<1>5. CASE LockTimeout(p)
  BY <1>5, Thrown DEF LockTimeout
<1>6. CASE Unwind(p)
  BY <1>6, Thrown DEF Unwind
<1>7. CASE Killed(p)
  BY <1>7, Leaving DEF Killed
<1>8. CASE Release(p)
  <2>1. CASE p \in Hook
    BY <1>8, <2>1, QueueAssumption DEF Release
  <2>2. CASE p \in Replayer
    <3>1. left[p] \in 1..MaxReplay
      BY <1>8, <2>2 DEF Release
    <3>2. left'[p] \in 0..MaxReplay /\ left' = [left EXCEPT ![p] = left'[p]]
      BY <1>8, <2>2, <3>1, QueueAssumption DEF Release
    <3>3. NextRecord(p) /\ UNCHANGED <<files, overlapped>> /\ lock' = "free"
      BY <1>8, <2>2, QueueAssumption DEF Release
    <3>4. QED BY <2>2, <3>2, <3>3, Leaving
  <2>3. QED BY <2>1, <2>2
<1>9. QED BY <1>1, <1>2, <1>3, <1>4, <1>5, <1>6, <1>7, <1>8 DEF LockStep

LEMMA HookSteps ==
    ASSUME IInv, NEW h \in Hook, HookStep(h)
    PROVE  IInv'
<1> USE QueueAssumption
    DEF IInv, TypeOK, HasSession, LeftWhileBusy, HolderUnique, SeenIsQueue,
        RemovesReplayed, AppendedStays, NoSilentLoss, Inside, Holding, Process,
        Goto, files, locals
<1>1. ASSUME NEW s \in Session, Stop(h, s) PROVE IInv'
  BY <1>1 DEF Stop, Processed
<1>2. CASE Extracted(h)
  BY <1>2 DEF Extracted, Ends
<1>3. CASE ExtractionFails(h)
  BY <1>3 DEF ExtractionFails
<1>4. CASE AppendRequest(h)
  BY <1>4 DEF AppendRequest
<1>5. CASE WritePlaceholder(h)
  BY <1>5 DEF WritePlaceholder, Ends
<1>6. CASE PlaceholderFails(h)
  BY <1>6, Leaving DEF PlaceholderFails
<1>7. QED BY <1>1, <1>2, <1>3, <1>4, <1>5, <1>6 DEF HookStep

LEMMA ReplaySteps ==
    ASSUME IInv, NEW r \in Replayer, ReplayStep(r)
    PROVE  IInv'
<1> USE QueueAssumption
    DEF IInv, TypeOK, HasSession, LeftWhileBusy, HolderUnique, SeenIsQueue,
        RemovesReplayed, AppendedStays, NoSilentLoss, Inside, Holding, Process,
        Goto, files, locals
<1>1. ASSUME NEW s \in Session, Choose(r, s) PROVE IInv'
  BY <1>1 DEF Choose, Replayed
<1>2. CASE StartReplay(r)
  BY <1>2 DEF StartReplay
<1>3. CASE EndReplay(r)
  BY <1>3, Leaving DEF EndReplay
<1>4. CASE ReplayFails(r)
  BY <1>4 DEF ReplayFails, NextRecord
<1>5. CASE WriteResult(r)
  <2>1. inbox' \subseteq Session
    BY <1>5 DEF WriteResult
  <2>2. CASE NextRecord(r)
    BY <1>5, <2>1, <2>2 DEF WriteResult, NextRecord
  <2>3. CASE /\ pc' = [pc EXCEPT ![r] = "locking"]
             /\ counted' = [counted EXCEPT ![r] = TRUE]
             /\ UNCHANGED <<sess, seen, todo>>
    <3>1. TypeOK'
      BY <1>5, <2>1, <2>3 DEF WriteResult
    <3>2. HasSession' /\ LeftWhileBusy' /\ RemovesReplayed'
      BY <1>5, <2>3 DEF WriteResult
    <3>3. HolderUnique' /\ SeenIsQueue' /\ AppendedStays' /\ NoSilentLoss'
      BY <1>5, <2>3 DEF WriteResult
    <3>4. QED BY <3>1, <3>2, <3>3
  <2>4. QED BY <1>5, <2>2, <2>3 DEF WriteResult
<1>6. CASE ReadQueue(r)
  BY <1>6 DEF ReadQueue
<1>7. CASE RewriteQueue(r)
  BY <1>7 DEF RewriteQueue, Retained
<1>8. QED BY <1>1, <1>2, <1>3, <1>4, <1>5, <1>6, <1>7 DEF ReplayStep

LEMMA IStep == IInv /\ [Next]_vars => IInv'
<1> SUFFICES ASSUME IInv, [Next]_vars PROVE IInv'
  OBVIOUS
<1>1. CASE LockAges \/ UNCHANGED vars
  BY <1>1 DEF LockAges, vars, IInv, TypeOK, HasSession, LeftWhileBusy, HolderUnique,
     SeenIsQueue, RemovesReplayed, AppendedStays, NoSilentLoss, Inside, files, locals
<1>2. QED BY <1>1, LockSteps, HookSteps, ReplaySteps DEF Next

-----------------------------------------------------------------------------

\* The inductive invariant holds.
THEOREM QueueIInv == Spec => []IInv
BY IInit, IStep, PTL DEF Spec

\* The state of files, lock and processes keeps its types.
THEOREM QueueTypeOK == Spec => []TypeOK
<1>1. IInv => TypeOK
  BY DEF IInv
<1>2. QED BY <1>1, QueueIInv, PTL

\* No failure record without its request or its result (stop-extract.mjs main).
THEOREM QueueNoSilentLoss == Spec => []NoSilentLoss
<1>1. IInv => NoSilentLoss
  BY DEF IInv
<1>2. QED BY <1>1, QueueIInv, PTL

\* A request leaves the queue only with its result written, as long as the lock
\* excludes (removeJsonlRecords).
THEOREM QueueRequestKept == Spec => RequestKept
<1>1. IInv /\ [Next]_vars => [\A s \in pending \ pending' : s \in inbox \/ overlapped]_vars
  <2> SUFFICES ASSUME IInv, [Next]_vars, ~overlapped,
                      NEW s \in pending, s \notin pending'
               PROVE  s \in inbox
    OBVIOUS
  <2>1. PICK r \in Replayer : RewriteQueue(r)
    BY DEF Next, LockStep, HookStep, ReplayStep, vars, files, Acquire, FindStale, Steal,
       LockTimeout, IOFails, Release, Unwind, Killed, Stop, Processed, Extracted, ExtractionFails,
       AppendRequest, WritePlaceholder, PlaceholderFails, StartReplay, Choose, Replayed, EndReplay,
       ReplayFails, WriteResult, ReadQueue, LockAges
  <2>2. pending' = pending \ {sess[r]}
    BY <2>1 DEF RewriteQueue, Retained, IInv, SeenIsQueue, Process
  <2>3. sess[r] \in inbox
    BY <2>1 DEF RewriteQueue, IInv, RemovesReplayed, Holding
  <2>4. QED BY <2>2, <2>3
<1>2. QED BY <1>1, QueueIInv, PTL DEF Spec, RequestKept

----------------------------------------------------------------------------
(* The blackboard daemon and the bridges. *)

\* OpenClaw never reopens a task.
NeverReopened == \A m \in Moves : m[1] \in Settled => m[2] \in Settled

\* A box that is ticked in the note, has been read, or is about to be written is
\* the user's, or the task is settled.
OwedToUser(t) == t \in ticked \/ db[t] \in Settled
BoxesOwed ==
    /\ ids \subseteq Tasks /\ DOMAIN block \subseteq Tasks /\ DOMAIN want \subseteq Tasks
    /\ db = [t \in Tasks |-> db[t]] /\ moves \in Nat
    /\ \A t \in ids : OwedToUser(t)
    /\ \A t \in DOMAIN block : block[t].box = "x" => OwedToUser(t)
    /\ \A t \in DOMAIN want : want[t].box = "x" => db[t] \in Settled

LEMMA BoxesStart == DaemonInit => BoxesOwed
  BY DEF DaemonInit, BoxesOwed, Nothing

LEMMA RenderedIs ==
    /\ DOMAIN Rendered \subseteq Tasks
    /\ \A t \in DOMAIN Rendered : Rendered[t].box = "x" => db[t] \in Settled
  BY DEF Rendered, Rows, Settled

\* Another state of task t, which OpenClaw may give it.
LEMMA MoveKeepsOwed ==
    ASSUME NeverReopened, BoxesOwed, NEW t \in Tasks, Move(t)
    PROVE  BoxesOwed'
<1>1. PICK s \in States : <<db[t], s>> \in Moves /\ db' = [db EXCEPT ![t] = s]
  BY DEF Move
<1>2. <<db[t], s>>[1] \in Settled => <<db[t], s>>[2] \in Settled
  BY <1>1 DEF NeverReopened
<1>3. \A u \in Tasks : db[u] \in Settled => db'[u] \in Settled
  BY <1>1, <1>2 DEF BoxesOwed
<1>4. db' = [u \in Tasks |-> db'[u]]
  BY <1>1 DEF BoxesOwed
<1>5. /\ moves' \in Nat /\ UNCHANGED <<block, want, ids, ticked>>
      /\ \A u \in Tasks : OwedToUser(u) => OwedToUser(u)'
  BY <1>3 DEF BoxesOwed, OwedToUser, Move
<1> QED
  BY <1>3, <1>4, <1>5 DEF BoxesOwed

\* A step that neither moves a task nor ticks a box, nor reads any.
LEMMA QuietKeepsOwed ==
    ASSUME BoxesOwed, UNCHANGED <<db, moves, ticked>>,
           block' \in {block, want}, want' \in {want, Rendered, Nothing}, ids' \in {ids, {}}
    PROVE  BoxesOwed'
<1>1. \A t \in Tasks : OwedToUser(t)' <=> OwedToUser(t)
  BY DEF OwedToUser
<1>2. /\ DOMAIN Nothing = {} /\ DOMAIN want' \subseteq Tasks
      /\ \A t \in DOMAIN want' : want'[t].box = "x" => db[t] \in Settled
  BY RenderedIs DEF BoxesOwed, Nothing
<1>3. DOMAIN block' \subseteq Tasks /\ \A t \in DOMAIN block' : block'[t].box = "x" => OwedToUser(t)
  BY DEF BoxesOwed, OwedToUser
<1> QED
  BY <1>1, <1>2, <1>3 DEF BoxesOwed

\* markTasksComplete submits what was read, unless it is settled.
LEMMA MarkKeepsOwed ==
    ASSUME BoxesOwed, Mark
    PROVE  BoxesOwed' /\ \A t \in Tasks : db[t] # db'[t] => t \in ticked
<1>1. \A t \in Tasks : db'[t] = IF t \in ids /\ db[t] \notin Settled \cup {"none"} THEN "submitted" ELSE db[t]
  BY DEF Mark
<1>2. \A t \in Tasks : db[t] \in Settled => db'[t] \in Settled
  BY <1>1
<1>3. \A t \in Tasks : OwedToUser(t) => OwedToUser(t)'
  BY <1>2 DEF OwedToUser, Mark, env
<1>4. db' = [t \in Tasks |-> db'[t]] /\ UNCHANGED <<block, want, ids, moves, ticked>>
  BY DEF Mark, env
<1>5. \A t \in Tasks : db[t] # db'[t] => t \in ticked
  BY <1>1 DEF BoxesOwed, OwedToUser
<1> QED
  BY <1>2, <1>3, <1>4, <1>5 DEF BoxesOwed

\* The user's tick is remembered.
LEMMA EditKeepsOwed ==
    ASSUME BoxesOwed, NEW t \in Tasks, Edit(t)
    PROVE  BoxesOwed' /\ db' = db
<1>1. /\ t \in DOMAIN block /\ DOMAIN block' = DOMAIN block /\ ticked \subseteq ticked'
      /\ block'[t].box = IF block[t].box = "x" THEN " " ELSE "x"
      /\ block[t].box # "x" => t \in ticked'
      /\ \A u \in DOMAIN block \ {t} : block'[u] = block[u]
      /\ UNCHANGED <<db, want, ids, moves>>
  BY DEF Edit
<1>2. " " # "x"
  OBVIOUS
<1>3. \A u \in DOMAIN block' : block'[u].box = "x" => OwedToUser(u)'
  BY <1>1, <1>2 DEF BoxesOwed, OwedToUser
<1>4. \A u \in Tasks : OwedToUser(u) => OwedToUser(u)'
  BY <1>1 DEF OwedToUser
<1> QED
  BY <1>1, <1>3, <1>4 DEF BoxesOwed

LEMMA ReadKeepsOwed ==
    ASSUME BoxesOwed, ReadBoxes
    PROVE  BoxesOwed' /\ db' = db
<1>1. ids' = {t \in DOMAIN block : block[t].box = "x"} /\ UNCHANGED <<db, block, want, moves, ticked>>
  BY DEF ReadBoxes, env
<1>2. \A t \in Tasks : OwedToUser(t)' <=> OwedToUser(t)
  BY <1>1 DEF OwedToUser
<1> QED
  BY <1>1, <1>2 DEF BoxesOwed

LEMMA DaemonKeepsOwed ==
    ASSUME NeverReopened, BoxesOwed, DaemonNext
    PROVE  /\ BoxesOwed'
           /\ \A t \in Tasks : db[t] # db'[t] /\ moves' = moves => t \in ticked
<1>1. CASE ReadRows \/ Notice \/ ReleaseLock \/ Start \/ Kill \/ EditElsewhere \/ \E over \in BOOLEAN : OnCrash(over)
  <2>1. UNCHANGED <<db, moves, ticked>> /\ block' = block /\ want' \in {want, Rendered, Nothing} /\ ids' \in {ids, {}}
    BY <1>1 DEF ReadRows, Notice, ReleaseLock, Start, Kill, EditElsewhere, OnCrash, env
  <2> QED
    BY <2>1, QuietKeepsOwed
<1>2. CASE Sync
  <2>1. UNCHANGED <<db, moves, ticked>> /\ block' \in {block, want} /\ want' = want /\ ids' = ids
    BY <1>2 DEF Sync, Compare, LockedRead, Write, Sign, Lock, TakeLock, RemoveStale, GiveUp, WritePid, env
  <2> QED
    BY <2>1, QuietKeepsOwed
<1>3. CASE Handle
  <2>1. CASE Mark
    BY <2>1, MarkKeepsOwed
  <2>2. CASE ReadBoxes
    BY <2>2, ReadKeepsOwed
  <2>3. CASE ~Mark /\ ~ReadBoxes
    <3>1. UNCHANGED <<db, block, want, ids, moves, ticked>>
      BY <1>3, <2>3 DEF Handle, QueryFails, Lock, TakeLock, RemoveStale, GiveUp, WritePid, env
    <3> QED
      BY <3>1, QuietKeepsOwed
  <2> QED
    BY <2>1, <2>2, <2>3
<1>4. ASSUME NEW t \in Tasks, Edit(t)
      PROVE  BoxesOwed' /\ db' = db
  BY <1>4, EditKeepsOwed
<1>5. ASSUME NEW t \in Tasks, Move(t)
      PROVE  BoxesOwed' /\ moves' # moves
  <2>1. BoxesOwed'
    BY <1>5, MoveKeepsOwed
  <2>2. moves' # moves
    BY <1>5 DEF Move, BoxesOwed
  <2> QED
    BY <2>1, <2>2
<1> QED
  BY <1>1, <1>2, <1>3, <1>4, <1>5 DEF DaemonNext

LEMMA BridgeKeepsOwed ==
    ASSUME NeverReopened, BoxesOwed, [BridgeNext]_allVars
    PROVE  /\ BoxesOwed'
           /\ \A t \in Tasks : db[t] # db'[t] /\ moves' = moves => t \in ticked
<1>1. CASE DaemonNext
  BY <1>1, DaemonKeepsOwed
<1>2. CASE UNCHANGED daemonVars
  BY <1>2, QuietKeepsOwed DEF daemonVars
<1>3. ASSUME NEW c \in Caller, InsertTask(c)
      PROVE  BoxesOwed' /\ moves' # moves
  <2>1. PICK t \in Tasks : Move(t)
    BY <1>3 DEF InsertTask
  <2>2. BoxesOwed'
    BY <2>1, MoveKeepsOwed
  <2>3. moves' # moves
    BY <2>1 DEF Move, BoxesOwed
  <2> QED
    BY <2>2, <2>3
<1>4. BridgeNext => DaemonNext \/ UNCHANGED daemonVars \/ \E c \in Caller : InsertTask(c)
  BY DEF BridgeNext, Bridge, Insert, PostSave, Verify, PostMemories, WriteTask, ChildEnds, Read, Done
<1> QED
  BY <1>1, <1>2, <1>3, <1>4 DEF allVars

\* When OpenClaw never reopens a task, the daemon submits one only after the
\* user has ticked its box: failed tasks, which it shows ticked itself, are
\* among those that markTasksComplete leaves alone.
THEOREM OnlyTheUsersTicks ==
    ASSUME NeverReopened
    PROVE  BridgeSpec => OnlyTickedSubmitted
<1>1. BridgeInit => BoxesOwed
  BY BoxesStart DEF BridgeInit
<1>2. BoxesOwed /\ [BridgeNext]_allVars => BoxesOwed'
  BY BridgeKeepsOwed
<1>3. BoxesOwed /\ [BridgeNext]_allVars =>
          [\A t \in Tasks : db[t] # db'[t] /\ moves' = moves => t \in ticked]_daemonVars
  BY BridgeKeepsOwed
<1> QED
  BY <1>1, <1>2, <1>3, PTL DEF BridgeSpec, OnlyTickedSubmitted
----------------------------------------------------------------------------

\* claude-mem holds an observation with what new gives of text, title and project.
HasStored(new, observations) ==
    \E o \in ToSet(observations) : \A k \in {"content", "title", "project"} : new[k] \in {o[k], Unset}

\* A call that may still post has stored nothing, and one that has succeeded has done its work.
CallOK(x, observations) ==
    /\ x = [at |-> x.at, new |-> x.new, status |-> x.status, task |-> x.task, saved |-> x.saved]
    /\ x.at \in {"idle", "save", "verify", "memories", "python", "ok", "error", "answer"}
    /\ x.saved \in {0, 1}
    /\ x.at = "idle" => x = Fresh
    /\ x.at \in {"save", "verify", "memories"} => x.new \in Observation
    /\ x.at \in {"save", "memories"} => x.saved = 0
    /\ x.at = "verify" /\ x.status = "404" => x.saved = 0
    /\ x.at = "python" => x.new = Unset
    /\ x.at = "ok" => IF x.new = Unset THEN x.task # 0 ELSE HasStored(x.new, observations)
CallsOK == call = [c \in Caller |-> call[c]] /\ memory \in Seq(Observation) /\ \A c \in Caller : CallOK(call[c], memory)

\* What has been stored stays.
LEMMA StoredStays ==
    ASSUME memory \in Seq(Observation), NEW o \in Observation
    PROVE  /\ Append(memory, o) \in Seq(Observation) /\ o \in ToSet(Append(memory, o))
           /\ ToSet(memory) \subseteq ToSet(Append(memory, o))
<1>1. /\ Append(memory, o) \in Seq(Observation) /\ Len(Append(memory, o)) = Len(memory) + 1 /\ Len(memory) \in Nat
      /\ DOMAIN Append(memory, o) = 1..(Len(memory) + 1) /\ DOMAIN memory = 1..Len(memory)
      /\ \A i \in 1..Len(memory) : Append(memory, o)[i] = memory[i]
      /\ Append(memory, o)[Len(memory) + 1] = o
  BY AppendProperties
<1> DEFINE longer == Append(memory, o)
<1> HIDE DEF longer
<1>2. 1..Len(memory) \subseteq 1..(Len(memory) + 1) /\ Len(memory) + 1 \in 1..(Len(memory) + 1)
  BY <1>1
<1> QED
  BY <1>1, <1>2 DEF ToSet, longer

\* What the verification is shown has been stored.
LEMMA ListedIsStored ==
    ASSUME memory \in Seq(Observation), NEW new
    PROVE  ToSet(Listed(new)) \subseteq ToSet(memory)
<1> DEFINE Test(o) == new.project = Unset \/ o.project = new.project
           P == {i \in DOMAIN memory : Test(memory[i])}
           mine == Filter(memory, LAMBDA o : new.project = Unset \/ o.project = new.project)
           from == IF Len(mine) > ListLimit THEN Len(mine) - ListLimit + 1 ELSE 1
           S == ToSet(memory)
<1>1. memory \in Seq(S) /\ P \in SUBSET DOMAIN memory
  <2>1. memory \in [1..Len(memory) -> S] /\ Len(memory) \in Nat
    BY DEF ToSet
  <2> QED
    BY <2>1
<1>2. mine \in Seq(S) /\ Len(mine) \in Nat
  <2>1. mine = Subsequence(memory, P)
    BY DEF Filter
  <2>2. Subsequence(memory, P) \in Seq(S)
    <3>1. Len(memory) \in Nat /\ P \in SUBSET (1..Len(memory)) /\ \A i \in P : memory[i] \in S
      BY <1>1 DEF ToSet
    <3> HIDE DEF P, S
    <3> QED
      BY <3>1, SubsequenceTyped
  <2> HIDE DEF mine
  <2> QED
    BY <2>1, <2>2
<1>3. Listed(new) = SubSeq(mine, from, Len(mine))
  BY DEF Listed
<1> HIDE DEF mine
<1>4. from \in 1..(Len(mine) + 1)
  BY <1>2, BridgeAssumption
<1> HIDE DEF from, S
<1>5. SubSeq(mine, from, Len(mine)) \in Seq(S)
  BY <1>2, <1>4, SubSeqProperties
<1>6. Listed(new) \in Seq(S)
  BY <1>3, <1>5
<1> QED
  BY <1>6 DEF ToSet, S

\* A call c that becomes x leaves the others as they are.
LEMMA CallBecomes ==
    ASSUME CallsOK, NEW c \in Caller, NEW x, call' = [call EXCEPT ![c] = x],
           memory' \in Seq(Observation), ToSet(memory) \subseteq ToSet(memory'), CallOK(x, memory')
    PROVE  CallsOK'
<1>1. call' = [d \in Caller |-> call'[d]] /\ call'[c] = x /\ \A d \in Caller \ {c} : call'[d] = call[d]
  BY DEF CallsOK
<1>2. \A d \in Caller \ {c} : CallOK(call'[d], memory')
  BY <1>1 DEF CallsOK, CallOK, HasStored
<1> QED
  BY <1>1, <1>2 DEF CallsOK

\* The same, where memory stays.
LEMMA CallTurns ==
    ASSUME CallsOK, NEW c \in Caller, NEW x, call' = [call EXCEPT ![c] = x], memory' = memory, CallOK(x, memory)
    PROVE  CallsOK'
  BY CallBecomes DEF CallsOK

\* Goes changes what it is given and keeps what is to be inserted.
LEMMA GoesIs ==
    ASSUME CallsOK, NEW c \in Caller, NEW where, NEW status, NEW task, NEW saved, Goes(c, where, status, task, saved)
    PROVE  call' = [call EXCEPT ![c] = [at |-> where, new |-> call[c].new, status |-> status,
                                        task |-> task, saved |-> saved]]
  BY DEF Goes, CallsOK

LEMMA PostKeeps ==
    ASSUME CallsOK, NEW c \in Caller, call[c].at \in {"save", "memories"}, NEW status, NEW next, Post(c, status, next),
           \/ status = "ok" /\ next = "ok"
           \/ status # "ok" /\ next = "error"
           \/ status \in {"404", "500"} /\ next = "verify"
    PROVE  CallsOK'
<1> DEFINE o == call[c].new
<1>1. PICK stored \in Stored(status) :
          /\ memory' = IF stored THEN Append(memory, o) ELSE memory
          /\ Goes(c, next, status, call[c].task, IF stored THEN call[c].saved + 1 ELSE call[c].saved)
  BY DEF Post
<1>2. o \in Observation /\ call[c].saved = 0 /\ o # Unset /\ memory \in Seq(Observation)
  BY BridgeAssumption DEF CallsOK, CallOK
<1>3. /\ stored \in BOOLEAN /\ (status = "ok" => stored) /\ (status = "404" => ~stored)
  BY <1>1 DEF Stored
<1> DEFINE n == IF stored THEN 1 ELSE 0
           x == [at |-> next, new |-> o, status |-> status, task |-> call[c].task, saved |-> n]
<1>4. call' = [call EXCEPT ![c] = x]
  BY <1>1, <1>2, <1>3, GoesIs
<1>5. /\ memory' \in Seq(Observation) /\ ToSet(memory) \subseteq ToSet(memory')
      /\ stored => o \in ToSet(memory')
  BY <1>1, <1>2, <1>3, StoredStays
<1>6. stored => HasStored(o, memory')
  BY <1>5 DEF HasStored
<1>7. CallOK(x, memory')
  BY <1>2, <1>3, <1>6 DEF CallOK
<1> HIDE DEF x
<1> QED
  BY <1>4, <1>5, <1>7, CallBecomes

LEMMA VerifyKeeps ==
    ASSUME CallsOK, NEW c \in Caller, Verify(c)
    PROVE  CallsOK'
<1> DEFINE o == call[c].new
           found == \E v \in ToSet(Listed(o)) : SameObservation(v, o)
           x(a) == [at |-> a, new |-> o, status |-> call[c].status, task |-> call[c].task, saved |-> call[c].saved]
<1>1. /\ call[c].at = "verify" /\ memory \in Seq(Observation) /\ o \in Observation /\ CallOK(call[c], memory)
      /\ memory' = memory
  BY DEF Verify, Calls, CallsOK, CallOK
<1>2. PICK a \in {"ok", "memories", "error"} : Turn(c, a) /\ (a = "ok" => found) /\ (a = "memories" => call[c].status = "404")
  BY DEF Verify, GoesOn
<1>3. call' = [call EXCEPT ![c] = x(a)]
  BY <1>2, GoesIs DEF Turn
<1>4. found => HasStored(o, memory)
  <2> SUFFICES ASSUME NEW v \in ToSet(Listed(o)), SameObservation(v, o) PROVE HasStored(o, memory)
    OBVIOUS
  <2>1. v \in ToSet(memory)
    BY <1>1, ListedIsStored
  <2>2. \A k \in {"content", "title", "project"} : o[k] \in {v[k], Unset}
    BY DEF SameObservation
  <2> QED
    BY <2>1, <2>2 DEF HasStored
<1>5. o # Unset
  BY <1>1, BridgeAssumption
<1> HIDE DEF found
<1>6. CallOK(x(a), memory)
  BY <1>1, <1>2, <1>4, <1>5 DEF CallOK
<1> HIDE DEF x
<1> QED
  BY <1>1, <1>3, <1>6, CallTurns

LEMMA BridgeCallKeeps ==
    ASSUME CallsOK, NEW c \in Caller, Bridge(c) \/ Done(c)
    PROVE  CallsOK'
<1> DEFINE x(a, t) == [at |-> a, new |-> call[c].new, status |-> call[c].status, task |-> t, saved |-> call[c].saved]
<1>0. CallOK(call[c], memory)
  BY DEF CallsOK
<1>1. CASE PostSave(c)
  <2>1. call[c].at = "save"
    BY <1>1 DEF PostSave, Calls
  <2>2. PICK status \in {"ok", "lost", "404", "500"}, next \in {"ok", "error", "verify"} :
            /\ Post(c, status, next)
            /\ \/ status = "ok" /\ next = "ok"
               \/ status # "ok" /\ next = "error"
               \/ status \in {"404", "500"} /\ next = "verify"
    BY <1>1 DEF PostSave
  <2> QED
    BY <2>1, <2>2, PostKeeps
<1>2. CASE PostMemories(c)
  <2>1. call[c].at = "memories"
    BY <1>2 DEF PostMemories, Calls
  <2>2. PICK status \in {"ok", "lost", "404", "500"}, next \in {"ok", "error"} :
            /\ Post(c, status, next)
            /\ \/ status = "ok" /\ next = "ok"
               \/ status # "ok" /\ next = "error"
               \/ status \in {"404", "500"} /\ next = "verify"
    BY <1>2 DEF PostMemories
  <2> QED
    BY <2>1, <2>2, PostKeeps
<1>3. CASE Verify(c)
  BY <1>3, VerifyKeeps
<1>4. CASE WriteTask(c) \/ ChildEnds(c) \/ Read(c)
  <2>1. PICK a \in {"python", "ok", "error", "answer"} :
            /\ Turn(c, a) /\ memory' = memory /\ (a = "ok" => call[c].task # 0 /\ call[c].new = Unset)
            /\ (a = "python" => call[c].at = "idle")
    BY <1>0, <1>4 DEF WriteTask, ChildEnds, Read, Calls, CallOK
  <2>2. call' = [call EXCEPT ![c] = x(a, call[c].task)]
    BY <2>1, GoesIs DEF Turn
  <2>3. CallOK(x(a, call[c].task), memory)
    BY <1>0, <2>1 DEF CallOK, Fresh
  <2> HIDE DEF x
  <2> QED
    BY <2>1, <2>2, <2>3, CallTurns
<1>5. CASE InsertTask(c)
  <2>1. PICK t \in Nat : Goes(c, "python", call[c].status, t, call[c].saved)
    BY <1>5, BlackboardAssumption DEF InsertTask
  <2>2. call[c].at = "python" /\ memory' = memory
    BY <1>5 DEF InsertTask, Calls
  <2>3. call' = [call EXCEPT ![c] = x("python", t)]
    BY <2>1, GoesIs
  <2>4. CallOK(x("python", t), memory)
    BY <1>0, <2>2 DEF CallOK
  <2> HIDE DEF x
  <2> QED
    BY <2>2, <2>3, <2>4, CallTurns
<1>6. ASSUME NEW o \in Observation, Insert(c, o)
      PROVE  CallsOK'
  <2> DEFINE y == [at |-> "save", new |-> o, status |-> "none", task |-> 0, saved |-> 0]
  <2>1. call' = [call EXCEPT ![c] = y] /\ memory' = memory
    BY <1>6 DEF Insert
  <2>2. CallOK(y, memory)
    BY DEF CallOK
  <2> HIDE DEF y
  <2> QED
    BY <2>1, <2>2, CallTurns
<1>7. CASE Done(c)
  <2>1. call' = [call EXCEPT ![c] = Fresh] /\ memory' = memory
    BY <1>7 DEF Done
  <2>2. CallOK(Fresh, memory)
    BY DEF CallOK, Fresh
  <2> QED
    BY <2>1, <2>2, CallTurns
<1> QED
  BY <1>1, <1>2, <1>3, <1>4, <1>5, <1>6, <1>7 DEF Bridge

LEMMA CallsInductive == BridgeSpec => []CallsOK
<1>1. BridgeInit => CallsOK
  <2>1. CallOK(Fresh, <<>>) /\ <<>> \in Seq(Observation)
    BY DEF CallOK, Fresh
  <2> QED
    BY <2>1 DEF BridgeInit, CallsOK
<1>2. CallsOK /\ [BridgeNext]_allVars => CallsOK'
  <2>1. CallsOK /\ UNCHANGED bridgeVars => CallsOK'
    BY DEF CallsOK, bridgeVars
  <2> QED
    BY <2>1, BridgeCallKeeps DEF BridgeNext, allVars
<1> QED
  BY <1>1, <1>2, PTL DEF BridgeSpec

\* Two routes, a lost connection and an error after the fact notwithstanding, a
\* call of insert_claude_mem makes claude-mem store its observation at most
\* once: it posts again only where the first route does not exist.
THEOREM InsertedAtMostOnce == BridgeSpec => []SavedAtMostOnce
<1>1. CallsOK => SavedAtMostOnce
  BY DEF CallsOK, CallOK, SavedAtMostOnce
<1> QED
  BY <1>1, CallsInductive, PTL

\* A call of either bridge that reports success is right.
THEOREM SuccessIsTrue == BridgeSpec => []OkMeansDone
<1>1. CallsOK => OkMeansDone
  BY DEF CallsOK, CallOK, HasStored, OkMeansDone, Calls
<1> QED
  BY <1>1, CallsInductive, PTL
=============================================================================
