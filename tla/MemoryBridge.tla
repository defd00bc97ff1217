---------------------------- MODULE MemoryBridge ----------------------------
(***************************************************************************)
(* The server's bridges: insert_claude_mem puts an observation into        *)
(* claude-mem over HTTP, write_blackboard_task a task into the table the   *)
(* daemon of BlackboardDaemon renders, through a Python child.  Neither    *)
(* other side answers for what it has done: claude-mem may store and then  *)
(* answer with an error, a child may be killed after its commit.           *)
(*                                                                         *)
(* A call ends with "ok" or "error", one that only reads with "answer".    *)
(***************************************************************************)
EXTENDS BlackboardDaemon, Subsequence

CONSTANTS Caller,       \* calls of the two tools
          Observation,  \* [content, title, project] that may be inserted
          Unset,        \* a title or project that was not given
          ListLimit,    \* observations that the verification asks for
          MaxObservations,  \* bound: none is inserted beyond
          Settings      \* [daemon, tools]: who is active in a behaviour

Tools == {"insert_claude_mem", "write_blackboard_task"}

ASSUME BridgeAssumption ==
    /\ ListLimit \in Nat \ {0} /\ MaxObservations \in Nat /\ Caller # {} /\ Unset \notin Observation
    /\ Settings \subseteq [daemon : BOOLEAN, tools : [Caller -> SUBSET Tools]]

VARIABLES
    setting,    \* who is active
    memory,     \* the observations of claude-mem, oldest first
    call        \* what each call is doing

bridgeVars == <<setting, memory, call>>
allVars == <<daemonVars, bridgeVars>>

\* at: the step; new: what is to be inserted; status: the answer to the first
\* route; task: the task committed, 0 without; saved: observations the call
\* has made claude-mem store.
Fresh == [at |-> "idle", new |-> Unset, status |-> "none", task |-> 0, saved |-> 0]

BridgeInit ==
    /\ DaemonInit /\ setting \in Settings /\ memory = <<>> /\ call = [c \in Caller |-> Fresh]

Calls(c, where) == call[c].at = where
Goes(c, where, status, task, saved) ==
    call' = [call EXCEPT ![c] = [at |-> where, new |-> @.new, status |-> status, task |-> task, saved |-> saved]]
Turn(c, where) == Goes(c, where, call[c].status, call[c].task, call[c].saved)

----------------------------------------------------------------------------
\* insert_claude_mem.

Insert(c, o) ==
    /\ Calls(c, "idle") /\ "insert_claude_mem" \in setting.tools[c] /\ Len(memory) < MaxObservations
    /\ call' = [call EXCEPT ![c] = [at |-> "save", new |-> o, status |-> "none", task |-> 0, saved |-> 0]]
    /\ UNCHANGED <<daemonVars, setting, memory>>

\* A POST stores the observation if it succeeds, and does not if the route does
\* not exist; with another status, or when the connection is lost, who knows.
Stored(status) ==
    CASE status = "ok" -> {TRUE} [] status = "404" -> {FALSE} [] OTHER -> {TRUE, FALSE}

Post(c, status, next) ==
    \E stored \in Stored(status) :
        /\ memory' = IF stored THEN Append(memory, call[c].new) ELSE memory
        /\ Goes(c, next, status, call[c].task, IF stored THEN call[c].saved + 1 ELSE call[c].saved)

\* The first route; a lost connection throws out of the handler.
PostSave(c) ==
    /\ Calls(c, "save")
    /\ \/ Post(c, "ok", "ok") \/ Post(c, "lost", "error")
       \/ \E status \in {"404", "500"} : Post(c, status, "verify")
    /\ UNCHANGED <<daemonVars, setting>>

\* The same text, and the same title and project if they were given.
SameObservation(o, new) ==
    /\ o.content = new.content
    /\ new.title # Unset => o.title = new.title
    /\ new.project # Unset => o.project = new.project

\* The latest observations, of the project if there is one.
Listed(new) ==
    LET mine == Filter(memory, LAMBDA o : new.project = Unset \/ o.project = new.project)
    IN  SubSeq(mine, IF Len(mine) > ListLimit THEN Len(mine) - ListLimit + 1 ELSE 1, Len(mine))

\* Fault: the second route is tried after any failure.
GoesOnAlways(status) == TRUE

\* Only a route that does not exist leads to the next one.
GoesOn(status) == status = "404"

\* Whatever the status, look whether the observation has arrived; the list may
\* also be out of reach.
Verify(c) ==
    /\ Calls(c, "verify")
    /\ LET otherwise == IF GoesOn(call[c].status) THEN "memories" ELSE "error"
           found == \E o \in ToSet(Listed(call[c].new)) : SameObservation(o, call[c].new)
       IN  Turn(c, IF found THEN "ok" ELSE otherwise) \/ Turn(c, otherwise)
    /\ UNCHANGED <<daemonVars, setting, memory>>

PostMemories(c) ==
    /\ Calls(c, "memories")
    /\ Post(c, "ok", "ok") \/ \E status \in {"lost", "404", "500"} : Post(c, status, "error")
    /\ UNCHANGED <<daemonVars, setting>>

----------------------------------------------------------------------------
\* write_blackboard_task.

WriteTask(c) ==
    /\ Calls(c, "idle") /\ "write_blackboard_task" \in setting.tools[c]
    /\ Turn(c, "python")
    /\ UNCHANGED <<daemonVars, setting, memory>>

\* The child inserts a PENDING task with the next id and commits.
InsertTask(c) ==
    /\ Calls(c, "python") /\ call[c].task = 0
    /\ LET t == 1 + Cardinality({u \in Tasks : db[u] # "none"})
       IN  /\ t \in Tasks /\ Move(t) /\ db'[t] = "open"
           /\ Goes(c, "python", call[c].status, t, call[c].saved)
    /\ UNCHANGED <<setting, memory>>

\* The child has printed the id, failed, or run into spawnProcess's limits, of
\* ten minutes and eight megabytes, which kill it; without the table or a
\* Python none is started.
ChildEnds(c) ==
    /\ Calls(c, "python")
    /\ (call[c].task # 0 /\ Turn(c, "ok")) \/ Turn(c, "error")
    /\ UNCHANGED <<daemonVars, setting, memory>>

----------------------------------------------------------------------------
\* query_claude_mem and get_blackboard_tasks change nothing; what they answer is
\* left out.
Read(c) ==
    /\ Calls(c, "idle") /\ setting.tools[c] # {} /\ Turn(c, "answer")
    /\ UNCHANGED <<daemonVars, setting, memory>>

\* The client takes the answer.
Done(c) ==
    /\ call[c].at \in {"ok", "error", "answer"} /\ call' = [call EXCEPT ![c] = Fresh]
    /\ UNCHANGED <<daemonVars, setting, memory>>

Bridge(c) ==
    \/ PostSave(c) \/ Verify(c) \/ PostMemories(c) \/ WriteTask(c) \/ InsertTask(c) \/ ChildEnds(c)
    \/ Read(c)
    \/ \E o \in Observation : Insert(c, o)

BridgeNext ==
    \/ setting.daemon /\ DaemonNext /\ UNCHANGED bridgeVars
    \/ \E c \in Caller : Bridge(c) \/ Done(c)

\* As in FairDaemonSpec of BlackboardDaemon.
DaemonGoesOn == (Sync \/ Handle \/ ReleaseLock \/ Start) /\ setting.daemon /\ UNCHANGED bridgeVars
DaemonReads == ReadRows /\ setting.daemon /\ UNCHANGED bridgeVars
BridgeSpec == BridgeInit /\ [][BridgeNext]_allVars
FairBridgeSpec == BridgeSpec /\ WF_allVars(DaemonGoesOn) /\ SF_allVars(DaemonReads)

----------------------------------------------------------------------------
\* Properties.

\* Two routes and an error after the fact notwithstanding, one call makes
\* claude-mem store its observation once at most.
SavedAtMostOnce == \A c \in Caller : call[c].saved <= 1

\* A call that reports success is right: claude-mem holds an observation with
\* what was given of text, title and project, the table has the task.
OkMeansDone ==
    \A c \in Caller : Calls(c, "ok") =>
        IF call[c].new = Unset THEN call[c].task # 0
        ELSE \E o \in ToSet(memory) :
                \A k \in {"content", "title", "project"} : call[c].new[k] \in {o[k], Unset}

\* A call that reports an error has done nothing, so that it may be repeated;
\* neither bridge can promise that.
ErrorMeansNothingDone ==
    \A c \in Caller : Calls(c, "error") => call[c].saved = 0 /\ call[c].task = 0

\* A verified call was the one that stored what was found; an equal observation
\* from before serves as well.
VerifiedMeansSaved ==
    \A c \in Caller : Calls(c, "ok") /\ call[c].new # Unset => call[c].saved = 1
=============================================================================
