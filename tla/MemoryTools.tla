------------------------------ MODULE MemoryTools ------------------------------
(***************************************************************************)
(* Tool calls of the memory server that need the search worker or a child   *)
(* of their own: the dispatch of omni-handlers.js, the handlers of          *)
(* shared-mcp/memory-retrieval.js and the rebuilds of memory-embeddings.js  *)
(* and memory-generation.js, on top of SearchWorker, whose actions they     *)
(* take together with their own steps.                                      *)
(*                                                                         *)
(* A search the worker does not answer is done once more by a process of    *)
(* its own; a refinement asks a language model which of the records to      *)
(* keep; a rebuild waits for a child as long as that takes.                 *)
(***************************************************************************)
EXTENDS SearchWorker, Subsequence

CONSTANTS
    Exposed,      \* the kinds of tools the mode of the server exposes
    Asked,        \* the ids a client asks to refine, a sequence
    MaxResults,   \* max_results of a refinement
    Replies       \* the ids a language model may name, sequences

ASSUME ToolAssumption ==
    /\ "unknown" \notin Exposed
    /\ Asked \in Seq(STRING) /\ MaxResults \in Nat \ {0}
    /\ \A reply \in Replies : reply \in Seq(STRING)

VARIABLES
    kind,      \* of each call; "records" stands for the timeline and the cache, too
    at,        \* where a call is: the worker, a search once, the model, a child
    result,    \* what it returned; "degraded" is a success that says so
    selected,  \* the ids a refinement returned
    helper     \* the process a call has spawned

toolVars == <<kind, at, result, selected, helper>>
allVars == <<vars, toolVars>>

\* A name the server does not have is "unknown".
Kinds == {"search", "records", "refine", "rebuild", "unknown"}

ToolInit ==
    /\ Init
    /\ kind = [r \in Request |-> "none"] /\ at = [r \in Request |-> "idle"]
    /\ result = [r \in Request |-> "none"] /\ selected = [r \in Request |-> <<>>]
    /\ helper = [r \in Request |-> "none"]

----------------------------------------------------------------------------
\* Selecting.

Firsts(ids) == SubSeq(ids, 1, IF Len(ids) < MaxResults THEN Len(ids) ELSE MaxResults)

\* Fault: whatever the model names.
AnySelection(reply) == Firsts(reply)

\* Of what the model names, what was asked for.
ValidSelection(reply) ==
    LET asked(id) == \E i \in DOMAIN Asked : Asked[i] = id IN Firsts(Filter(reply, asked))

----------------------------------------------------------------------------
\* Calls.

Goes(r, place) == at' = [at EXCEPT ![r] = place]
Spawns(r) == helper' = [helper EXCEPT ![r] = "running"]
Ends(r) == helper' = [helper EXCEPT ![r] = "ended"]
Returns(r, how, ids) ==
    /\ Goes(r, "done")
    /\ result' = [result EXCEPT ![r] = how] /\ selected' = [selected EXCEPT ![r] = ids]

\* A handler runs up to its first await: the worker is asked,
CallWorker(r, k) ==
    /\ at[r] = "idle" /\ k \in Exposed \cap {"search", "records", "refine"}
    /\ Refuse(r) \/ UseRunning(r) \/ JoinStartup(r) \/ SpawnFor(r)
    /\ kind' = [kind EXCEPT ![r] = k] /\ Goes(r, "worker")
    /\ UNCHANGED <<result, selected, helper>>

\* a child is spawned,
CallRebuild(r) ==
    /\ up /\ at[r] = "idle" /\ "rebuild" \in Exposed
    /\ kind' = [kind EXCEPT ![r] = "rebuild"] /\ Goes(r, "child") /\ Spawns(r)
    /\ UNCHANGED <<vars, result, selected>>

\* or the tool is not there.
CallHidden(r, k) ==
    /\ up /\ at[r] = "idle" /\ k \notin Exposed
    /\ kind' = [kind EXCEPT ![r] = k] /\ Returns(r, "error", <<>>)
    /\ UNCHANGED <<vars, helper>>

\* The worker's answer is what a search or a reading returns.
WorkerAnswers(r) ==
    /\ up /\ at[r] = "worker" /\ phase[r] = "answered" /\ kind[r] # "refine"
    /\ Returns(r, "ok", <<>>)
    /\ UNCHANGED <<vars, kind, helper>>

\* When the worker fails, a reading does,
WorkerFails(r) ==
    /\ up /\ at[r] = "worker" /\ phase[r] = "failed" /\ kind[r] # "search"
    /\ Returns(r, "error", <<>>)
    /\ UNCHANGED <<vars, kind, helper>>

\* and a search is done by a process of its own, whatever the failure was.
SearchOnce(r) ==
    /\ up /\ at[r] = "worker" /\ phase[r] = "failed" /\ kind[r] = "search"
    /\ Goes(r, "once") /\ Spawns(r)
    /\ UNCHANGED <<vars, kind, result, selected>>

\* It ends with results or not,
OnceEnds(r) ==
    /\ Event /\ at[r] = "once" /\ Ends(r)
    /\ \E how \in {"ok", "error"} : Returns(r, how, <<>>)
    /\ UNCHANGED <<vars, kind>>

\* or is killed after ten minutes.
OnceTimesOut(r) ==
    /\ Event /\ at[r] = "once" /\ Ends(r) /\ Returns(r, "error", <<>>)
    /\ UNCHANGED <<vars, kind>>

\* handleRefineMemorySelection, of the records the worker found: none; or the
\* first ones asked for, when there is no key for a model; or the model is asked.
RefineRecords(r) ==
    /\ up /\ at[r] = "worker" /\ phase[r] = "answered" /\ kind[r] = "refine"
    /\ \/ Returns(r, "ok", <<>>)
       \/ Returns(r, "degraded", Firsts(Asked))
       \/ Goes(r, "llm") /\ UNCHANGED <<result, selected>>
    /\ UNCHANGED <<vars, kind, helper>>

\* The model's reply; one that is empty or that cannot be parsed counts as a
\* failure.
ModelReplies(r) ==
    /\ Event /\ at[r] = "llm"
    /\ \E reply \in Replies :
          IF reply = <<>> THEN Returns(r, "degraded", Firsts(Asked))
          ELSE Returns(r, "ok", ValidSelection(reply))
    /\ UNCHANGED <<vars, kind, helper>>

\* No reply, or none within thirty seconds.
ModelFails(r) ==
    /\ Event /\ at[r] = "llm" /\ Returns(r, "degraded", Firsts(Asked))
    /\ UNCHANGED <<vars, kind, helper>>

\* A child that was ended by a signal has no code, which counts as 0.
RebuildEnds(r, how) ==
    /\ Event /\ at[r] = "child" /\ Ends(r)
    /\ Returns(r, IF how = "failed" THEN "error" ELSE "ok", <<>>)
    /\ UNCHANGED <<vars, kind>>

\* The worker's own steps.
WorkerStep ==
    /\ \/ \E r \in Request : Send(r) \/ Answer(r) \/ Timeout(r)
       \/ \E c \in Child : Spawned(c) \/ SpawnError(c) \/ Die(c) \/ Exit(c) \/ StopTimeout(c)
       \/ TimerFires \/ Restart \/ ServerExit
    /\ UNCHANGED toolVars

ToolNext ==
    \/ WorkerStep
    \/ \E r \in Request :
        \/ \E k \in Kinds : CallWorker(r, k) \/ CallHidden(r, k)
        \/ CallRebuild(r)
        \/ WorkerAnswers(r) \/ WorkerFails(r) \/ SearchOnce(r) \/ OnceEnds(r) \/ OnceTimesOut(r)
        \/ RefineRecords(r) \/ ModelReplies(r) \/ ModelFails(r)
        \/ \E how \in {"done", "failed", "signalled"} : RebuildEnds(r, how)

\* The loop runs continuations and timers; nobody says how long a child takes.
ToolFairness ==
    /\ \A r \in Request :
        /\ WF_allVars(Send(r) /\ UNCHANGED toolVars) /\ WF_allVars(Timeout(r) /\ UNCHANGED toolVars)
        /\ WF_allVars(WorkerAnswers(r) \/ WorkerFails(r) \/ SearchOnce(r) \/ RefineRecords(r))
        /\ WF_allVars(OnceTimesOut(r)) /\ WF_allVars(ModelFails(r))
    /\ \A c \in Child :
        WF_allVars((Spawned(c) \/ SpawnError(c)) /\ UNCHANGED toolVars) /\ WF_allVars(Exit(c) /\ UNCHANGED toolVars)

ToolSpec == ToolInit /\ [][ToolNext]_allVars
FairToolSpec == ToolSpec /\ ToolFairness

----------------------------------------------------------------------------
\* Properties.

\* A call returns, whatever becomes of the worker, the process that takes its
\* place and the model, unless it is a rebuild or the server ends first.
CallReturns ==
    \A r \in Request : (at[r] # "idle") ~> (at[r] = "done" \/ kind[r] = "rebuild" \/ ~up)

\* A refinement returns ids it was asked about, and no more than it was asked
\* for, also when the model names others or cannot be asked.
ChosenWereAsked ==
    \A r \in Request :
        /\ Len(selected[r]) <= MaxResults
        /\ \A i \in DOMAIN selected[r] : \E j \in DOMAIN Asked : Asked[j] = selected[r][i]

\* Without the exception it does not hold: the rebuilds have no time limit.
EveryCallReturns == \A r \in Request : (at[r] # "idle") ~> (at[r] = "done" \/ ~up)

\* The same id is never returned twice.  Does not hold: the model may repeat it.
ChosenOnce ==
    \A r \in Request : \A i, j \in DOMAIN selected[r] : selected[r][i] = selected[r][j] => i = j

\* A model that names nothing useful counts as no model.  Does not hold when it
\* names only ids that nobody asked about.
UselessIsDegraded ==
    [][\A r \in Request : ModelReplies(r) /\ result'[r] = "ok" => selected'[r] # <<>>]_allVars

\* A rebuild that returns without an error has run to its end.  Does not hold:
\* one that was killed has no exit code.
OkIsDone ==
    [][\A r \in Request : RebuildEnds(r, "signalled") => result'[r] = "error"]_allVars

\* What a call has spawned does not outlive the server.  Does not hold: only
\* the search worker is killed.
NothingOutlives == ~up => \A r \in Request : helper[r] # "running"

\* At most Limit searches run at once.  Does not hold: a search the worker has
\* no room for gets a process of its own.
SearchesBounded ==
    Cardinality({r \in Request : at[r] = "once" \/ phase[r] = "pending"}) <= Limit
=============================================================================
