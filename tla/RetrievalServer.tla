--------------------------- MODULE RetrievalServer ---------------------------
(***************************************************************************)
(* The search server, the process that SearchWorker starts: it answers one   *)
(* request after the other and keeps caches between them, each with its own  *)
(* rule of expiry: the stamps of the files (memoized for a moment), the      *)
(* entries and the embeddings (until a stamp changes), the ranking model     *)
(* (until the entries are invalidated), the vector of the query and the      *)
(* results (until they are old); and a circuit breaker around the dense      *)
(* scores.  Meanwhile other processes replace the files, and time passes.    *)
(*                                                                         *)
(* The content of a file stands for its version, and so does its stamp.      *)
(* There is one query, and of a score only what it is made of.               *)
(***************************************************************************)
EXTENDS Integers, Sequences, FiniteSets

CONSTANTS Nothing,
          MemoTTL, QueryTTL, ResultTTL, MaxCached,
          FailureThreshold, RecoveryTimeout, SlowCall,
          MaxCall,                            \* how long a request may take
          Horizon, MaxWrites, MaxTroubles     \* bounds of the environment

ASSUME ServerAssumption ==
    /\ \A n \in {MemoTTL, QueryTTL, ResultTTL, MaxCached, FailureThreshold, RecoveryTimeout, SlowCall, MaxCall} :
          n \in Nat \ {0}
    /\ Nothing \notin Nat /\ Horizon \in Nat /\ MaxWrites \in Nat /\ MaxTroubles \in Nat

VARIABLES
    now,
    disk,       \* for each file, when each version of it came
    locked,     \* the structured file cannot be opened
    health,     \* of the dense scores: well, failing or raising
    memo,       \* _SIGNATURE_MEMO
    entries,    \* _ENTRIES_CACHE: [sig, data]
    loaded,     \* _INDEX_CACHE: the signature of the embeddings in it
    model,      \* _BM25_CACHE: the data it was made of
    vector,     \* _QUERY_EMBEDDING_CACHE: when the vector was stored
    results,    \* _SEARCH_RESULT_CACHE: [at, data, index, fallback] for some keys
    breaker,    \* _dense_circuit_breaker
    request,    \* the request being answered
    answer,     \* the answer given in the last step, if one was
    bad,        \* history: when the dense scores were last not well, or a call was slow
    troubles    \* counts the changes of locked and health

files == <<disk, locked, health, bad, troubles>>
caches == <<entries, loaded, model, vector, results>>
serverVars == <<now, files, memo, caches, breaker, request, answer>>

File == {"structured", "embeddings"}
Version(f) == Len(disk[f])
NoResults == [k \in {} |-> Nothing]

ServerInit ==
    /\ now = 0 /\ disk = [f \in File |-> <<0>>] /\ locked = FALSE
    /\ health = "well" /\ bad = Nothing /\ troubles = 0
    /\ memo = [f \in File |-> Nothing]
    /\ entries = [sig |-> Nothing, data |-> Nothing]
    /\ loaded = Nothing /\ model = Nothing /\ vector = Nothing /\ results = NoResults
    /\ breaker = [state |-> "closed", failures |-> 0, last |-> 0]
    /\ request = [at |-> "idle"] /\ answer = Nothing

----------------------------------------------------------------------------
\* Signatures.

\* A stamp is taken again only when the memo of it is gone.
Memoized(f) == IF memo[f] # Nothing THEN memo[f] ELSE [stamp |-> Version(f), at |-> now]

\* build_structured_signature and build_embeddings_signature.
Sign == memo' = [f \in File |-> Memoized(f)]
Sig(f) == Memoized(f).stamp

\* Fault: the key of a result has only one of the signatures.
KeyOfIndex(s, e) == <<e>>

Key(s, e) == <<s, e>>

----------------------------------------------------------------------------
\* The cache of results.

\* Fault: a result that is used again is new again.
HitRenews(k) == [results EXCEPT ![k].at = now]

Hit(k) == results

\* prune_timed_cache: beyond the limit the oldest go.
Pruned(cache) ==
    LET newer(k) == {j \in DOMAIN cache : cache[j].at > cache[k].at}
    IN  [k \in {k \in DOMAIN cache : Cardinality(newer(k)) < MaxCached} |-> cache[k]]

Stored(cache, k, r) == Pruned([j \in DOMAIN cache \cup {k} |-> IF j = k THEN r ELSE cache[j]])

----------------------------------------------------------------------------
\* The entries, and the ranking model made of them.

\* What is read now: without what is in the file that cannot be opened, an
\* error that is logged and not remembered.
Read == [version |-> Version("structured"), hole |-> locked]

\* invalidate_entries_cache.  The ranking model goes, and none of before could
\* be found again: the entries get another version, which is in its key.
Invalidate == results' = NoResults /\ model' = Nothing

LoadEntries ==
    IF entries.data # Nothing /\ entries.sig = Sig("structured")
    THEN UNCHANGED <<entries, results, model>>
    ELSE entries' = [sig |-> Sig("structured"), data |-> Read] /\ Invalidate

----------------------------------------------------------------------------
\* The circuit breaker.

Reopens == breaker.state = "open" /\ now - breaker.last >= RecoveryTimeout
Admits == breaker.state # "open" \/ Reopens

Admit == breaker' = IF Reopens THEN [breaker EXCEPT !.state = "half-open"] ELSE breaker

Trip == [state |-> "open", failures |-> 0, last |-> now]

\* Success closes a half-open circuit; in a closed one it forgets the failures,
\* so that a slow call is all the calls there are, and opens it.
Succeed(slow) ==
    breaker' = IF breaker.state = "closed" /\ slow THEN Trip
               ELSE [breaker EXCEPT !.state = "closed", !.failures = 0]

Fail ==
    breaker' = IF breaker.state = "half-open" \/ breaker.failures + 1 >= FailureThreshold THEN Trip
               ELSE [breaker EXCEPT !.failures = @ + 1, !.last = now]

----------------------------------------------------------------------------
\* Requests.

\* search: sign, and answer from the cache if the result is there.
Search ==
    /\ request.at = "idle" /\ Sign
    /\ LET k == Key(Sig("structured"), Sig("embeddings"))
       IN  \/ /\ k \in DOMAIN results
              /\ results' = Hit(k)
              /\ answer' = [data |-> results[k].data, model |-> results[k].data, index |-> results[k].index,
                            fallback |-> results[k].fallback, asked |-> now]
              /\ UNCHANGED request
           \/ /\ k \notin DOMAIN results
              /\ request' = [at |-> "load", key |-> k, asked |-> now, since |-> now]
              /\ answer' = Nothing /\ UNCHANGED results
    /\ UNCHANGED <<now, files, entries, loaded, model, vector, breaker>>

\* Load the entries, rank them with get_bm25_model, which is made of them if
\* there is none, and ask the breaker: the call it admits starts now.
Load ==
    /\ request.at = "load" /\ Sign /\ LoadEntries /\ Admit
    /\ request' = [request EXCEPT !.at = IF Admits THEN "dense" ELSE "open", !.since = now]
    /\ UNCHANGED <<now, files, loaded, vector>> /\ answer' = Nothing

Model == IF model = Nothing THEN entries.data ELSE model

\* load_embeddings_index: read again when the signature is another one.
LoadEmbeddings == loaded' = Sig("embeddings")
Outdated == loaded = Nothing \/ loaded # Sig("embeddings")

\* The rest of execute_search: the embeddings are loaded, and if they are new,
\* what was made with the old ones goes; the result is stored.
Finish(fallback, kept) ==
    LET new == Outdated
        r == [at |-> now, data |-> entries.data, index |-> Version("embeddings"), fallback |-> fallback]
    IN  /\ Sign /\ LoadEmbeddings
        /\ vector' = IF new THEN Nothing ELSE kept
        /\ results' = Stored(IF new THEN NoResults ELSE results, request.key, r)
        /\ answer' = [data |-> entries.data, model |-> Model, index |-> r.index,
                      fallback |-> fallback, asked |-> request.asked]
        /\ request' = [at |-> "idle"]
        /\ model' = Model
        /\ UNCHANGED <<now, disk, locked, health, troubles, entries>>

VectorCached == vector # Nothing

\* The breaker times the whole call, whatever it was that took so long.
Slow == now - request.since >= SlowCall
Felt == bad' = IF Slow THEN now ELSE bad

\* The dense scores are computed,
DenseWell ==
    /\ request.at = "dense" /\ health # "raising" /\ (health = "failing" => VectorCached)
    /\ Succeed(Slow) /\ Felt
    /\ Finish(FALSE, IF VectorCached THEN vector ELSE now)

\* or an error is returned, which the breaker takes for success,
DenseFails ==
    /\ request.at = "dense" /\ health = "failing" /\ ~VectorCached
    /\ Succeed(Slow) /\ Felt
    /\ Finish(TRUE, Nothing)

\* or an exception is raised, by the reading of the index.
DenseRaises ==
    /\ request.at = "dense" /\ health = "raising"
    /\ Fail /\ Finish(TRUE, vector) /\ UNCHANGED bad

DenseOpen ==
    /\ request.at = "open" /\ Finish(TRUE, vector) /\ UNCHANGED <<breaker, bad>>

\* get_records and timeline: of the caches, only the entries are used.
GetRecords ==
    /\ request.at = "idle" /\ memo' = [memo EXCEPT !["structured"] = Memoized("structured")]
    /\ LoadEntries
    /\ answer' = [data |-> entries'.data, model |-> entries'.data, index |-> Version("embeddings"),
                  fallback |-> FALSE, asked |-> now]
    /\ UNCHANGED <<now, files, loaded, vector, breaker, request>>

\* health looks at the caches, and so takes stamps.
Health == request.at = "idle" /\ Sign /\ answer' = Nothing /\ UNCHANGED <<now, files, caches, breaker, request>>

\* clear_cache, with or without the data.
ClearCache(all) ==
    /\ request.at = "idle" /\ Sign
    /\ model' = Nothing /\ vector' = Nothing /\ results' = NoResults
    /\ IF all THEN entries' = [sig |-> Nothing, data |-> Nothing] /\ loaded' = Nothing
       ELSE UNCHANGED <<entries, loaded>>
    /\ UNCHANGED <<now, files, breaker, request>> /\ answer' = Nothing

----------------------------------------------------------------------------
\* The environment.

\* Time passes; what has been in a cache for its TTL is gone from it.
Tick ==
    /\ now < Horizon /\ (request.at # "idle" => now - request.asked < MaxCall)
    /\ now' = now + 1 /\ bad' = IF health = "well" THEN bad ELSE now'
    /\ memo' = [f \in File |-> IF memo[f] # Nothing /\ now' - memo[f].at < MemoTTL THEN memo[f] ELSE Nothing]
    /\ vector' = IF vector # Nothing /\ now' - vector < QueryTTL THEN vector ELSE Nothing
    /\ results' = [k \in {k \in DOMAIN results : now' - results[k].at < ResultTTL} |-> results[k]]
    /\ answer' = Nothing
    /\ UNCHANGED <<disk, locked, health, troubles, entries, loaded, model, breaker, request>>

\* A file is replaced.
Replace(f) ==
    /\ Version("structured") + Version("embeddings") < MaxWrites + 2
    /\ disk' = [disk EXCEPT ![f] = Append(@, now)]
    /\ UNCHANGED <<now, locked, health, bad, troubles, memo, caches, breaker, request>> /\ answer' = Nothing

Trouble(h) ==
    /\ h # health /\ (h # "well" => troubles < MaxTroubles)
    /\ health' = h /\ bad' = now /\ troubles' = IF h = "well" THEN troubles ELSE troubles + 1
    /\ UNCHANGED <<now, disk, locked, memo, caches, breaker, request>> /\ answer' = Nothing

Lock ==
    /\ (~locked => troubles < MaxTroubles)
    /\ locked' = ~locked /\ troubles' = IF locked THEN troubles ELSE troubles + 1
    /\ UNCHANGED <<now, disk, health, bad, memo, caches, breaker, request>> /\ answer' = Nothing

\* The server's loop takes the next request when the last one is answered.
Receive == Search \/ GetRecords \/ Health \/ \E all \in BOOLEAN : ClearCache(all)

ServerNext ==
    \/ Receive \/ Load \/ DenseWell \/ DenseFails \/ DenseRaises \/ DenseOpen
    \/ Tick \/ Lock \/ \E f \in File : Replace(f)
    \/ \E h \in {"well", "failing", "raising"} : Trouble(h)

ServerSpec == ServerInit /\ [][ServerNext]_serverVars

----------------------------------------------------------------------------
\* Properties.

\* Through memo, entries and results, an answer shows every version of the files
\* that was there one MemoTTL before it was asked for, although a result may be
\* used again for much longer and a file replaced at any step of a request.
Overlooked(f, v) == v < Version(f) /\ disk[f][v + 1] <= answer.asked - MemoTTL
Freshness ==
    answer # Nothing => /\ ~Overlooked("structured", answer.data.version)
                        /\ ~Overlooked("embeddings", answer.index)

\* The position of a score in the ranking model is taken for the position of an
\* entry: the model in use was made of the very entries that are searched.
ModelMatches == answer # Nothing => answer.model = answer.data

\* A search without dense scores is answered only as long after the last trouble
\* (or slow call) as the breaker stays open, a call lasts and a result is kept,
\* together.
HealthyAgain ==
    (answer # Nothing /\ answer.fallback) =>
        bad # Nothing /\ answer.asked - bad < RecoveryTimeout + MaxCall + ResultTTL

\* It does not hold that what could not be opened is read as soon as it can be:
\* the entries with the hole stay until a stamp changes.
HolesHeal ==
    (answer # Nothing /\ answer.data.hole) => (locked \/ \E v \in DOMAIN disk["structured"] : disk["structured"][v] > answer.asked - MemoTTL)
=============================================================================
