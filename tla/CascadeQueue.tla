---------------------------- MODULE CascadeQueue ----------------------------
(***************************************************************************)
(* The SQLite change queue and its workers, ops/cascade.                   *)
(*                                                                         *)
(* Producers and workers are processes that share one database: an action  *)
(* is one SQL statement, one write to the sink, or a crash between two of  *)
(* them.  A row is named by its id, the LSN; enqueued_at and the text of   *)
(* last_error are left out, nothing reads them.                            *)
(***************************************************************************)
EXTENDS Naturals, FiniteSets

CONSTANTS
    Worker,      \* worker processes (workerId)
    Producer,    \* processes that call enqueue
    Key,         \* (source, entry_id)
    Change,      \* (content_sha256, op)
    None,        \* NULL
    Limit,       \* batch size of each worker (--batch)
    MaxLsn       \* bound: rows ever inserted

ASSUME CascadeAssumption ==
    /\ None \notin Worker
    /\ None \notin [key : Key, change : Change]
    /\ Limit \in [Worker -> Nat \ {0}]
    /\ MaxLsn \in Nat

Lsn == 1..MaxLsn
Event == [key : Key, change : Change]

VARIABLES
    last,       \* the largest id handed out (AUTOINCREMENT)
    row,        \* event of each row, kept after the row is deleted
    status,     \* a row: "queued" while processed_at IS NULL
    owner,      \* worker_id
    inserting,  \* the event a producer found no duplicate of
    pc,         \* where each worker is in processOnce
    batch,      \* rows of the worker's batch it has not finished
    applied,    \* rows the sink has received
    failed      \* rows some worker gave back with fail()

tableVars == <<last, row, status, owner>>
workerVars == <<pc, batch>>
vars == <<tableVars, inserting, workerVars, applied, failed>>

TypeOK ==
    /\ last \in 0..MaxLsn
    /\ row \in [Lsn -> Event \cup {None}]
    /\ status \in [Lsn -> {"absent", "queued", "processed", "pruned"}]
    /\ owner \in [Lsn -> Worker \cup {None}]
    /\ inserting \in [Producer -> Event \cup {None}]
    /\ pc \in [Worker -> {"down", "idle", "claiming", "applying", "acking", "failing"}]
    /\ batch \in [Worker -> SUBSET Lsn]
    /\ applied \subseteq Lsn
    /\ failed \subseteq Lsn

Init ==
    /\ last = 0
    /\ row = [l \in Lsn |-> None]
    /\ status = [l \in Lsn |-> "absent"]
    /\ owner = [l \in Lsn |-> None]
    /\ inserting = [p \in Producer |-> None]
    /\ pc = [w \in Worker |-> "down"]
    /\ batch = [w \in Worker |-> {}]
    /\ applied = {} /\ failed = {}

-----------------------------------------------------------------------------
(* What there is to enqueue: record sets, from ids to content hashes *)

\* contentSha256 does not depend on the order of a record's fields, so that
\* equal records have equal hashes; a record set keeps nothing else.
DiffByHash(previous, current) ==
    [upserts |-> [id \in {i \in DOMAIN current : i \in DOMAIN previous => previous[i] # current[i]}
                      |-> current[id]],
     deletes |-> DOMAIN previous \ DOMAIN current]

\* A record set after the changes of a diff.
Patched(records, diff) ==
    [id \in (DOMAIN records \ diff.deletes) \cup DOMAIN diff.upserts |->
        IF id \in DOMAIN diff.upserts THEN diff.upserts[id] ELSE records[id]]

-----------------------------------------------------------------------------
(* enqueue *)

Queued == {l \in Lsn : status[l] = "queued"}

QueuedFor(k) == {l \in Queued : row[l].key = k}

\* The newest unprocessed row of the same key carries the same change.
Duplicate(e) ==
    \E l \in QueuedFor(e.key) :
        /\ \A m \in QueuedFor(e.key) : m <= l
        /\ row[l] = e

\* The SELECT of enqueue: a duplicate is not inserted.
Enqueue(p) ==
    /\ inserting[p] = None
    /\ \E e \in Event :
        /\ ~Duplicate(e)
        /\ inserting' = [inserting EXCEPT ![p] = e]
    /\ UNCHANGED <<tableVars, workerVars, applied, failed>>

\* Fault: no AUTOINCREMENT, the largest id is used again once it is pruned.
InsertReusing(p) ==
    LET used == {l \in Lsn : status[l] \in {"queued", "processed"}}
    IN  /\ inserting[p] # None
        /\ \E l \in Lsn :
            /\ \A m \in used : m < l
            /\ l = 1 \/ l - 1 \in used
            /\ row' = [row EXCEPT ![l] = inserting[p]]
            /\ status' = [status EXCEPT ![l] = "queued"]
            /\ last' = l
        /\ inserting' = [inserting EXCEPT ![p] = None]
        /\ UNCHANGED <<owner, workerVars, applied, failed>>

\* The INSERT of enqueue.
Insert(p) ==
    /\ inserting[p] # None
    /\ last < MaxLsn
    /\ last' = last + 1
    /\ row' = [row EXCEPT ![last + 1] = inserting[p]]
    /\ status' = [status EXCEPT ![last + 1] = "queued"]
    /\ inserting' = [inserting EXCEPT ![p] = None]
    /\ UNCHANGED <<owner, workerVars, applied, failed>>

-----------------------------------------------------------------------------
(* processOnce: claimBatch, then apply and ack or fail each row *)

\* A worker is started, alone or beside others, with no memory of the last one.
Start(w) ==
    /\ pc[w] = "down"
    /\ pc' = [pc EXCEPT ![w] = "idle"]
    /\ UNCHANGED <<tableVars, inserting, batch, applied, failed>>

\* Fault: any unprocessed rows, in no order.
AnyFew(s, n) == s # {} /\ Cardinality(s) <= n

\* Fault: only rows nobody claimed ("AND worker_id IS NULL").
LowestUnclaimed(s, n) ==
    LET free == {l \in Queued : owner[l] = None}
    IN  /\ s # {} /\ s \subseteq free
        /\ \A l \in s, m \in free \ s : l < m
        /\ Cardinality(s) <= n
        /\ s = free \/ Cardinality(s) = n

\* The rows of ORDER BY id ASC LIMIT n: the lowest unprocessed ones.
Lowest(s, n) ==
    /\ s # {}
    /\ \A l \in s, m \in Queued \ s : l < m
    /\ Cardinality(s) <= n
    /\ s = Queued \/ Cardinality(s) = n

\* The SELECT of claimBatch (an empty one changes nothing).
Select(w) ==
    /\ pc[w] = "idle"
    /\ \E s \in SUBSET Queued : Lowest(s, Limit[w]) /\ batch' = [batch EXCEPT ![w] = s]
    /\ pc' = [pc EXCEPT ![w] = "claiming"]
    /\ UNCHANGED <<tableVars, inserting, applied, failed>>

\* The UPDATE of claimBatch: whoever claimed them before, the rows are now w's,
\* unless they were processed meanwhile; the batch keeps those too.
Claim(w) ==
    /\ pc[w] = "claiming"
    /\ owner' = [l \in Lsn |-> IF l \in batch[w] \cap Queued THEN w ELSE owner[l]]
    /\ pc' = [pc EXCEPT ![w] = "applying"]
    /\ UNCHANGED <<last, row, status, inserting, batch, applied, failed>>

\* The row the worker is at.
At(w, l) == l \in batch[w] /\ \A m \in batch[w] : l <= m

\* applyToSink succeeds for row l.
Apply(w, l) ==
    /\ pc[w] = "applying" /\ At(w, l)
    /\ applied' = applied \cup {l}
    /\ pc' = [pc EXCEPT ![w] = "acking"]
    /\ UNCHANGED <<tableVars, inserting, batch, failed>>

\* applyToSink throws, or ack does (a locked database): the catch comes next.
Throw(w) ==
    /\ pc[w] \in {"applying", "acking"}
    /\ pc' = [pc EXCEPT ![w] = "failing"]
    /\ UNCHANGED <<tableVars, inserting, batch, applied, failed>>

\* On to the next row of the batch, or to the next batch.
Advance(w, l) ==
    /\ batch' = [batch EXCEPT ![w] = @ \ {l}]
    /\ pc' = [pc EXCEPT ![w] = IF batch[w] = {l} THEN "idle" ELSE "applying"]

\* ack: only the worker that claimed the row last marks it.
Ack(w, l) ==
    /\ pc[w] = "acking" /\ At(w, l)
    /\ status' = IF owner[l] = w /\ status[l] = "queued"
                 THEN [status EXCEPT ![l] = "processed"] ELSE status
    /\ Advance(w, l)
    /\ UNCHANGED <<last, row, owner, inserting, applied, failed>>

\* fail: the row is released, even if another worker has claimed it since, and
\* the loop goes on with the next row.
Fail(w, l) ==
    /\ pc[w] = "failing" /\ At(w, l)
    /\ owner' = IF status[l] # "pruned" THEN [owner EXCEPT ![l] = None] ELSE owner
    /\ failed' = failed \cup {l}
    /\ Advance(w, l)
    /\ UNCHANGED <<last, row, status, inserting, applied>>

\* The worker ends: killed, by an error of the queue, or after idle ticks.
Crash(w) ==
    /\ pc[w] # "down"
    /\ pc' = [pc EXCEPT ![w] = "down"]
    /\ batch' = [batch EXCEPT ![w] = {}]
    /\ UNCHANGED <<tableVars, inserting, applied, failed>>

\* prune: processed rows of some age are deleted.
Prune ==
    /\ \E old \in SUBSET {l \in Lsn : status[l] = "processed"} :
        /\ old # {}
        /\ status' = [l \in Lsn |-> IF l \in old THEN "pruned" ELSE status[l]]
    /\ UNCHANGED <<last, row, owner, inserting, workerVars, applied, failed>>

Next ==
    \/ \E p \in Producer : Enqueue(p) \/ Insert(p)
    \/ \E w \in Worker : \/ Start(w) \/ Select(w) \/ Claim(w) \/ Throw(w) \/ Crash(w)
                         \/ \E l \in Lsn : Apply(w, l) \/ Ack(w, l) \/ Fail(w, l)
    \/ Prune

Spec == Init /\ [][Next]_vars

Work(w) == \/ Select(w) \/ Claim(w)
           \/ \E l \in Lsn : Apply(w, l) \/ Ack(w, l) \/ Fail(w, l)

\* A worker that runs goes on, and the errors of the sink and of the database
\* come to an end.
Fairness ==
    /\ \A w \in Worker : WF_vars(Work(w))
    /\ <>[][\A w \in Worker : ~Throw(w)]_vars

FairSpec == Spec /\ Fairness

-----------------------------------------------------------------------------
(* Properties that hold *)

\* A row is marked, and may be pruned, only after the sink received it, however
\* workers crash, stall or steal each other's claims (ack, prune).
ProcessedWasApplied ==
    \A l \in Lsn : status[l] \in {"processed", "pruned"} => l \in applied

\* The sink receives a change before all later ones, across batches, workers
\* and crashes, unless a worker gave it back (claimBatch's lowest-first order).
AppliedInOrder ==
    \A l \in applied, m \in Lsn : m < l => m \in applied \/ m \in failed

\* The queue delivers at least once.
Delivery == INSTANCE EventDelivery WITH
    Event <- Lsn,
    posted <- {l \in Lsn : status[l] # "absent"},
    delivered <- applied,
    retired <- {l \in Lsn : status[l] \in {"processed", "pruned"}}

\* The implementation of the at-least-once contract; the steps of prune are
\* stuttering, those of ack and insert one row at a time.
DeliversAtLeastOnce == Delivery!Spec

Running == {w \in Worker : pc[w] # "down"}

\* A queued change is processed when one worker runs alone from some point on,
\* whatever others left behind when they stopped (claimBatch's crash recovery).
LoneWorkerDrains ==
    \A l \in Lsn :
        (status[l] = "queued") ~> (status[l] # "queued" \/ Cardinality(Running) # 1)

-----------------------------------------------------------------------------
(* What the comments say and the code does not do *)

\* "the queue guarantees exactly-once application semantics at the LSN level".
ExactlyOnce ==
    [][\A w \in Worker, l \in Lsn : Apply(w, l) => l \notin applied]_vars

\* "worker pulls changes in order": an older change of a record does not reach
\* the sink after a newer one did.
ChangesApplyInOrder ==
    [][\A l \in applied' \ applied, m \in applied :
          row[l].key = row[m].key => m < l]_vars

\* "(no duplicate enqueue)": the newest two unprocessed rows of a record differ.
NoDuplicateRows ==
    \A k \in Key : \A l, m \in QueuedFor(k) :
        l # m /\ (\A n \in QueuedFor(k) : n <= l \/ n <= m) => row[l] # row[m]

\* "any worker can claim events that have not been processed yet": with several
\* running, a queued change still gets processed.
WorkersDrain ==
    \A l \in Lsn : (status[l] = "queued") ~> (status[l] # "queued" \/ Running = {})
=============================================================================
