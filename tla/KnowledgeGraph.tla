--------------------------- MODULE KnowledgeGraph ---------------------------
(***************************************************************************)
(* The temporal knowledge graph in its SQLite file, written by processes   *)
(* of two kinds: builds and backfills, which ingest their records in one   *)
(* transaction, and the command line, whose operations are several         *)
(* statements that commit one by one.  SQLite (WAL) gives a transaction a  *)
(* snapshot at its first statement, lets one connection write at a time,   *)
(* and refuses to let a transaction write whose snapshot is stale.         *)
(*                                                                         *)
(* Predicates are short; the properties of entities, and confidences once  *)
(* they have passed their threshold, are left out.  incrementConfidence    *)
(* has no caller.                                                          *)
(***************************************************************************)
EXTENDS Integers, FiniteSets, Sequences, Subsequence

CONSTANTS Batch,        \* processes that ingest records in a transaction
          Client,       \* processes of the command line
          Names,        \* the entities
          Triple,       \* <<subject, predicate, object>>
          Records,      \* what each of Batch ingests
          Clock,        \* instants; 10 d is the day that 10 d + k falls on
          Froms,        \* values of --valid-from; Null without
          Ends,         \* values of the end given to invalidate; Null without
          MaxJobs       \* bounds the operations of one process

Process == Batch \cup Client
Null == 0
Today(t) == 10 * (t \div 10)

\* TYPE_RANK; what it does not name, as "uncertain", has rank 0.
Rank(type) ==
    CASE type = "person" -> 5 [] type = "project" -> 4 [] type = "concept" -> 3
      [] type = "tool" -> 2 [] type = "unknown" -> 1 [] type = "absent" -> -1 [] OTHER -> 0

\* What classifyEntity calls an entity; only a type that is not "uncertain" comes
\* with a confidence of 0.6 or more.
Extracted == [name : Names, sure : BOOLEAN, type : {"person", "project", "concept", "uncertain"}]
Fact == [kind : {"triple"}, t : Triple] \cup [kind : {"class"}, t : {<<>>}]

ASSUME RecordAssumption ==
    \A p \in Batch : Records[p] \in
        Seq([entities : Seq({e \in Extracted : e.sure => e.type # "uncertain"}), facts : Seq(Fact)])

ASSUME GraphAssumption ==
    /\ Batch \cap Client = {} /\ MaxJobs \in [Process -> Nat] /\ Null \in Froms /\ Froms \subseteq Nat
    /\ Null \in Ends /\ Ends \subseteq Nat
    /\ \A t \in Triple : t[1] \in Names /\ t[3] \in Names
    /\ Clock \subseteq Nat /\ Null \notin Clock /\ Clock # {}

VARIABLES
    db,         \* the committed file: the type of each entity, the rows of triples
    tx,         \* the transaction of each connection
    proc,       \* what each process is doing
    now,        \* the clock
    jobs,       \* operations each process has started
    raced,      \* history: one process wrote rows of a triple in the middle of
                \* another's operation on it
    ahead,      \* history: the rows ended as of an instant still to come
    asserted,   \* history: triples added or upserted, and not invalidated since
    torn        \* history: triples an upsert expired and then did not insert

vars == <<db, tx, proc, now, jobs, raced, ahead, asserted, torn>>

\* A row: id is what tripleId hashes beside the triple (the ISO string of its
\* beginning, or the milliseconds of the clock), t the triple, from and to its
\* validity, by what it was written.
Row(t, id, from, by) == [t |-> t, id |-> id, from |-> from, to |-> Null, by |-> by]

Empty == [types |-> [n \in Names |-> "absent"], rows |-> {}]
Autocommit == [mode |-> "auto", view |-> Empty, stale |-> FALSE]
Idle == [at |-> "idle", todo |-> <<>>, t |-> <<>>, from |-> Null, old |-> "absent"]

Init ==
    /\ db = Empty /\ tx = [p \in Process |-> Autocommit] /\ proc = [p \in Process |-> Idle]
    /\ now \in Clock /\ \A c \in Clock : now <= c
    /\ jobs = [p \in Process |-> 0]
    /\ raced = FALSE /\ ahead = {} /\ asserted = {} /\ torn = {}

Present == {n \in Names : db.types[n] # "absent"}

At(p, where) == proc[p].at = where
Active(rows, t) == {r \in rows : r.t = t /\ r.to = Null}

\* queryEntity and queryRelationship with asOf: ends included.
ValidAt(r, asOf) == r.from <= asOf /\ (r.to = Null \/ r.to >= asOf)

----------------------------------------------------------------------------
\* Statements.

Seen(p) == IF tx[p].mode \in {"read", "write"} THEN tx[p].view ELSE db

\* A SELECT opens the snapshot of a transaction that has none.
Select(p) ==
    tx' = IF tx[p].mode = "begun" THEN [tx EXCEPT ![p] = [mode |-> "read", view |-> db, stale |-> FALSE]] ELSE tx

Outdate(t, p, new) ==
    [q \in Process |-> IF q # p /\ t[q].mode = "read" /\ new # db THEN [t[q] EXCEPT !.stale = TRUE] ELSE t[q]]

MayWrite(p) == ~tx[p].stale /\ \A q \in Process \ {p} : tx[q].mode # "write"

\* A statement of p that makes new of what it sees.
Statement(p, new) ==
    /\ MayWrite(p)
    /\ IF tx[p].mode = "auto" THEN db' = new /\ tx' = Outdate(tx, p, new)
       ELSE tx' = [tx EXCEPT ![p] = [mode |-> "write", view |-> new, stale |-> FALSE]] /\ UNCHANGED db

\* SQLITE_BUSY: at once with a stale snapshot, after ten seconds of waiting for
\* another connection's transaction.
Busy(p) == ~MayWrite(p)

\* Who, other than p, is in the middle of an operation on t outside a transaction.
Amid(p, t) == \E q \in Process \ {p} : proc[q].t = t /\ proc[q].at \in {"check", "insert", "renew", "expire"}

----------------------------------------------------------------------------
\* Ingesting.

\* ingestRecord as the operations it comes to: entities with a confidence of at
\* least 0.6, then facts that name a subject and an object.  A string, or the
\* "is a" fact of extractEntities, which names neither, comes to nothing.
Ops(record) ==
    LET sure == Filter(record.entities, LAMBDA e : e.sure)
        full == Filter(record.facts, LAMBDA f : f.kind = "triple")
    IN  [i \in DOMAIN sure |-> [op |-> "entity", name |-> sure[i].name, type |-> sure[i].type, t |-> <<>>]]
        \o [i \in DOMAIN full |-> [op |-> "triple", name |-> full[i].t[1], type |-> "unknown", t |-> full[i].t]]

\* beginBatch, with all records at hand.
Begin(p) ==
    /\ p \in Batch /\ At(p, "idle") /\ jobs[p] < MaxJobs[p]
    /\ jobs' = [jobs EXCEPT ![p] = @ + 1]
    /\ tx' = [tx EXCEPT ![p].mode = "begun"]
    /\ proc' = [proc EXCEPT ![p].at = "next", ![p].todo = [i \in DOMAIN Records[p] |-> Ops(Records[p][i])]]
    /\ UNCHANGED <<db, now, raced, ahead, asserted, torn>>

\* Go on with the operations of the record, without its first.
Advance(p) ==
    proc' = [proc EXCEPT ![p] = IF p \in Client THEN Idle
                                ELSE [Idle EXCEPT !.at = "next",
                                    !.todo = <<Tail(Head(proc[p].todo))>> \o Tail(proc[p].todo)]]

\* An error leaves the rest of the record out (build-memory-layers logs it);
\* on the command line it ends the process.
Fail(p) ==
    proc' = [proc EXCEPT ![p] = IF p \in Client THEN Idle
                                ELSE [Idle EXCEPT !.at = "next", !.todo = Tail(proc[p].todo)]]

NextRecord(p) ==
    /\ At(p, "next") /\ proc[p].todo # <<>> /\ Head(proc[p].todo) = <<>>
    /\ proc' = [proc EXCEPT ![p].todo = Tail(@)]
    /\ UNCHANGED <<db, tx, now, jobs, raced, ahead, asserted, torn>>

\* addEntity: read the type there is,
EntityRead(p) ==
    /\ At(p, "next") /\ proc[p].todo # <<>> /\ Head(proc[p].todo) # <<>>
    /\ Head(proc[p].todo)[1].op = "entity"
    /\ Select(p)
    /\ proc' = [proc EXCEPT ![p].at = "entity", ![p].old = Seen(p).types[Head(proc[p].todo)[1].name]]
    /\ UNCHANGED <<db, now, jobs, raced, ahead, asserted, torn>>

\* keep the most specific one seen,
ResolvedType(old, type) ==
    IF Rank(type) > Rank(IF old = "absent" THEN "unknown" ELSE old) \/ old = "absent" THEN type ELSE old

\* and replace the row.
EntityWrite(p) ==
    /\ At(p, "entity")
    /\ LET e == Head(proc[p].todo)[1]
       IN  Statement(p, [Seen(p) EXCEPT !.types[e.name] = ResolvedType(proc[p].old, e.type)])
    /\ Advance(p)
    /\ UNCHANGED <<now, jobs, raced, ahead, asserted, torn>>

Refused(p) ==
    /\ proc[p].at \in {"entity", "names", "object", "insert"} /\ Busy(p)
    /\ Fail(p)
    /\ UNCHANGED <<db, tx, now, jobs, raced, ahead, asserted, torn>>

EndBatch(p) ==
    /\ At(p, "next") /\ proc[p].todo = <<>>
    /\ IF tx[p].mode = "write" THEN db' = tx[p].view /\ tx' = [Outdate(tx, p, tx[p].view) EXCEPT ![p] = Autocommit]
       ELSE tx' = [tx EXCEPT ![p] = Autocommit] /\ UNCHANGED db
    /\ asserted' = asserted \cup {r.t : r \in {x \in db'.rows : x.to = Null}}
    /\ raced' = (raced \/ \E t \in Triple : Active(db'.rows, t) # Active(db.rows, t) /\ Amid(p, t))
    /\ proc' = [proc EXCEPT ![p] = Idle]
    /\ UNCHANGED <<now, jobs, ahead, torn>>

----------------------------------------------------------------------------
\* addTriple.

StartAdd(p, t, from) ==
    \/ /\ p \in Client /\ At(p, "idle") /\ jobs[p] < MaxJobs[p]
       /\ jobs' = [jobs EXCEPT ![p] = @ + 1]
       /\ proc' = [proc EXCEPT ![p] = [Idle EXCEPT !.at = "names", !.t = t, !.from = from]]
       /\ UNCHANGED <<db, tx, now, raced, ahead, asserted, torn>>
    \/ /\ At(p, "next") /\ proc[p].todo # <<>> /\ Head(proc[p].todo) # <<>>
       /\ Head(proc[p].todo)[1].op = "triple" /\ Head(proc[p].todo)[1].t = t /\ from = Null
       /\ proc' = [proc EXCEPT ![p].at = "names", ![p].t = t]
       /\ UNCHANGED <<db, tx, now, jobs, raced, ahead, asserted, torn>>

\* INSERT OR IGNORE an entity.
WithName(v, n) == [v EXCEPT !.types[n] = IF @ = "absent" THEN "unknown" ELSE @]
InsertName(p, n, then) ==
    /\ Statement(p, WithName(Seen(p), n))
    /\ proc' = [proc EXCEPT ![p].at = then]
    /\ UNCHANGED <<now, jobs, raced, ahead, asserted, torn>>

AddSubject(p) == At(p, "names") /\ InsertName(p, proc[p].t[1], "object")

\* Fault: the subject is inserted twice.
AddSubjectAgain(p) == At(p, "object") /\ InsertName(p, proc[p].t[1], "check")

AddObject(p) == At(p, "object") /\ InsertName(p, proc[p].t[3], "check")

\* An active row of the triple is enough.
AddCheck(p) ==
    /\ At(p, "check") /\ Select(p)
    /\ IF Active(Seen(p).rows, proc[p].t) # {}
       THEN Advance(p) /\ asserted' = IF p \in Client THEN asserted \cup {proc[p].t} ELSE asserted
       ELSE proc' = [proc EXCEPT ![p].at = "insert"] /\ UNCHANGED asserted
    /\ UNCHANGED <<db, now, jobs, raced, ahead, torn>>

\* INSERT a row; the id of one that has no validFrom is made of the clock.
Inserted(p) ==
    LET id == IF proc[p].from = Null THEN <<"ms", now>> ELSE <<"iso", proc[p].from>>
    IN  Row(proc[p].t, id, proc[p].from, IF p \in Batch THEN "batch" ELSE IF At(p, "renew") THEN "upsert" ELSE "add")

Taken(p) == \E r \in Seen(p).rows : r.t = proc[p].t /\ r.id = Inserted(p).id

\* Fault: an error of the INSERT goes unnoticed.
AddInsertSilently(p) ==
    /\ At(p, "insert")
    /\ IF Taken(p) THEN MayWrite(p) /\ UNCHANGED <<db, tx, raced>>
       ELSE /\ Statement(p, [Seen(p) EXCEPT !.rows = @ \cup {Inserted(p)}])
            /\ raced' = (raced \/ (p \in Client /\ Amid(p, proc[p].t)))
    /\ asserted' = IF p \in Client THEN asserted \cup {proc[p].t} ELSE asserted
    /\ Advance(p)
    /\ UNCHANGED <<now, jobs, ahead, torn>>

\* The primary key refuses an id that was there before, also an expired row's.
AddInsert(p) ==
    /\ At(p, "insert")
    /\ IF Taken(p) THEN /\ MayWrite(p) /\ Fail(p) /\ UNCHANGED <<db, tx, raced, asserted>>
       ELSE /\ Statement(p, [Seen(p) EXCEPT !.rows = @ \cup {Inserted(p)}])
            /\ raced' = (raced \/ (p \in Client /\ Amid(p, proc[p].t)))
            /\ asserted' = IF p \in Client THEN asserted \cup {proc[p].t} ELSE asserted
            /\ Advance(p)
    /\ UNCHANGED <<now, jobs, ahead, torn>>

----------------------------------------------------------------------------
\* upsertTriple and invalidate.

StartUpsert(p, t) ==
    /\ p \in Client /\ At(p, "idle") /\ jobs[p] < MaxJobs[p]
    /\ jobs' = [jobs EXCEPT ![p] = @ + 1]
    /\ proc' = [proc EXCEPT ![p] = [Idle EXCEPT !.at = "expire", !.t = t, !.from = now]]
    /\ UNCHANGED <<db, tx, now, raced, ahead, asserted, torn>>

Expired(rows, t, when) == {IF r.t = t /\ r.to = Null THEN [r EXCEPT !.to = when] ELSE r : r \in rows}

\* Fault: the row there is stays current.
UpsertExpireNothing(p) ==
    /\ At(p, "expire")
    /\ proc' = [proc EXCEPT ![p].at = "renew"]
    /\ UNCHANGED <<db, tx, now, jobs, raced, ahead, asserted, torn>>

UpsertExpire(p) ==
    /\ At(p, "expire")
    /\ \/ /\ Statement(p, [db EXCEPT !.rows = Expired(@, proc[p].t, proc[p].from)])
          /\ raced' = (raced \/ Amid(p, proc[p].t))
          /\ proc' = [proc EXCEPT ![p].at = "renew"]
       \/ Busy(p) /\ Fail(p) /\ UNCHANGED <<db, tx, raced>>
    /\ UNCHANGED <<now, jobs, ahead, asserted, torn>>

UpsertInsert(p) ==
    /\ At(p, "renew")
    /\ \/ /\ ~Taken(p)
          /\ Statement(p, [db EXCEPT !.rows = @ \cup {Inserted(p)}])
          /\ raced' = (raced \/ Amid(p, proc[p].t))
          /\ asserted' = asserted \cup {proc[p].t} /\ UNCHANGED torn
       \/ /\ Taken(p) \/ Busy(p)
          /\ torn' = torn \cup {proc[p].t} /\ UNCHANGED <<db, tx, raced, asserted>>
    /\ proc' = [proc EXCEPT ![p] = Idle]
    /\ UNCHANGED <<now, jobs, ahead>>

\* One statement, with the end that is given or else the day, not the instant.
Invalidate(p, t, ended) ==
    /\ p \in Client /\ At(p, "idle") /\ jobs[p] < MaxJobs[p]
    /\ jobs' = [jobs EXCEPT ![p] = @ + 1]
    /\ Statement(p, [db EXCEPT !.rows = Expired(@, t, IF ended = Null THEN Today(now) ELSE ended)])
    /\ raced' = (raced \/ Amid(p, t))
    /\ ahead' = ahead \cup {r \in db'.rows \ db.rows : r.to > now}
    /\ asserted' = asserted \ {t}
    /\ UNCHANGED <<proc, now, torn>>

----------------------------------------------------------------------------
Tick(t) ==
    /\ t \in Clock /\ t > now /\ now' = t
    /\ UNCHANGED <<db, tx, proc, jobs, raced, ahead, asserted, torn>>

\* A kill rolls an open transaction back.
Kill(p) ==
    /\ ~At(p, "idle")
    /\ proc' = [proc EXCEPT ![p] = Idle] /\ tx' = [tx EXCEPT ![p] = Autocommit]
    /\ torn' = IF At(p, "renew") THEN torn \cup {proc[p].t} ELSE torn
    /\ UNCHANGED <<db, now, jobs, raced, ahead, asserted>>

Next ==
    \/ \E p \in Process :
          \/ Begin(p) \/ NextRecord(p) \/ EntityRead(p) \/ EntityWrite(p) \/ Refused(p) \/ EndBatch(p)
          \/ AddSubject(p) \/ AddObject(p) \/ AddCheck(p) \/ AddInsert(p)
          \/ UpsertExpire(p) \/ UpsertInsert(p) \/ Kill(p)
          \/ \E t \in Triple : \/ StartUpsert(p, t) \/ \E ended \in Ends : Invalidate(p, t, ended)
                               \/ \E from \in Froms : StartAdd(p, t, from)
    \/ \E t \in Clock : Tick(t)

Spec == Init /\ [][Next]_vars

----------------------------------------------------------------------------
\* Properties.

\* As long as no two processes write the same triple in each other's midst, it
\* has one active row at most, and a query as of any instant that is not the
\* end of a row finds one version at most of those that upserts wrote.  A row
\* that invalidate ended ahead of time is none of these: an upsert before that
\* end finds no active row to expire, and both versions are valid until then.
SequentialHistory ==
    raced \/ \A t \in Triple :
        /\ Cardinality(Active(db.rows, t)) <= 1
        /\ \A c \in Clock :
              LET found == {r \in db.rows \ ahead : r.t = t /\ r.by = "upsert" /\ ValidAt(r, c)}
              IN  Cardinality(found) <= 1 \/ \E r \in found : r.to = c

\* A triple that was added and not invalidated since has an active row, unless
\* an upsert of it is between its two statements, or never came to the second.
AssertedKept ==
    \A t \in asserted \ torn :
        Active(db.rows, t) # {} \/ \E p \in Process : At(p, "renew") /\ proc[p].t = t

\* However ingesting transactions interleave, the type of an entity never
\* becomes less specific.
TypeNeverDegrades ==
    [][\A n \in Names : Rank(db'.types[n]) >= Rank(db.types[n])]_vars

\* A fact that was ingested or added has both its entities: the JOINs of the
\* queries do not drop it, and get_entity_info finds what takes part in it.
JoinLosesNothing ==
    \A row \in db.rows : row.by # "upsert" => row.t[1] \in Present /\ row.t[3] \in Present
=============================================================================
