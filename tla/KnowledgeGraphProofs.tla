------------------------- MODULE KnowledgeGraphProofs -------------------------
(***************************************************************************)
(* Proofs about KnowledgeGraph, and about KnowledgeTools on top of it, for *)
(* any number of processes, triples, records and instants.                 *)
(***************************************************************************)
EXTENDS KnowledgeTools, SequenceTheorems, FiniteSetTheorems, TLAPS

Writers == {"batch", "add", "upsert"}
RowType == [t : Triple, id : {"ms", "iso"} \X Nat, from : Nat, to : Nat, by : Writers]

\* What a database is.  An ingested record may give an entity any type.
IsDb(v) ==
    /\ v = [types |-> v.types, rows |-> v.rows]
    /\ v.types = [n \in Names |-> v.types[n]]
    /\ v.rows \subseteq RowType

Named(v, t) == v.types[t[1]] # "absent" /\ v.types[t[3]] # "absent"

\* What was ingested or added has its entities.
Closed(v) == \A r \in v.rows : r.by # "upsert" => Named(v, r.t)

\* Types become more specific only.
Raises(v, w) == \A n \in Names : Rank(w.types[n]) >= Rank(v.types[n])

\* What a transaction has written so far goes beyond the database by rows of
\* its own and more specific types.
Beyond(v, w) ==
    /\ Raises(v, w) /\ v.rows \subseteq w.rows
    /\ \A r \in w.rows \ v.rows : r.by = "batch"

\* The transaction of a connection; there is one writer at most.
TxOK(p) ==
    /\ tx[p] = [mode |-> tx[p].mode, view |-> tx[p].view, stale |-> tx[p].stale]
    /\ tx[p].mode \in {"auto", "begun", "read", "write"} /\ tx[p].stale \in BOOLEAN
    /\ IsDb(tx[p].view)
    /\ tx[p].mode = "write" => Closed(tx[p].view) /\ Beyond(db, tx[p].view)
    /\ tx[p].mode = "read" /\ ~tx[p].stale => tx[p].view = db

OneWriter == \A p, q \in Process : tx[p].mode = "write" /\ tx[q].mode = "write" => p = q

\* What a process is doing goes with its transaction: between the two
\* statements of addEntity the type read is the type there is, and after each
\* of the first statements of addTriple one more of its entities is there.
ProcOK(p) ==
    /\ proc[p] = [at |-> proc[p].at, todo |-> proc[p].todo, t |-> proc[p].t,
                  from |-> proc[p].from, old |-> proc[p].old]
    /\ proc[p].from \in Nat
    /\ p \in Client => /\ proc[p].at \in {"idle", "names", "object", "check", "insert", "expire", "renew"}
                       /\ tx[p].mode = "auto"
    /\ p \in Batch => /\ proc[p].at \in {"idle", "next", "entity", "names", "object", "check", "insert"}
                      /\ proc[p].at # "idle" => tx[p].mode # "auto"
                      /\ proc[p].at \in {"object", "check", "insert"} => tx[p].mode = "write"
    /\ proc[p].at \in {"names", "object", "check", "insert", "expire", "renew"} => proc[p].t \in Triple
    /\ proc[p].at = "entity" => /\ tx[p].mode \in {"read", "write"}
                                /\ proc[p].old = tx[p].view.types[Head(proc[p].todo)[1].name]
    /\ proc[p].at = "object" => Seen(p).types[proc[p].t[1]] # "absent"
    /\ proc[p].at \in {"check", "insert"} => Named(Seen(p), proc[p].t)

GraphInv ==
    /\ IsDb(db) /\ Closed(db) /\ now \in Clock
    /\ tx = [p \in Process |-> tx[p]] /\ proc = [p \in Process |-> proc[p]]
    /\ OneWriter
    /\ \A p \in Process : TxOK(p) /\ ProcOK(p)

----------------------------------------------------------------------------
(* What the statements make of a database. *)

\* Ranks are numbers from -1, and only what is absent has -1.
LEMMA RankRange ==
    ASSUME NEW x
    PROVE  Rank(x) \in -1..5 /\ (Rank(x) = -1 <=> x = "absent")
  BY DEF Rank

\* What is there stays there when types become more specific.
LEMMA RaisesOne ==
    ASSUME NEW v, NEW w, NEW n \in Names, Raises(v, w), v.types[n] # "absent"
    PROVE  w.types[n] # "absent"
  BY RankRange DEF Raises

LEMMA RaisesKeeps ==
    ASSUME NEW v, NEW w, NEW t \in Triple, Raises(v, w), Named(v, t)
    PROVE  Named(w, t)
<1>1. t[1] \in Names /\ t[3] \in Names
  BY GraphAssumption
<1>2. ASSUME NEW n \in Names, v.types[n] # "absent" PROVE w.types[n] # "absent"
  BY <1>2, RaisesOne
<1> QED
  BY <1>1, <1>2 DEF Named

LEMMA RaisesItself == ASSUME NEW v PROVE Raises(v, v) /\ Beyond(v, v)
  BY RankRange DEF Raises, Beyond

\* INSERT OR IGNORE of an entity.
LEMMA NameAdded ==
    ASSUME NEW v, IsDb(v), Closed(v), NEW n \in Names, NEW w, w = WithName(v, n)
    PROVE  /\ IsDb(w) /\ Closed(w) /\ Beyond(v, w) /\ w.rows = v.rows /\ w.types[n] # "absent"
           /\ \A m \in Names : w.types[m] = v.types[m] \/ w.types[m] = "unknown"
<1>1. w = [types |-> [v.types EXCEPT ![n] = IF v.types[n] = "absent" THEN "unknown" ELSE v.types[n]],
           rows |-> v.rows]
  BY DEF IsDb, WithName
<1>2. \A m \in Names : w.types[m] = IF m = n /\ v.types[n] = "absent" THEN "unknown" ELSE v.types[m]
  BY <1>1 DEF IsDb
<1>3. Raises(v, w)
  BY <1>2, RankRange DEF Raises
<1>4. IsDb(w)
  BY <1>1 DEF IsDb
<1>5. Closed(w)
  BY <1>1, <1>3, RaisesKeeps DEF Closed, IsDb, RowType
<1> QED
  BY <1>1, <1>2, <1>3, <1>4, <1>5 DEF Beyond

\* The type of an entity is replaced by what addEntity resolves.
LEMMA EntityRaised ==
    ASSUME NEW v, IsDb(v), Closed(v), NEW name, NEW type, NEW w,
           w = [v EXCEPT !.types[name] = ResolvedType(v.types[name], type)]
    PROVE  IsDb(w) /\ Closed(w) /\ Beyond(v, w) /\ w.rows = v.rows
<1>1. w = [types |-> [v.types EXCEPT ![name] = ResolvedType(v.types[name], type)], rows |-> v.rows]
  BY DEF IsDb
<1>2. \A n \in Names : w.types[n] = IF n = name THEN ResolvedType(v.types[n], type) ELSE v.types[n]
  BY <1>1 DEF IsDb
<1>3. \A x : Rank(ResolvedType(x, type)) >= Rank(x)
  BY RankRange DEF ResolvedType
<1>4. Raises(v, w)
  BY <1>2, <1>3, RankRange DEF Raises
<1>5. IsDb(w)
  BY <1>1 DEF IsDb
<1>6. Closed(w)
  BY <1>1, <1>4, RaisesKeeps DEF Closed, IsDb, RowType
<1> QED
  BY <1>1, <1>4, <1>5, <1>6 DEF Beyond

\* A row is inserted.
LEMMA RowAdded ==
    ASSUME NEW v, IsDb(v), Closed(v), NEW row \in RowType, row.by # "upsert" => Named(v, row.t), NEW w,
           w = [v EXCEPT !.rows = @ \cup {row}]
    PROVE  IsDb(w) /\ Closed(w) /\ Raises(v, w) /\ w.types = v.types /\ w.rows = v.rows \cup {row}
<1>1. w = [types |-> v.types, rows |-> v.rows \cup {row}]
  BY DEF IsDb
<1>2. IsDb(w)
  BY <1>1 DEF IsDb
<1>3. Closed(w)
  BY <1>1 DEF Closed, Named
<1>4. Raises(v, w)
  BY <1>1, RankRange DEF Raises
<1> QED
  BY <1>1, <1>2, <1>3, <1>4

\* The current rows of a triple end.
LEMMA RowsExpired ==
    ASSUME NEW v, IsDb(v), Closed(v), NEW t, NEW when \in Nat, NEW w,
           w = [v EXCEPT !.rows = Expired(@, t, when)]
    PROVE  IsDb(w) /\ Closed(w) /\ Raises(v, w) /\ w.types = v.types /\ w.rows = Expired(v.rows, t, when)
<1>1. w = [types |-> v.types, rows |-> Expired(v.rows, t, when)]
  BY DEF IsDb
<1>2. \A r \in w.rows : r \in RowType /\ \E x \in v.rows : r.by = x.by /\ r.t = x.t
  BY <1>1 DEF Expired, IsDb, RowType
<1>3. Closed(w)
  BY <1>1, <1>2 DEF Closed, Named
<1> QED
  BY <1>1, <1>2, <1>3, RaisesItself DEF IsDb, Raises

LEMMA BeyondTransitive ==
    ASSUME NEW u, NEW v, NEW w, Beyond(u, v), Beyond(v, w)
    PROVE  Beyond(u, w)
<1>1. Raises(u, w)
  BY RankRange DEF Beyond, Raises
<1> QED
  BY <1>1 DEF Beyond

----------------------------------------------------------------------------
(* What the statements make of the connections. *)

LEMMA SeenIsDb ==
    ASSUME GraphInv, NEW p \in Process
    PROVE  /\ IsDb(Seen(p))
           /\ MayWrite(p) => Closed(Seen(p))
           /\ MayWrite(p) /\ tx[p].mode # "write" => Seen(p) = db
           /\ tx[p].mode = "write" => Seen(p) = tx[p].view
           /\ tx[p].mode = "auto" => Seen(p) = db
  BY DEF GraphInv, TxOK, Seen, MayWrite

\* What one process is doing is not disturbed by what others write.
LEMMA ProcKept ==
    ASSUME GraphInv, NEW q \in Process, proc'[q] = proc[q],
           tx'[q].mode = tx[q].mode, tx'[q].view = tx[q].view, Raises(db, db')
    PROVE  ProcOK(q)'
<1>1. ProcOK(q)
  BY DEF GraphInv
<1>2. CASE tx[q].mode \in {"read", "write"}
  <2>1. Seen(q)' = Seen(q)
    BY <1>2 DEF Seen
  <2> QED
    BY <1>1, <2>1 DEF ProcOK
<1>3. CASE tx[q].mode \notin {"read", "write"}
  <2>1. Seen(q)' = db' /\ Seen(q) = db
    BY <1>3 DEF Seen
  <2>2. proc[q].at \in {"check", "insert"} => Named(Seen(q)', proc[q].t)
    BY <1>1, <2>1, RaisesKeeps DEF ProcOK
  <2>3. proc[q].at = "object" => Seen(q)'.types[proc[q].t[1]] # "absent"
    BY <1>1, <2>1, RaisesOne, GraphAssumption DEF ProcOK
  <2> QED
    BY <1>1, <2>2, <2>3, <1>3 DEF ProcOK, Named
<1> QED
  BY <1>2, <1>3

\* A statement changes the database or the view of the writer only.
LEMMA StatementEffect ==
    ASSUME GraphInv, NEW p \in Process, NEW w, IsDb(w), Closed(w), Statement(p, w),
           Raises(Seen(p), w), tx[p].mode # "auto" => Beyond(Seen(p), w)
    PROVE  /\ IsDb(db') /\ Closed(db') /\ Raises(db, db')
           /\ tx' = [q \in Process |-> tx'[q]]
           /\ OneWriter'
           /\ \A q \in Process : TxOK(q)'
           /\ \A q \in Process \ {p} : tx'[q].mode = tx[q].mode /\ tx'[q].view = tx[q].view
           /\ tx'[p].mode = IF tx[p].mode = "auto" THEN "auto" ELSE "write"
           /\ Seen(p)' = w
<1>1. MayWrite(p) /\ tx = [q \in Process |-> tx[q]] /\ \A q \in Process : TxOK(q)
  BY DEF Statement, GraphInv
<1>2. CASE tx[p].mode = "auto"
  <2>1. db' = w /\ tx' = Outdate(tx, p, w) /\ Seen(p) = db
    BY <1>2 DEF Statement, Seen
  <2>10. \A q \in Process : tx'[q] = IF q # p /\ tx[q].mode = "read" /\ w # db
                                    THEN [tx[q] EXCEPT !.stale = TRUE] ELSE tx[q]
    BY <2>1 DEF Outdate
  <2>2. \A q \in Process : /\ tx'[q].mode = tx[q].mode /\ tx'[q].view = tx[q].view
                           /\ tx'[q] = [mode |-> tx'[q].mode, view |-> tx'[q].view, stale |-> tx'[q].stale]
                           /\ tx'[q].stale \in BOOLEAN
                           /\ tx[q].mode = "read" /\ ~tx'[q].stale => tx[q].view = db'
    BY <1>1, <1>2, <2>1, <2>10 DEF TxOK
  <2>3. \A q \in Process : tx[q].mode # "write"
    BY <1>1, <1>2 DEF MayWrite
  <2>4. \A q \in Process : TxOK(q)'
    BY <1>1, <1>2, <2>1, <2>2, <2>3 DEF TxOK
  <2>5. OneWriter'
    BY <2>2, <2>3 DEF OneWriter
  <2>6. Seen(p)' = w
    BY <1>2, <2>1, <2>2 DEF Seen
  <2>7. tx' = [q \in Process |-> tx'[q]]
    BY <2>1 DEF Outdate
  <2> QED
    BY <1>2, <2>1, <2>2, <2>4, <2>5, <2>6, <2>7
<1>3. CASE tx[p].mode # "auto"
  <2>1. db' = db /\ tx' = [tx EXCEPT ![p] = [mode |-> "write", view |-> w, stale |-> FALSE]]
    BY <1>3 DEF Statement
  <2>2. \A q \in Process \ {p} : tx'[q] = tx[q]
    BY <1>1, <2>1
  <2>3. tx'[p] = [mode |-> "write", view |-> w, stale |-> FALSE]
    BY <1>1, <2>1
  <2>4. Beyond(db, w)
    BY <1>1, <1>3, SeenIsDb, BeyondTransitive DEF TxOK
  <2>5. TxOK(p)'
    <3>1. IsDb(tx'[p].view) /\ Closed(tx'[p].view) /\ Beyond(db', tx'[p].view)
      BY <2>1, <2>3, <2>4
    <3>2. IsDb(tx[p].view)' /\ Closed(tx[p].view)' /\ Beyond(db, tx[p].view)'
      BY <3>1 DEF IsDb, Closed, Beyond, Named, Raises
    <3> QED
      BY <2>3, <3>2 DEF TxOK
  <2>6. \A q \in Process \ {p} : TxOK(q)'
    BY <1>1, <2>1, <2>2 DEF TxOK
  <2>7. OneWriter'
    BY <1>1, <2>2 DEF MayWrite, OneWriter
  <2>8. Seen(p)' = w
    BY <2>3 DEF Seen
  <2>9. IsDb(db') /\ Closed(db') /\ Raises(db, db')
    BY <2>1, RaisesItself DEF GraphInv
  <2>10. tx' = [q \in Process |-> tx'[q]]
    BY <1>1, <2>1
  <2> QED
    BY <1>3, <2>2, <2>3, <2>5, <2>6, <2>7, <2>8, <2>9, <2>10
<1> QED
  BY <1>2, <1>3

\* A SELECT changes the view of its own transaction only.
LEMMA SelectEffect ==
    ASSUME GraphInv, NEW p \in Process, Select(p), db' = db
    PROVE  /\ tx' = [q \in Process |-> tx'[q]]
           /\ OneWriter'
           /\ \A q \in Process : TxOK(q)'
           /\ \A q \in Process \ {p} : tx'[q] = tx[q]
           /\ tx[p].mode = "begun" => tx'[p].mode = "read"
           /\ tx[p].mode # "begun" => tx'[p] = tx[p]
           /\ tx[p].mode \in {"begun", "read", "write"} => tx'[p].view = Seen(p)
           /\ Seen(p)' = Seen(p)
<1>1. tx = [q \in Process |-> tx[q]] /\ (\A q \in Process : TxOK(q)) /\ OneWriter /\ IsDb(db)
  BY DEF GraphInv
<1>2. CASE tx[p].mode = "begun"
  <2>1. tx' = [tx EXCEPT ![p] = [mode |-> "read", view |-> db, stale |-> FALSE]]
    BY <1>2 DEF Select
  <2>2. tx'[p] = [mode |-> "read", view |-> db, stale |-> FALSE] /\ \A q \in Process \ {p} : tx'[q] = tx[q]
    BY <1>1, <2>1
  <2>3. TxOK(p)' /\ Seen(p)' = db /\ Seen(p) = db
    BY <1>1, <1>2, <2>2 DEF TxOK, Seen
  <2>4. \A q \in Process \ {p} : TxOK(q)'
    BY <1>1, <2>2 DEF TxOK
  <2>5. OneWriter'
    BY <1>1, <2>2 DEF OneWriter
  <2>6. tx' = [q \in Process |-> tx'[q]]
    BY <1>1, <2>1
  <2> QED
    BY <1>2, <2>2, <2>3, <2>4, <2>5, <2>6
<1>3. CASE tx[p].mode # "begun"
  <2>1. tx' = tx
    BY <1>3 DEF Select
  <2>2. \A q \in Process : TxOK(q)'
    BY <1>1, <2>1 DEF TxOK
  <2>3. OneWriter' /\ Seen(p)' = Seen(p)
    BY <1>1, <2>1 DEF OneWriter, Seen
  <2> QED
    BY <1>1, <1>3, <2>1, <2>2, <2>3 DEF Seen
<1> QED
  BY <1>2, <1>3

\* A commit makes the view of the writer the database.
LEMMA CommitEffect ==
    ASSUME GraphInv, NEW p \in Process, EndBatch(p)
    PROVE  /\ IsDb(db') /\ Closed(db') /\ Raises(db, db')
           /\ tx' = [q \in Process |-> tx'[q]]
           /\ OneWriter'
           /\ \A q \in Process : TxOK(q)'
           /\ \A q \in Process \ {p} : tx'[q].mode = tx[q].mode /\ tx'[q].view = tx[q].view
           /\ tx'[p] = Autocommit
<1>1. tx = [q \in Process |-> tx[q]] /\ (\A q \in Process : TxOK(q)) /\ OneWriter /\ IsDb(db) /\ Closed(db)
  BY DEF GraphInv
<1>2. IsDb(Empty)
  BY DEF Empty, IsDb
<1>3. CASE tx[p].mode = "write"
  <2>1. db' = tx[p].view /\ tx' = [Outdate(tx, p, tx[p].view) EXCEPT ![p] = Autocommit]
    BY <1>3 DEF EndBatch
  <2>2. tx'[p] = Autocommit
    BY <2>1 DEF Outdate
  <2>3. \A q \in Process \ {p} : tx'[q] = IF tx[q].mode = "read" /\ db' # db
                                         THEN [tx[q] EXCEPT !.stale = TRUE] ELSE tx[q]
    BY <2>1 DEF Outdate
  <2>4. \A q \in Process \ {p} :
           /\ tx'[q].mode = tx[q].mode /\ tx'[q].view = tx[q].view
           /\ tx'[q] = [mode |-> tx'[q].mode, view |-> tx'[q].view, stale |-> tx'[q].stale]
           /\ tx'[q].stale \in BOOLEAN
           /\ tx[q].mode = "read" /\ ~tx'[q].stale => tx[q].view = db'
           /\ tx[q].mode # "write"
    BY <1>1, <1>3, <2>3 DEF TxOK, OneWriter
  <2>5. \A q \in Process \ {p} : TxOK(q)'
    BY <1>1, <2>4 DEF TxOK
  <2>6. TxOK(p)'
    BY <1>2, <2>2 DEF TxOK, Autocommit, IsDb
  <2>7. OneWriter'
    BY <2>2, <2>4 DEF OneWriter, Autocommit
  <2>8. IsDb(db') /\ Closed(db') /\ Raises(db, db')
    BY <1>1, <1>3, <2>1 DEF TxOK, Beyond
  <2>9. tx' = [q \in Process |-> tx'[q]]
    BY <2>1 DEF Outdate
  <2> QED
    BY <2>2, <2>4, <2>5, <2>6, <2>7, <2>8, <2>9
<1>4. CASE tx[p].mode # "write"
  <2>1. db' = db /\ tx' = [tx EXCEPT ![p] = Autocommit]
    BY <1>4 DEF EndBatch
  <2>2. tx'[p] = Autocommit /\ \A q \in Process \ {p} : tx'[q] = tx[q]
    BY <1>1, <2>1
  <2>3. TxOK(p)'
    BY <1>2, <2>2 DEF TxOK, Autocommit, IsDb
  <2>4. \A q \in Process \ {p} : TxOK(q)'
    BY <1>1, <2>1, <2>2 DEF TxOK
  <2>5. OneWriter'
    BY <1>1, <2>2 DEF OneWriter, Autocommit
  <2>6. tx' = [q \in Process |-> tx'[q]]
    BY <1>1, <2>1
  <2> QED
    BY <1>1, <2>1, <2>2, <2>3, <2>4, <2>5, <2>6, RaisesItself
<1> QED
  BY <1>3, <1>4

\* What remains to be shown of a step of one process.
LEMMA StepOfOne ==
    ASSUME GraphInv, NEW p \in Process, IsDb(db'), Closed(db'), Raises(db, db'), now' \in Clock,
           tx' = [q \in Process |-> tx'[q]], proc' = [q \in Process |-> proc'[q]], OneWriter',
           \A q \in Process : TxOK(q)',
           \A q \in Process \ {p} : /\ proc'[q] = proc[q]
                                   /\ tx'[q].mode = tx[q].mode /\ tx'[q].view = tx[q].view,
           ProcOK(p)'
    PROVE  GraphInv'
<1>1. \A q \in Process : ProcOK(q)'
  BY ProcKept
<1>2. IsDb(db)' /\ Closed(db)'
  BY DEF IsDb, Closed, Named
<1> QED
  BY <1>1, <1>2 DEF GraphInv

\* The same, when neither the database nor a transaction changes.
LEMMA StepOfProc ==
    ASSUME GraphInv, NEW p \in Process, db' = db, tx' = tx, now' = now,
           proc' = [q \in Process |-> proc'[q]], \A q \in Process \ {p} : proc'[q] = proc[q],
           ProcOK(p)'
    PROVE  GraphInv'
<1>2. tx' = [q \in Process |-> tx'[q]]
  BY DEF GraphInv
<1>3. OneWriter' /\ \A q \in Process : TxOK(q)'
  BY DEF GraphInv, OneWriter, TxOK
<1>4. IsDb(db') /\ Closed(db') /\ Raises(db, db') /\ now' \in Clock
  BY RaisesItself DEF GraphInv
<1> QED
  BY <1>2, <1>3, <1>4, StepOfOne

----------------------------------------------------------------------------
(* The actions. *)

LEMMA IdleIsOK ==
    ASSUME NEW p \in Process, proc'[p] = Idle, tx'[p].mode = "auto"
    PROVE  ProcOK(p)'
  BY DEF ProcOK, Idle, Null

LEMMA NextShape ==
    ASSUME NEW todo
    PROVE  [Idle EXCEPT !.at = "next", !.todo = todo]
             = [at |-> "next", todo |-> todo, t |-> <<>>, from |-> Null, old |-> "absent"]
<1>1. [Idle EXCEPT !.at = "next"] = [at |-> "next", todo |-> <<>>, t |-> <<>>, from |-> Null, old |-> "absent"]
  BY DEF Idle
<1>2. [[at |-> "next", todo |-> <<>>, t |-> <<>>, from |-> Null, old |-> "absent"] EXCEPT !.todo = todo]
        = [at |-> "next", todo |-> todo, t |-> <<>>, from |-> Null, old |-> "absent"]
  OBVIOUS
<1> QED
  BY <1>1, <1>2

LEMMA AdvanceEffect ==
    ASSUME GraphInv, NEW p \in Process, Advance(p) \/ Fail(p), tx'[p].mode = "auto" <=> p \in Client
    PROVE  ProcOK(p)' /\ proc' = [q \in Process |-> proc'[q]] /\ \A q \in Process \ {p} : proc'[q] = proc[q]
<1>1. \E todo : proc' = [proc EXCEPT ![p] = IF p \in Client THEN Idle
                                           ELSE [at |-> "next", todo |-> todo, t |-> <<>>, from |-> Null, old |-> "absent"]]
  BY NextShape DEF Advance, Fail
<1>2. PICK todo : proc' = [proc EXCEPT ![p] = IF p \in Client THEN Idle
                                           ELSE [at |-> "next", todo |-> todo, t |-> <<>>, from |-> Null, old |-> "absent"]]
  BY <1>1
<1>3. \A q \in Process \ {p} : proc'[q] = proc[q]
  BY <1>2 DEF GraphInv
<1>4. proc' = [q \in Process |-> proc'[q]]
  BY <1>2 DEF GraphInv
<1>5. proc'[p] = IF p \in Client THEN Idle
                 ELSE [at |-> "next", todo |-> todo, t |-> <<>>, from |-> Null, old |-> "absent"]
  BY <1>2 DEF GraphInv
<1>6. ProcOK(p)'
  BY <1>5, GraphAssumption DEF ProcOK, Idle, Null
<1> QED
  BY <1>3, <1>4, <1>6

\* A process that changes only what it is doing itself.
LEMMA ProcStep ==
    ASSUME GraphInv, NEW p \in Process, db' = db, now' = now, tx' = tx,
           proc' = [q \in Process |-> proc'[q]], \A q \in Process \ {p} : proc'[q] = proc[q],
           proc'[p] = [at |-> proc'[p].at, todo |-> proc'[p].todo, t |-> proc'[p].t,
                       from |-> proc'[p].from, old |-> proc'[p].old],
           proc'[p].from \in Nat,
           p \in Client => proc'[p].at \in {"idle", "names", "expire", "renew"},
           p \in Batch => proc'[p].at \in {"next", "names"} /\ tx[p].mode # "auto",
           proc'[p].at \in {"names", "expire", "renew"} => proc'[p].t \in Triple
    PROVE  GraphInv'
<1>1. p \in Client => tx[p].mode = "auto"
  BY DEF GraphInv, ProcOK
<1>2. proc'[p].at \notin {"entity", "object", "check", "insert"}
  BY DEF Process
<1>3. ProcOK(p)'
  BY <1>1, <1>2, GraphAssumption DEF ProcOK, Process
<1> QED
  BY <1>3, StepOfProc

LEMMA BeginKeeps == ASSUME GraphInv, NEW p \in Process, Begin(p) PROVE GraphInv'
<1>1. TxOK(p) /\ ProcOK(p) /\ p \in Batch /\ p \notin Client /\ proc[p].at = "idle"
  BY GraphAssumption DEF GraphInv, Begin, At
<1>2. tx' = [tx EXCEPT ![p].mode = "begun"] /\ db' = db /\ now' = now
  BY DEF Begin
<1>3. tx'[p] = [mode |-> "begun", view |-> tx[p].view, stale |-> tx[p].stale]
      /\ \A q \in Process \ {p} : tx'[q] = tx[q]
  BY <1>1, <1>2 DEF GraphInv, TxOK
<1>4. \E todo : proc' = [proc EXCEPT ![p].at = "next", ![p].todo = todo]
  BY DEF Begin
<1>5. PICK todo : proc' = [proc EXCEPT ![p].at = "next", ![p].todo = todo]
  BY <1>4
<1>6. proc'[p] = [at |-> "next", todo |-> todo, t |-> proc[p].t, from |-> proc[p].from, old |-> proc[p].old]
      /\ \A q \in Process \ {p} : proc'[q] = proc[q]
  BY <1>1, <1>5 DEF GraphInv, ProcOK
<1>7. ProcOK(p)'
  BY <1>1, <1>3, <1>6 DEF ProcOK
<1>8. TxOK(p)'
  BY <1>1, <1>3 DEF TxOK, IsDb
<1>9. \A q \in Process \ {p} : TxOK(q)'
  BY <1>2, <1>3 DEF GraphInv, TxOK
<1>10. OneWriter'
  BY <1>3 DEF GraphInv, OneWriter
<1>11. tx' = [q \in Process |-> tx'[q]] /\ proc' = [q \in Process |-> proc'[q]]
  BY <1>2, <1>5 DEF GraphInv
<1> QED
  BY <1>2, <1>3, <1>6, <1>7, <1>8, <1>9, <1>10, <1>11, RaisesItself, StepOfOne DEF GraphInv

LEMMA NextRecordKeeps == ASSUME GraphInv, NEW p \in Process, NextRecord(p) PROVE GraphInv'
<1>1. ProcOK(p) /\ proc[p].at = "next" /\ p \notin Client /\ p \in Batch
  BY DEF GraphInv, NextRecord, At, ProcOK, Process
<1>2. proc' = [proc EXCEPT ![p].todo = Tail(@)] /\ db' = db /\ tx' = tx /\ now' = now
  BY DEF NextRecord
<1>3. proc'[p] = [at |-> "next", todo |-> Tail(proc[p].todo), t |-> proc[p].t,
                  from |-> proc[p].from, old |-> proc[p].old]
  BY <1>1, <1>2 DEF ProcOK, GraphInv
<1>4. proc' = [q \in Process |-> proc'[q]] /\ \A q \in Process \ {p} : proc'[q] = proc[q]
  BY <1>2 DEF GraphInv
<1>5. tx[p].mode # "auto" /\ proc[p].from \in Nat
  BY <1>1 DEF ProcOK
<1> QED
  BY <1>1, <1>2, <1>3, <1>4, <1>5, ProcStep

LEMMA EntityReadKeeps == ASSUME GraphInv, NEW p \in Process, EntityRead(p) PROVE GraphInv'
<1>1. ProcOK(p) /\ TxOK(p) /\ proc[p].at = "next" /\ p \notin Client /\ p \in Batch
  BY DEF GraphInv, EntityRead, At, ProcOK, Process
<1>2. /\ proc' = [proc EXCEPT ![p].at = "entity", ![p].old = Seen(p).types[Head(proc[p].todo)[1].name]]
      /\ db' = db /\ now' = now /\ Select(p)
  BY DEF EntityRead
<1>3. proc'[p] = [at |-> "entity", todo |-> proc[p].todo, t |-> proc[p].t, from |-> proc[p].from,
                  old |-> Seen(p).types[Head(proc[p].todo)[1].name]]
      /\ \A q \in Process \ {p} : proc'[q] = proc[q]
  BY <1>1, <1>2 DEF GraphInv, ProcOK
<1>4. tx[p].mode \in {"begun", "read", "write"}
  BY <1>1 DEF ProcOK, TxOK
<1>7. tx'[p].mode \in {"read", "write"} /\ tx'[p].view = Seen(p)
  BY <1>2, <1>4, SelectEffect
<1>5. ProcOK(p)'
  BY <1>1, <1>3, <1>7 DEF ProcOK
<1>6. proc' = [q \in Process |-> proc'[q]]
  BY <1>2 DEF GraphInv
<1> QED
  BY <1>2, <1>3, <1>5, <1>6, SelectEffect, RaisesItself, StepOfOne DEF GraphInv

LEMMA EntityWriteKeeps ==
    ASSUME GraphInv, NEW p \in Process, EntityWrite(p)
    PROVE  GraphInv' /\ Raises(db, db')
<1>1. ProcOK(p) /\ TxOK(p) /\ proc[p].at = "entity" /\ p \notin Client /\ p \in Batch
  BY DEF GraphInv, EntityWrite, At, ProcOK, Process
<1> DEFINE e == Head(proc[p].todo)[1]
           w == [Seen(p) EXCEPT !.types[e.name] = ResolvedType(proc[p].old, e.type)]
<1>2. Statement(p, w) /\ Advance(p) /\ now' = now
  BY DEF EntityWrite
<1>3. tx[p].mode \in {"read", "write"} /\ proc[p].old = Seen(p).types[e.name]
  BY <1>1 DEF ProcOK, Seen
<1>4. IsDb(Seen(p)) /\ Closed(Seen(p))
  BY <1>2, SeenIsDb DEF Statement
<1>5. w = [Seen(p) EXCEPT !.types[e.name] = ResolvedType(Seen(p).types[e.name], e.type)]
  BY <1>3
<1> HIDE DEF w, e
<1>6. IsDb(w) /\ Closed(w) /\ Beyond(Seen(p), w)
  BY <1>4, <1>5, EntityRaised
<1>7. Raises(Seen(p), w)
  BY <1>6 DEF Beyond
<1>8. tx'[p].mode = "write" /\ Raises(db, db')
  BY <1>2, <1>3, <1>6, <1>7, StatementEffect
<1> QED
  BY <1>1, <1>2, <1>6, <1>7, <1>8, StatementEffect, AdvanceEffect, StepOfOne DEF GraphInv

LEMMA RefusedKeeps == ASSUME GraphInv, NEW p \in Process, Refused(p) PROVE GraphInv'
<1>1. ProcOK(p) /\ proc[p].at \in {"entity", "names", "object", "insert"}
  BY DEF GraphInv, Refused
<1>2. tx[p].mode = "auto" <=> p \in Client
  BY <1>1, GraphAssumption DEF ProcOK, Process
<1>3. Fail(p) /\ db' = db /\ tx' = tx /\ now' = now
  BY DEF Refused
<1>4. ProcOK(p)' /\ proc' = [q \in Process |-> proc'[q]] /\ \A q \in Process \ {p} : proc'[q] = proc[q]
  BY <1>2, <1>3, AdvanceEffect
<1> QED
  BY <1>3, <1>4, StepOfProc

LEMMA EndBatchKeeps ==
    ASSUME GraphInv, NEW p \in Process, EndBatch(p)
    PROVE  GraphInv' /\ Raises(db, db')
<1>1. proc' = [proc EXCEPT ![p] = Idle] /\ now' = now
  BY DEF EndBatch
<1>2. proc'[p] = Idle /\ (\A q \in Process \ {p} : proc'[q] = proc[q]) /\ proc' = [q \in Process |-> proc'[q]]
  BY <1>1 DEF GraphInv
<1>3. tx'[p].mode = "auto"
  BY CommitEffect DEF Autocommit
<1>4. p \notin Batch \/ p \notin Client
  BY GraphAssumption
<1>5. ProcOK(p)'
  BY <1>2, <1>3, <1>4, IdleIsOK
<1> QED
  BY <1>1, <1>2, <1>5, CommitEffect, StepOfOne DEF GraphInv

\* What the first statements of addTriple come to.
LEMMA AddNameIs ==
    ASSUME GraphInv, NEW p \in Process, AddSubject(p) \/ AddObject(p)
    PROVE  /\ ProcOK(p) /\ proc[p].at \in {"names", "object"} /\ proc[p].t \in Triple
           /\ UNCHANGED <<now, jobs, raced, ahead, asserted, torn>>
           /\ \E w, then :
                 /\ Statement(p, w) /\ IsDb(Seen(p)) /\ Closed(Seen(p))
                 /\ IsDb(w) /\ Closed(w) /\ Beyond(Seen(p), w) /\ w.rows = Seen(p).rows
                 /\ \A n \in Names : w.types[n] = Seen(p).types[n] \/ w.types[n] = "unknown"
                 /\ then \in {"object", "check"} /\ proc' = [proc EXCEPT ![p].at = then]
                 /\ then = "object" => w.types[proc[p].t[1]] # "absent"
                 /\ then = "check" => Named(w, proc[p].t)
<1>1. ProcOK(p) /\ proc[p].at \in {"names", "object"} /\ proc[p].t \in Triple
  BY DEF GraphInv, AddSubject, AddObject, At, ProcOK
<1>2. proc[p].t[1] \in Names /\ proc[p].t[3] \in Names
  BY <1>1, GraphAssumption
<1> DEFINE Good(w, then) ==
             /\ Statement(p, w) /\ IsDb(Seen(p)) /\ Closed(Seen(p))
             /\ IsDb(w) /\ Closed(w) /\ Beyond(Seen(p), w) /\ w.rows = Seen(p).rows
             /\ \A n \in Names : w.types[n] = Seen(p).types[n] \/ w.types[n] = "unknown"
             /\ then \in {"object", "check"} /\ proc' = [proc EXCEPT ![p].at = then]
             /\ then = "object" => w.types[proc[p].t[1]] # "absent"
             /\ then = "check" => Named(w, proc[p].t)
<1>3. ASSUME NEW n \in Names, NEW then, InsertName(p, n, then)
      PROVE  /\ UNCHANGED <<now, jobs, raced, ahead, asserted, torn>>
             /\ \E w : /\ Statement(p, w) /\ IsDb(Seen(p)) /\ Closed(Seen(p))
                       /\ IsDb(w) /\ Closed(w) /\ Beyond(Seen(p), w) /\ w.rows = Seen(p).rows
                       /\ w.types[n] # "absent" /\ proc' = [proc EXCEPT ![p].at = then]
                       /\ \A m \in Names : w.types[m] = Seen(p).types[m] \/ w.types[m] = "unknown"
  <2>1. PICK w : w = WithName(Seen(p), n)
    OBVIOUS
  <2>2. Statement(p, w) /\ proc' = [proc EXCEPT ![p].at = then]
        /\ UNCHANGED <<now, jobs, raced, ahead, asserted, torn>>
    BY <1>3, <2>1 DEF InsertName
  <2>3. IsDb(Seen(p)) /\ Closed(Seen(p))
    BY <2>2, SeenIsDb DEF Statement
  <2>4. /\ IsDb(w) /\ Closed(w) /\ Beyond(Seen(p), w) /\ w.rows = Seen(p).rows /\ w.types[n] # "absent"
        /\ \A m \in Names : w.types[m] = Seen(p).types[m] \/ w.types[m] = "unknown"
    BY <2>1, <2>3, NameAdded
  <2> QED
    BY <2>2, <2>3, <2>4
<1>4. CASE AddSubject(p)
  <2>1. InsertName(p, proc[p].t[1], "object")
    BY <1>4 DEF AddSubject
  <2>2. \E w : Good(w, "object")
    BY <1>2, <1>3, <2>1
  <2> QED
    BY <1>1, <1>2, <1>3, <2>1, <2>2
<1>5. CASE AddObject(p)
  <2>1. InsertName(p, proc[p].t[3], "check") /\ proc[p].at = "object"
    BY <1>5 DEF AddObject, At
  <2>2. Seen(p).types[proc[p].t[1]] # "absent"
    BY <1>1, <2>1 DEF ProcOK
  <2>3. \E w : Good(w, "check")
    <3>1. \A w : Beyond(Seen(p), w) => w.types[proc[p].t[1]] # "absent"
      BY <1>2, <2>2, RaisesOne DEF Beyond
    <3> QED
      BY <1>2, <1>3, <2>1, <3>1 DEF Named
  <2> QED
    BY <1>1, <1>2, <1>3, <2>1, <2>3
<1> QED
  BY <1>4, <1>5

LEMMA AddNameKeeps ==
    ASSUME GraphInv, NEW p \in Process, AddSubject(p) \/ AddObject(p)
    PROVE  GraphInv' /\ Raises(db, db')
<1>1. ProcOK(p) /\ proc[p].at \in {"names", "object"} /\ proc[p].t \in Triple /\ now' = now
  BY AddNameIs
<1>2. PICK w, then :
         /\ Statement(p, w) /\ IsDb(w) /\ Closed(w) /\ Beyond(Seen(p), w)
         /\ then \in {"object", "check"} /\ proc' = [proc EXCEPT ![p].at = then]
         /\ then = "object" => w.types[proc[p].t[1]] # "absent"
         /\ then = "check" => Named(w, proc[p].t)
  BY AddNameIs
<1>5. Raises(Seen(p), w)
  BY <1>2 DEF Beyond
<1>6. proc'[p] = [at |-> then, todo |-> proc[p].todo, t |-> proc[p].t, from |-> proc[p].from, old |-> proc[p].old]
      /\ (\A q \in Process \ {p} : proc'[q] = proc[q]) /\ proc' = [q \in Process |-> proc'[q]]
  BY <1>1, <1>2 DEF GraphInv, ProcOK
<1>7. Seen(p)' = w /\ tx'[p].mode = IF tx[p].mode = "auto" THEN "auto" ELSE "write"
  BY <1>2, <1>5, StatementEffect
<1>8. ProcOK(p)'
  <2>1. proc'[p].at \in {"check", "insert"} => Named(Seen(p), proc[p].t)'
    BY <1>2, <1>6, <1>7 DEF Named
  <2>2. proc'[p].at = "object" => Seen(p)'.types[proc'[p].t[1]] # "absent"
    BY <1>2, <1>6, <1>7
  <2> QED
    BY <1>1, <1>2, <1>6, <1>7, <2>1, <2>2 DEF ProcOK
<1> QED
  BY <1>1, <1>2, <1>5, <1>6, <1>8, StatementEffect, StepOfOne DEF GraphInv

LEMMA AddCheckKeeps == ASSUME GraphInv, NEW p \in Process, AddCheck(p) PROVE GraphInv'
<1>1. ProcOK(p) /\ proc[p].at = "check" /\ Select(p) /\ db' = db /\ now' = now
  BY DEF GraphInv, AddCheck, At
<1>2. tx[p].mode # "begun"
  BY <1>1 DEF ProcOK, Process
<1>3. tx' = tx
  BY <1>1, <1>2 DEF Select
<1>4. tx[p].mode = "auto" <=> p \in Client
  BY <1>1, GraphAssumption DEF ProcOK, Process
<1>5. CASE Active(Seen(p).rows, proc[p].t) # {}
  <2>1. Advance(p)
    BY <1>5 DEF AddCheck
  <2>2. ProcOK(p)' /\ proc' = [q \in Process |-> proc'[q]] /\ \A q \in Process \ {p} : proc'[q] = proc[q]
    BY <1>3, <1>4, <2>1, AdvanceEffect
  <2> QED
    BY <1>1, <1>3, <2>2, StepOfProc
<1>6. CASE Active(Seen(p).rows, proc[p].t) = {}
  <2>1. proc' = [proc EXCEPT ![p].at = "insert"]
    BY <1>6 DEF AddCheck
  <2>2. proc'[p] = [at |-> "insert", todo |-> proc[p].todo, t |-> proc[p].t, from |-> proc[p].from, old |-> proc[p].old]
        /\ (\A q \in Process \ {p} : proc'[q] = proc[q]) /\ proc' = [q \in Process |-> proc'[q]]
    BY <1>1, <2>1 DEF GraphInv, ProcOK
  <2>3. Named(Seen(p), proc[p].t)'
    BY <1>1, <1>3, <2>2 DEF Named, ProcOK, Seen
  <2>4. ProcOK(p)'
    BY <1>1, <1>3, <2>2, <2>3 DEF ProcOK
  <2> QED
    BY <1>1, <1>3, <2>2, <2>4, StepOfProc
<1> QED
  BY <1>5, <1>6

LEMMA InsertedRow ==
    ASSUME GraphInv, NEW p \in Process, proc[p].at \in {"insert", "renew"}
    PROVE  /\ Inserted(p) \in RowType /\ Inserted(p).t = proc[p].t /\ Inserted(p).to = Null
           /\ Inserted(p).from = proc[p].from
           /\ Inserted(p).by = IF p \in Batch THEN "batch" ELSE IF proc[p].at = "renew" THEN "upsert" ELSE "add"
<1>1. proc[p].t \in Triple /\ proc[p].from \in Nat /\ now \in Nat
  BY GraphAssumption DEF GraphInv, ProcOK
<1> QED
  BY <1>1 DEF Inserted, Row, RowType, Writers, Null, At

LEMMA AddInsertKeeps ==
    ASSUME GraphInv, NEW p \in Process, AddInsert(p)
    PROVE  GraphInv' /\ Raises(db, db')
<1>1. ProcOK(p) /\ proc[p].at = "insert" /\ now' = now
  BY DEF GraphInv, AddInsert, At
<1>2. tx[p].mode = "auto" <=> p \in Client
  BY <1>1, GraphAssumption DEF ProcOK, Process
<1>3. CASE Taken(p)
  <2>1. Fail(p) /\ db' = db /\ tx' = tx
    BY <1>3 DEF AddInsert
  <2>2. ProcOK(p)' /\ proc' = [q \in Process |-> proc'[q]] /\ \A q \in Process \ {p} : proc'[q] = proc[q]
    BY <1>2, <2>1, AdvanceEffect
  <2> QED
    BY <1>1, <2>1, <2>2, StepOfProc, RaisesItself
<1>4. CASE ~Taken(p)
  <2> DEFINE w == [Seen(p) EXCEPT !.rows = @ \cup {Inserted(p)}]
  <2>1. Statement(p, w) /\ Advance(p)
    BY <1>4 DEF AddInsert
  <2>2. IsDb(Seen(p)) /\ Closed(Seen(p)) /\ Named(Seen(p), proc[p].t)
    BY <1>1, <2>1, SeenIsDb DEF Statement, ProcOK
  <2>3. IsDb(w) /\ Closed(w) /\ Raises(Seen(p), w) /\ w.rows = Seen(p).rows \cup {Inserted(p)}
    BY <1>1, <2>2, InsertedRow, RowAdded
  <2>4. tx[p].mode # "auto" => Beyond(Seen(p), w)
    BY <1>1, <1>2, <2>3, InsertedRow DEF Beyond, Process
  <2> HIDE DEF w
  <2>5. tx'[p].mode = IF tx[p].mode = "auto" THEN "auto" ELSE "write"
    BY <2>1, <2>3, <2>4, StatementEffect
  <2>6. ProcOK(p)' /\ proc' = [q \in Process |-> proc'[q]] /\ \A q \in Process \ {p} : proc'[q] = proc[q]
    BY <1>2, <2>1, <2>5, AdvanceEffect
  <2> QED
    BY <1>1, <2>1, <2>3, <2>4, <2>6, StatementEffect, StepOfOne DEF GraphInv
<1> QED
  BY <1>3, <1>4

\* The command line sees the database itself.
LEMMA ClientSees ==
    ASSUME GraphInv, NEW p \in Process, p \in Client \/ proc[p].at \in {"expire", "renew"}
    PROVE  p \in Client /\ tx[p].mode = "auto" /\ Seen(p) = db
  BY GraphAssumption DEF GraphInv, ProcOK, Process, Seen

LEMMA UpsertExpireKeeps ==
    ASSUME GraphInv, NEW p \in Process, UpsertExpire(p)
    PROVE  GraphInv' /\ Raises(db, db')
<1>1. ProcOK(p) /\ proc[p].at = "expire" /\ now' = now /\ proc[p].from \in Nat /\ proc[p].t \in Triple
  BY DEF GraphInv, UpsertExpire, At, ProcOK
<1>2. p \in Client /\ tx[p].mode = "auto" /\ Seen(p) = db /\ IsDb(db) /\ Closed(db)
  BY <1>1, ClientSees DEF GraphInv
<1> DEFINE w == [db EXCEPT !.rows = Expired(@, proc[p].t, proc[p].from)]
<1>3. CASE Statement(p, w) /\ proc' = [proc EXCEPT ![p].at = "renew"]
  <2>1. IsDb(w) /\ Closed(w) /\ Raises(db, w)
    BY <1>1, <1>2, RowsExpired
  <2> HIDE DEF w
  <2>2. proc'[p] = [at |-> "renew", todo |-> proc[p].todo, t |-> proc[p].t, from |-> proc[p].from, old |-> proc[p].old]
        /\ (\A q \in Process \ {p} : proc'[q] = proc[q]) /\ proc' = [q \in Process |-> proc'[q]]
    BY <1>1, <1>3 DEF GraphInv, ProcOK
  <2>3. tx'[p].mode = "auto"
    BY <1>2, <1>3, <2>1, StatementEffect
  <2>4. ProcOK(p)'
    BY <1>1, <1>2, <2>2, <2>3, GraphAssumption DEF ProcOK
  <2> QED
    BY <1>1, <1>2, <1>3, <2>1, <2>2, <2>4, StatementEffect, StepOfOne DEF GraphInv
<1>4. CASE Fail(p) /\ db' = db /\ tx' = tx
  <2>1. ProcOK(p)' /\ proc' = [q \in Process |-> proc'[q]] /\ \A q \in Process \ {p} : proc'[q] = proc[q]
    BY <1>2, <1>4, AdvanceEffect
  <2> QED
    BY <1>1, <1>4, <2>1, StepOfProc, RaisesItself
<1> QED
  BY <1>3, <1>4 DEF UpsertExpire

LEMMA UpsertInsertKeeps ==
    ASSUME GraphInv, NEW p \in Process, UpsertInsert(p)
    PROVE  GraphInv' /\ Raises(db, db')
<1>1. ProcOK(p) /\ proc[p].at = "renew" /\ now' = now /\ proc' = [proc EXCEPT ![p] = Idle]
  BY DEF GraphInv, UpsertInsert, At
<1>2. p \in Client /\ p \notin Batch /\ tx[p].mode = "auto" /\ Seen(p) = db /\ IsDb(db) /\ Closed(db)
  BY <1>1, ClientSees, GraphAssumption DEF GraphInv
<1>3. proc'[p] = Idle /\ (\A q \in Process \ {p} : proc'[q] = proc[q]) /\ proc' = [q \in Process |-> proc'[q]]
  BY <1>1 DEF GraphInv
<1> DEFINE w == [db EXCEPT !.rows = @ \cup {Inserted(p)}]
<1>4. CASE Statement(p, w)
  <2>1. IsDb(w) /\ Closed(w) /\ Raises(db, w)
    BY <1>1, <1>2, InsertedRow, RowAdded
  <2> HIDE DEF w
  <2>2. tx'[p].mode = "auto"
    BY <1>2, <1>4, <2>1, StatementEffect
  <2>3. ProcOK(p)'
    BY <1>2, <1>3, <2>2, IdleIsOK
  <2> QED
    BY <1>1, <1>2, <1>3, <1>4, <2>1, <2>3, StatementEffect, StepOfOne DEF GraphInv
<1>5. CASE db' = db /\ tx' = tx
  <2>1. ProcOK(p)'
    BY <1>2, <1>3, <1>5, IdleIsOK
  <2> QED
    BY <1>1, <1>3, <1>5, <2>1, StepOfProc, RaisesItself
<1> QED
  BY <1>4, <1>5 DEF UpsertInsert

LEMMA InvalidateKeeps ==
    ASSUME GraphInv, NEW p \in Process, NEW t \in Triple, NEW ended \in Ends, Invalidate(p, t, ended)
    PROVE  GraphInv' /\ Raises(db, db')
<1> DEFINE when == IF ended = Null THEN Today(now) ELSE ended
           w == [db EXCEPT !.rows = Expired(@, t, when)]
<1>1. p \in Client /\ Statement(p, w) /\ proc' = proc /\ now' = now
  BY DEF Invalidate
<1>2. tx[p].mode = "auto" /\ Seen(p) = db /\ IsDb(db) /\ Closed(db) /\ ProcOK(p) /\ now \in Nat
  BY <1>1, ClientSees, GraphAssumption DEF GraphInv
<1>3. when \in Nat
  BY <1>2, GraphAssumption DEF Today
<1> HIDE DEF when
<1>4. IsDb(w) /\ Closed(w) /\ Raises(db, w)
  BY <1>2, <1>3, RowsExpired
<1> HIDE DEF w
<1>5. tx'[p].mode = tx[p].mode /\ tx'[p].view = tx[p].view /\ Raises(db, db')
  <2>1. tx' = Outdate(tx, p, w)
    BY <1>1, <1>2 DEF Statement
  <2>2. tx'[p] = tx[p]
    BY <2>1 DEF Outdate
  <2> QED
    BY <1>1, <1>2, <1>4, <2>2, StatementEffect
<1>6. ProcOK(p)'
  BY <1>1, <1>5, ProcKept
<1> QED
  BY <1>1, <1>2, <1>4, <1>5, <1>6, StatementEffect, StepOfOne DEF GraphInv

LEMMA StartUpsertKeeps ==
    ASSUME GraphInv, NEW p \in Process, NEW t \in Triple, StartUpsert(p, t)
    PROVE  GraphInv'
<1>1. p \in Client /\ p \notin Batch /\ db' = db /\ tx' = tx /\ now' = now /\ now \in Nat
  BY GraphAssumption DEF StartUpsert, GraphInv
<1>2. proc' = [proc EXCEPT ![p] = [Idle EXCEPT !.at = "expire", !.t = t, !.from = now]]
  BY DEF StartUpsert
<1>3. (\A q \in Process \ {p} : proc'[q] = proc[q]) /\ proc' = [q \in Process |-> proc'[q]]
      /\ proc'[p] = [Idle EXCEPT !.at = "expire", !.t = t, !.from = now]
  BY <1>2 DEF GraphInv
<1>4. proc'[p] = [at |-> "expire", todo |-> <<>>, t |-> t, from |-> now, old |-> "absent"]
  BY <1>3 DEF Idle
<1> QED
  BY <1>1, <1>3, <1>4, ProcStep

LEMMA StartAddKeeps ==
    ASSUME GraphInv, NEW p \in Process, NEW t \in Triple, NEW from \in Froms, StartAdd(p, t, from)
    PROVE  GraphInv'
<1>1. db' = db /\ tx' = tx /\ now' = now /\ from \in Nat
  BY GraphAssumption DEF StartAdd
<1>2. CASE p \in Client /\ proc' = [proc EXCEPT ![p] = [Idle EXCEPT !.at = "names", !.t = t, !.from = from]]
  <2>1. (\A q \in Process \ {p} : proc'[q] = proc[q]) /\ proc' = [q \in Process |-> proc'[q]]
        /\ proc'[p] = [Idle EXCEPT !.at = "names", !.t = t, !.from = from]
    BY <1>2 DEF GraphInv
  <2>2. proc'[p] = [at |-> "names", todo |-> <<>>, t |-> t, from |-> from, old |-> "absent"]
    BY <2>1 DEF Idle
  <2> QED
    BY <1>1, <1>2, <2>1, <2>2, GraphAssumption, ProcStep
<1>3. CASE proc[p].at = "next" /\ proc' = [proc EXCEPT ![p].at = "names", ![p].t = t]
  <2>1. ProcOK(p) /\ p \notin Client /\ tx[p].mode # "auto" /\ proc[p].from \in Nat
    BY <1>3 DEF GraphInv, ProcOK, Process
  <2>2. proc'[p] = [at |-> "names", todo |-> proc[p].todo, t |-> t, from |-> proc[p].from, old |-> proc[p].old]
        /\ (\A q \in Process \ {p} : proc'[q] = proc[q]) /\ proc' = [q \in Process |-> proc'[q]]
    BY <1>3, <2>1 DEF GraphInv, ProcOK
  <2> QED
    BY <1>1, <2>1, <2>2, ProcStep
<1> QED
  BY <1>2, <1>3 DEF StartAdd, At

LEMMA KillKeeps == ASSUME GraphInv, NEW p \in Process, Kill(p) PROVE GraphInv'
<1>1. proc' = [proc EXCEPT ![p] = Idle] /\ tx' = [tx EXCEPT ![p] = Autocommit] /\ db' = db /\ now' = now
  BY DEF Kill
<1>2. /\ proc'[p] = Idle /\ tx'[p] = Autocommit
      /\ \A q \in Process \ {p} : proc'[q] = proc[q] /\ tx'[q] = tx[q]
      /\ proc' = [q \in Process |-> proc'[q]] /\ tx' = [q \in Process |-> tx'[q]]
  BY <1>1 DEF GraphInv
<1>3. ProcOK(p)'
  BY <1>2, IdleIsOK DEF Autocommit
<1>4. TxOK(p)'
  BY <1>2 DEF TxOK, Autocommit, Empty, IsDb
<1>5. \A q \in Process \ {p} : TxOK(q)'
  BY <1>1, <1>2 DEF GraphInv, TxOK
<1>6. OneWriter'
  BY <1>2 DEF GraphInv, OneWriter, Autocommit
<1> QED
  BY <1>1, <1>2, <1>3, <1>4, <1>5, <1>6, RaisesItself, StepOfOne DEF GraphInv

LEMMA TickKeeps == ASSUME GraphInv, NEW t \in Clock, Tick(t) PROVE GraphInv'
<1>1. now' \in Clock /\ db' = db /\ tx' = tx /\ proc' = proc
  BY DEF Tick
<1>2. \A q \in Process : ProcOK(q)'
  BY <1>1, ProcKept, RaisesItself
<1> QED
  BY <1>1, <1>2 DEF GraphInv, OneWriter, TxOK

LEMMA GraphInit == Init => GraphInv
<1> SUFFICES ASSUME Init PROVE GraphInv
  OBVIOUS
<1>1. IsDb(Empty) /\ Closed(Empty)
  BY DEF IsDb, Closed, Empty
<1>2. \A p \in Process : tx[p] = Autocommit /\ proc[p] = Idle
  BY DEF Init
<1>3. \A p \in Process : TxOK(p)
  <2>1. Autocommit.mode = "auto" /\ Autocommit.view = Empty /\ Autocommit.stale = FALSE
        /\ Autocommit = [mode |-> Autocommit.mode, view |-> Autocommit.view, stale |-> Autocommit.stale]
    BY DEF Autocommit
  <2> QED
    BY <1>1, <1>2, <2>1 DEF TxOK
<1>4. \A p \in Process : ProcOK(p)
  BY <1>2 DEF ProcOK, Idle, Autocommit, Null
<1>5. OneWriter
  BY <1>2 DEF OneWriter, Autocommit
<1> QED
  BY <1>1, <1>3, <1>4, <1>5 DEF GraphInv, Init

LEMMA GraphStep == GraphInv /\ [Next]_vars => GraphInv' /\ Raises(db, db')
<1> SUFFICES ASSUME GraphInv, [Next]_vars PROVE GraphInv' /\ Raises(db, db')
  OBVIOUS
<1>1. ASSUME NEW p \in Process, NextRecord(p) \/ Begin(p) \/ EntityRead(p) \/ Refused(p) \/ AddCheck(p) \/ Kill(p)
      PROVE  GraphInv' /\ Raises(db, db')
  <2>1. db' = db
    BY <1>1 DEF NextRecord, Begin, EntityRead, Refused, AddCheck, Kill
  <2> QED
    BY <1>1, <2>1, RaisesItself, NextRecordKeeps, BeginKeeps, EntityReadKeeps, RefusedKeeps, AddCheckKeeps, KillKeeps
<1>2. ASSUME NEW p \in Process, NEW t \in Triple, StartUpsert(p, t) \/ \E from \in Froms : StartAdd(p, t, from)
      PROVE  GraphInv' /\ Raises(db, db')
  <2>1. db' = db
    BY <1>2 DEF StartUpsert, StartAdd
  <2> QED
    BY <1>2, <2>1, RaisesItself, StartUpsertKeeps, StartAddKeeps
<1>3. ASSUME NEW t \in Clock, Tick(t) PROVE GraphInv' /\ Raises(db, db')
  BY <1>3, TickKeeps, RaisesItself DEF Tick
<1>4. CASE UNCHANGED vars
  <2>1. \A q \in Process : ProcOK(q)'
    BY <1>4, ProcKept, RaisesItself DEF vars
  <2> QED
    BY <1>4, <2>1, RaisesItself DEF vars, GraphInv, OneWriter, TxOK
<1> QED
  BY <1>1, <1>2, <1>3, <1>4, EntityWriteKeeps, EndBatchKeeps, AddNameKeeps, AddInsertKeeps,
     UpsertExpireKeeps, UpsertInsertKeeps, InvalidateKeeps DEF Next

LEMMA GraphInvHolds == Spec => []GraphInv
  BY GraphInit, GraphStep, PTL DEF Spec

----------------------------------------------------------------------------
(* Theorems. *)

\* ingestRecord and addTriple, by any number of processes, through kills, busy
\* databases and stale snapshots, leave no fact without its entities, which
\* the JOINs of the queries would drop.
THEOREM GraphJoinLosesNothing == Spec => []JoinLosesNothing
<1>1. GraphInv => JoinLosesNothing
  BY GraphAssumption DEF GraphInv, Closed, JoinLosesNothing, Named, Present, IsDb, RowType
<1> QED
  BY <1>1, GraphInvHolds, PTL

\* However transactions interleave, addEntity makes the type of no entity less
\* specific: a snapshot that has become stale does not get to write.
THEOREM GraphTypeNeverDegrades == Spec => TypeNeverDegrades
<1>1. GraphInv /\ [Next]_vars => [\A n \in Names : Rank(db'.types[n]) >= Rank(db.types[n])]_vars
  BY GraphStep DEF Raises
<1> QED
  BY <1>1, GraphInvHolds, PTL DEF Spec, TypeNeverDegrades

----------------------------------------------------------------------------
(* What was asserted stays current. *)

\* A statement leaves the rows as they are if its new content does.
LEMMA StatementRows ==
    ASSUME GraphInv, NEW p \in Process, NEW w, Statement(p, w)
    PROVE  IF tx[p].mode = "auto" THEN db' = w ELSE db' = db
  BY DEF Statement

\* Rows that are added take nothing away.
LEMMA AssertedGrows ==
    ASSUME AssertedKept, torn' = torn, db.rows \subseteq db'.rows,
           \A t \in asserted' \ asserted : Active(db'.rows, t) # {},
           \A q \in Process : proc[q].at = "renew" => proc'[q] = proc[q]
    PROVE  AssertedKept'
<1> SUFFICES ASSUME NEW t \in asserted' \ torn'
             PROVE  Active(db'.rows, t) # {} \/ \E q \in Process : proc'[q].at = "renew" /\ proc'[q].t = t
  BY DEF AssertedKept, At
<1>1. CASE t \in asserted
  BY <1>1 DEF AssertedKept, At, Active
<1>2. CASE t \notin asserted
  BY <1>2
<1> QED
  BY <1>1, <1>2

LEMMA ExpireKeeps ==
    ASSUME NEW rows, NEW t, NEW when, NEW u, u # t, Active(rows, u) # {}
    PROVE  Active(Expired(rows, t, when), u) # {}
  BY DEF Active, Expired

LEMMA AssertedStep == GraphInv /\ AssertedKept /\ [Next]_vars => AssertedKept'
<1> SUFFICES ASSUME GraphInv, AssertedKept, [Next]_vars PROVE AssertedKept'
  OBVIOUS
<1> USE DEF At
<1>1. ASSUME NEW p \in Process, NextRecord(p) \/ Begin(p) \/ EntityRead(p)
      PROVE  AssertedKept'
  <2>1. db' = db /\ asserted' = asserted /\ torn' = torn /\ proc[p].at # "renew"
    BY <1>1 DEF NextRecord, Begin, EntityRead
  <2>2. \A q \in Process \ {p} : proc'[q] = proc[q]
    BY <1>1 DEF NextRecord, Begin, EntityRead, GraphInv
  <2> QED
    BY <2>1, <2>2, AssertedGrows
<1>2. ASSUME NEW p \in Process, EntityWrite(p) \/ Refused(p) PROVE AssertedKept'
  <2>1. asserted' = asserted /\ torn' = torn /\ proc[p].at # "renew"
    BY <1>2 DEF EntityWrite, Refused
  <2>2. \A q \in Process \ {p} : proc'[q] = proc[q]
    BY <1>2 DEF EntityWrite, Refused, Advance, Fail, GraphInv
  <2>3. db' = db
    <3>1. CASE EntityWrite(p)
      <4>1. tx[p].mode # "auto"
        BY <3>1 DEF EntityWrite, GraphInv, ProcOK
      <4> QED
        BY <3>1, <4>1 DEF EntityWrite, Statement
    <3> QED
      BY <1>2, <3>1 DEF Refused
  <2> QED
    BY <2>1, <2>2, <2>3, AssertedGrows
<1>3. ASSUME NEW p \in Process, AddSubject(p) \/ AddObject(p) PROVE AssertedKept'
  <2>1. asserted' = asserted /\ torn' = torn /\ proc[p].at # "renew"
    BY <1>3, AddNameIs
  <2>2. PICK w, then : /\ Statement(p, w) /\ w.rows = Seen(p).rows
                       /\ proc' = [proc EXCEPT ![p].at = then]
    BY <1>3, AddNameIs
  <2>3. \A q \in Process \ {p} : proc'[q] = proc[q]
    BY <2>2 DEF GraphInv
  <2>4. db'.rows = db.rows
    BY <2>2, StatementRows, SeenIsDb
  <2> QED
    BY <2>1, <2>3, <2>4, AssertedGrows
<1>4. ASSUME NEW p \in Process, AddCheck(p) PROVE AssertedKept'
  <2>1. db' = db /\ torn' = torn /\ proc[p].at # "renew"
    BY <1>4 DEF AddCheck
  <2>2. \A q \in Process \ {p} : proc'[q] = proc[q]
    BY <1>4 DEF AddCheck, Advance, GraphInv
  <2>3. \A t \in asserted' \ asserted : p \in Client /\ t = proc[p].t /\ Active(Seen(p).rows, t) # {}
    BY <1>4 DEF AddCheck
  <2>4. p \in Client => Seen(p) = db
    BY ClientSees
  <2> QED
    BY <2>1, <2>2, <2>3, <2>4, AssertedGrows
<1>5. ASSUME NEW p \in Process, AddInsert(p) PROVE AssertedKept'
  <2>1. torn' = torn /\ proc[p].at # "renew"
    BY <1>5 DEF AddInsert
  <2>2. \A q \in Process \ {p} : proc'[q] = proc[q]
    BY <1>5 DEF AddInsert, Advance, Fail, GraphInv
  <2>3. CASE Taken(p)
    <3>1. db' = db /\ asserted' = asserted
      BY <1>5, <2>3 DEF AddInsert
    <3> QED
      BY <2>1, <2>2, <3>1, AssertedGrows
  <2>4. CASE ~Taken(p)
    <3> DEFINE w == [Seen(p) EXCEPT !.rows = @ \cup {Inserted(p)}]
    <3>1. Statement(p, w) /\ asserted' = (IF p \in Client THEN asserted \cup {proc[p].t} ELSE asserted)
      BY <1>5, <2>4 DEF AddInsert
    <3>2. w.rows = Seen(p).rows \cup {Inserted(p)}
      BY SeenIsDb DEF IsDb
    <3> HIDE DEF w
    <3>3. db.rows \subseteq db'.rows /\ (p \in Client => Inserted(p) \in db'.rows)
      BY <3>1, <3>2, StatementRows, SeenIsDb, ClientSees
    <3>4. Inserted(p).t = proc[p].t /\ Inserted(p).to = Null
      BY <1>5, InsertedRow DEF AddInsert
    <3>5. \A t \in asserted' \ asserted : Active(db'.rows, t) # {}
      BY <3>1, <3>3, <3>4 DEF Active
    <3> QED
      BY <2>1, <2>2, <3>3, <3>5, AssertedGrows
  <2> QED
    BY <2>3, <2>4
<1>6. ASSUME NEW p \in Process, EndBatch(p) PROVE AssertedKept'
  <2>1. torn' = torn /\ proc[p].at # "renew"
        /\ asserted' = asserted \cup {r.t : r \in {x \in db'.rows : x.to = Null}}
    BY <1>6 DEF EndBatch
  <2>2. \A q \in Process \ {p} : proc'[q] = proc[q]
    BY <1>6 DEF EndBatch, GraphInv
  <2>3. db.rows \subseteq db'.rows
    BY <1>6 DEF EndBatch, GraphInv, TxOK, Beyond
  <2>4. \A t \in asserted' \ asserted : Active(db'.rows, t) # {}
    BY <2>1 DEF Active
  <2> QED
    BY <2>1, <2>2, <2>3, <2>4, AssertedGrows
<1>7. ASSUME NEW p \in Process, UpsertExpire(p) PROVE AssertedKept'
  <2>1. torn' = torn /\ asserted' = asserted /\ proc[p].at = "expire"
    BY <1>7 DEF UpsertExpire
  <2>2. \A q \in Process \ {p} : proc'[q] = proc[q]
    BY <1>7 DEF UpsertExpire, Fail, GraphInv
  <2> DEFINE w == [db EXCEPT !.rows = Expired(@, proc[p].t, proc[p].from)]
  <2>3. CASE Statement(p, w) /\ proc' = [proc EXCEPT ![p].at = "renew"]
    <3>1. tx[p].mode = "auto" /\ ProcOK(p)
      BY <2>1, ClientSees DEF GraphInv
    <3>2. db' = w
      BY <2>3, <3>1 DEF Statement
    <3>3. db'.rows = Expired(db.rows, proc[p].t, proc[p].from)
      BY <3>2 DEF GraphInv, IsDb
    <3>4. proc'[p].at = "renew" /\ proc'[p].t = proc[p].t
      BY <2>3, <3>1 DEF GraphInv, ProcOK
    <3> SUFFICES ASSUME NEW t \in asserted' \ torn', t # proc[p].t
                 PROVE  Active(db'.rows, t) # {} \/ \E q \in Process : proc'[q].at = "renew" /\ proc'[q].t = t
      BY <3>4 DEF AssertedKept
    <3> QED
      BY <2>1, <2>2, <3>3, ExpireKeeps DEF AssertedKept
  <2>4. CASE db' = db
    BY <2>1, <2>2, <2>4, AssertedGrows
  <2> QED
    BY <1>7, <2>3, <2>4 DEF UpsertExpire
<1>8. ASSUME NEW p \in Process, UpsertInsert(p) PROVE AssertedKept'
  <2>1. proc[p].at = "renew"
    BY <1>8 DEF UpsertInsert
  <2>2. \A q \in Process \ {p} : proc'[q] = proc[q]
    BY <1>8 DEF UpsertInsert, GraphInv
  <2> DEFINE w == [db EXCEPT !.rows = @ \cup {Inserted(p)}]
  <2>3. CASE Statement(p, w) /\ asserted' = asserted \cup {proc[p].t} /\ torn' = torn
    <3>1. db' = w
      BY <2>1, <2>3, ClientSees DEF Statement
    <3>2. db'.rows = db.rows \cup {Inserted(p)}
      BY <3>1 DEF GraphInv, IsDb
    <3>3. Active(db'.rows, proc[p].t) # {}
      BY <2>1, <3>2, InsertedRow DEF Active
    <3> QED
      BY <2>2, <2>3, <3>2, <3>3 DEF AssertedKept, Active
  <2>4. CASE db' = db /\ asserted' = asserted /\ torn' = torn \cup {proc[p].t}
    BY <2>2, <2>4 DEF AssertedKept
  <2> QED
    BY <1>8, <2>3, <2>4 DEF UpsertInsert
<1>9. ASSUME NEW p \in Process, NEW t \in Triple, NEW ended \in Ends, Invalidate(p, t, ended) PROVE AssertedKept'
  <2> DEFINE when == IF ended = Null THEN Today(now) ELSE ended
             w == [db EXCEPT !.rows = Expired(@, t, when)]
  <2>1. p \in Client /\ Statement(p, w) /\ proc' = proc /\ torn' = torn /\ asserted' = asserted \ {t}
    BY <1>9 DEF Invalidate
  <2> HIDE DEF when
  <2>2. db' = w
    BY <2>1, ClientSees DEF Statement
  <2>3. db'.rows = Expired(db.rows, t, when)
    BY <2>2 DEF GraphInv, IsDb
  <2> QED
    BY <2>1, <2>3, ExpireKeeps DEF AssertedKept
<1>10. ASSUME NEW p \in Process, Kill(p) PROVE AssertedKept'
  <2>1. db' = db /\ asserted' = asserted /\ torn' = (IF proc[p].at = "renew" THEN torn \cup {proc[p].t} ELSE torn)
    BY <1>10 DEF Kill
  <2>2. \A q \in Process \ {p} : proc'[q] = proc[q]
    BY <1>10 DEF Kill, GraphInv
  <2> QED
    BY <2>1, <2>2 DEF AssertedKept
<1>11. ASSUME NEW p \in Process, NEW t \in Triple, StartUpsert(p, t) \/ \E from \in Froms : StartAdd(p, t, from)
       PROVE  AssertedKept'
  <2>1. db' = db /\ asserted' = asserted /\ torn' = torn /\ proc[p].at # "renew"
    BY <1>11 DEF StartUpsert, StartAdd
  <2>2. \A q \in Process \ {p} : proc'[q] = proc[q]
    BY <1>11 DEF StartUpsert, StartAdd, GraphInv
  <2> QED
    BY <2>1, <2>2, AssertedGrows
<1>12. CASE UNCHANGED vars \/ \E t \in Clock : Tick(t)
  BY <1>12 DEF vars, Tick, AssertedKept
<1> QED
  BY <1>1, <1>2, <1>3, <1>4, <1>5, <1>6, <1>7, <1>8, <1>9, <1>10, <1>11, <1>12 DEF Next

\* What was added or upserted and not invalidated since has a current row,
\* whatever else commits, unless an upsert of it was torn between its two
\* statements.
THEOREM GraphAssertedKept == Spec => []AssertedKept
<1>1. Init => AssertedKept
  BY DEF Init, AssertedKept
<1> QED
  BY <1>1, AssertedStep, GraphInvHolds, PTL DEF Spec

----------------------------------------------------------------------------
(* The history of a triple. *)

Upserts(rows) == {r \in rows : r.by = "upsert"}

\* One current row of a triple at most.
Unique(rows) == \A r, s \in rows : r.t = s.t /\ r.to = Null /\ s.to = Null => r = s

\* One version ends before the other begins.
Precedes(r, s) == r.to # Null /\ r.to <= s.from
Apart(rows) == \A r, s \in Upserts(rows) : r.t = s.t => r = s \/ Precedes(r, s) \/ Precedes(s, r)

\* The rows that ended when they were ended, not ahead of time.
Timely == db.rows \ ahead

\* What a process relies on between its statements: who is about to insert has
\* seen or left no current row, and who upserts comes after all versions so far.
ReliesOn(p) ==
    /\ tx[p].mode = "write" => Unique(tx[p].view.rows)
    /\ proc[p].at \in {"insert", "renew"} => Active(Seen(p).rows, proc[p].t) = {}
    /\ proc[p].at \in {"expire", "renew"} =>
          /\ proc[p].from \in Clock /\ proc[p].from <= now
          /\ \A r \in Upserts(Timely) : r.t = proc[p].t => r.to <= proc[p].from

HistInv ==
    raced \/ /\ Unique(db.rows) /\ Apart(Timely)
             /\ \A r \in ahead : r.to # Null
             /\ \A r \in Upserts(Timely) : r.to <= now
             /\ \A p \in Process : ReliesOn(p)

Of(rows, t) == {r \in rows : r.t = t}

\* Who is in the midst of an operation on a triple that stays as it is, or
\* whose transaction has a view, can go on relying on what it did.
LEMMA ReliesStill ==
    ASSUME GraphInv, NEW q \in Process, ReliesOn(q), proc'[q] = proc[q], now' = now,
           tx'[q].mode = tx[q].mode, tx'[q].view = tx[q].view,
           proc[q].at \in {"insert", "expire", "renew"} =>
               /\ Active(db'.rows, proc[q].t) = Active(db.rows, proc[q].t)
               /\ \A r \in Upserts(Timely') : r.t = proc[q].t => r \in Timely
    PROVE  ReliesOn(q)'
<1>1. Unique(tx'[q].view.rows) <=> Unique(tx[q].view.rows)
  OBVIOUS
<1>2. tx[q].mode = "write" => Unique(tx'[q].view.rows)
  BY <1>1 DEF ReliesOn
<1>3. proc[q].at \in {"insert", "renew"} => Active(Seen(q)'.rows, proc[q].t) = {}
  BY DEF ReliesOn, Seen
<1>4. proc[q].at \in {"expire", "renew"} => \A r \in Upserts(Timely') : r.t = proc[q].t => r.to <= proc[q].from
  BY DEF ReliesOn, Upserts
<1> QED
  BY <1>2, <1>3, <1>4 DEF ReliesOn, Unique, Active, Upserts

\* A step of one process after which the rows are the same.
LEMMA SameRows ==
    ASSUME GraphInv, HistInv, NEW p \in Process, db'.rows = db.rows, ahead' = ahead, now' = now, raced => raced',
           \A q \in Process \ {p} : /\ proc'[q] = proc[q]
                                   /\ tx'[q].mode = tx[q].mode /\ tx'[q].view = tx[q].view,
           ~raced => ReliesOn(p)'
    PROVE  HistInv'
<1> SUFFICES ASSUME ~raced PROVE HistInv'
  BY DEF HistInv
<1>1. \A q \in Process \ {p} : ReliesOn(q)'
  BY ReliesStill DEF HistInv, Upserts, Timely
<1> QED
  BY <1>1 DEF HistInv, Unique, Apart, Upserts, Precedes, Timely

\* A process outside these steps relies on its view only.
LEMMA ReliesOnView ==
    ASSUME NEW p \in Process, proc'[p].at \notin {"insert", "expire", "renew"},
           tx'[p].mode = "write" => Unique(tx'[p].view.rows)
    PROVE  ReliesOn(p)'
  BY DEF ReliesOn, Unique

\* A step of the command line on one triple.
LEMMA OtherTriples ==
    ASSUME GraphInv, HistInv, NEW p \in Process, NEW t, now' = now,
           ~(raced' \/ Amid(p, t)),
           ~raced,
           \A u : u # t => Of(db'.rows, u) = Of(db.rows, u), ahead \subseteq ahead',
           \A q \in Process \ {p} : /\ proc'[q] = proc[q]
                                   /\ tx'[q].mode = tx[q].mode /\ tx'[q].view = tx[q].view
    PROVE  \A q \in Process \ {p} : ReliesOn(q)'
<1> SUFFICES ASSUME NEW q \in Process \ {p} PROVE ReliesOn(q)'
  OBVIOUS
<1>1. proc[q].at \in {"insert", "expire", "renew"} => proc[q].t # t
  BY DEF Amid
<1>2. proc[q].at \in {"insert", "expire", "renew"} =>
          /\ Active(db'.rows, proc[q].t) = Active(db.rows, proc[q].t)
          /\ \A r \in Upserts(Timely') : r.t = proc[q].t => r \in Timely
  BY <1>1 DEF Active, Upserts, Of, Timely
<1> QED
  BY <1>2, ReliesStill DEF HistInv

\* An expiry ends the current rows of its triple and leaves the others.
LEMMA ExpiredOthers ==
    ASSUME NEW rows, rows \subseteq RowType, NEW t, NEW when
    PROVE  \A u : u # t => Of(Expired(rows, t, when), u) = Of(rows, u)
<1> DEFINE Finish(r) == IF r.t = t /\ r.to = Null THEN [r EXCEPT !.to = when] ELSE r
<1>1. \A r \in rows : Finish(r).t = r.t /\ (r.t # t => Finish(r) = r)
  <2>1. \A r \in rows : r = [t |-> r.t, id |-> r.id, from |-> r.from, to |-> r.to, by |-> r.by]
    BY DEF RowType
  <2> QED
    BY <2>1
<1>2. Expired(rows, t, when) = {Finish(r) : r \in rows}
  BY DEF Expired
<1> HIDE DEF Finish
<1> QED
  BY <1>1, <1>2 DEF Of

\* What an expiry leaves: no current row of the triple, and every version still
\* apart from the others.
LEMMA ExpiredHistory ==
    ASSUME NEW rows, rows \subseteq RowType, Unique(rows), NEW late, \A r \in late : r.to # Null,
           Apart(rows \ late), NEW t, NEW when \in Nat
    PROVE  /\ Unique(Expired(rows, t, when)) /\ Apart(Expired(rows, t, when) \ late)
           /\ when # Null => Active(Expired(rows, t, when), t) = {}
           /\ \A r \in Upserts(Expired(rows, t, when) \ late) : \/ r.to = when
                                                              \/ r \in Upserts(rows \ late)
<1> DEFINE E(r) == [t |-> r.t, id |-> r.id, from |-> r.from, by |-> r.by,
                    to |-> IF r.t = t /\ r.to = Null THEN when ELSE r.to]
<1>1. ASSUME NEW r \in rows PROVE (IF r.t = t /\ r.to = Null THEN [r EXCEPT !.to = when] ELSE r) = E(r)
  BY <1>1 DEF RowType
<1> DEFINE Finish(r) == IF r.t = t /\ r.to = Null THEN [r EXCEPT !.to = when] ELSE r
<1>2. Expired(rows, t, when) = {E(r) : r \in rows}
  <2>1. \A r \in rows : Finish(r) = E(r)
    BY <1>1
  <2> HIDE DEF Finish, E
  <2>2. {Finish(r) : r \in rows} = {E(r) : r \in rows}
    BY <2>1
  <2> QED
    BY <2>2 DEF Expired, Finish
<1>9. \A r \in rows : (r.t # t \/ r.to # Null) => E(r) = r
  BY <1>1
<1>3. Unique(Expired(rows, t, when))
  BY <1>2 DEF Unique
<1>10. ASSUME NEW x \in Expired(rows, t, when) \ late PROVE \E r \in rows \ late : x = E(r)
  <2>1. PICK r \in rows : x = E(r)
    BY <1>2
  <2>2. r \notin late
    BY <1>9, <2>1
  <2> QED
    BY <2>1, <2>2
<1>4. Apart(Expired(rows, t, when) \ late)
  <2> SUFFICES ASSUME NEW r \in rows \ late, NEW s \in rows \ late,
                      E(r).by = "upsert", E(s).by = "upsert", E(r).t = E(s).t, r # s
               PROVE  Precedes(E(r), E(s)) \/ Precedes(E(s), E(r))
    BY <1>10 DEF Apart, Upserts
  <2>1. Precedes(r, s) \/ Precedes(s, r)
    BY DEF Apart, Upserts
  <2> QED
    BY <1>9, <2>1 DEF Precedes
<1>5. when # Null => Active(Expired(rows, t, when), t) = {}
  BY <1>2 DEF Active
<1>7. \A r \in Upserts(Expired(rows, t, when) \ late) : r.to = when \/ r \in Upserts(rows \ late)
  BY <1>9, <1>10 DEF Upserts
<1> QED
  BY <1>3, <1>4, <1>5, <1>7

\* What a statement does to the connections.
LEMMA StatementMoves ==
    ASSUME GraphInv, NEW p \in Process, NEW w, Statement(p, w)
    PROVE  /\ \A q \in Process \ {p} : tx'[q].mode = tx[q].mode /\ tx'[q].view = tx[q].view
           /\ tx'[p].mode = IF tx[p].mode = "auto" THEN "auto" ELSE "write"
           /\ tx[p].mode # "auto" => tx'[p].view = w
<1>1. tx = [q \in Process |-> tx[q]] /\ \A q \in Process : TxOK(q)
  BY DEF GraphInv
<1>2. CASE tx[p].mode = "auto"
  <2>1. tx' = Outdate(tx, p, w)
    BY <1>2 DEF Statement
  <2>2. \A q \in Process : tx'[q] = IF q # p /\ tx[q].mode = "read" /\ w # db
                                   THEN [tx[q] EXCEPT !.stale = TRUE] ELSE tx[q]
    BY <2>1 DEF Outdate
  <2>3. \A q \in Process : tx'[q].mode = tx[q].mode /\ tx'[q].view = tx[q].view
    BY <1>1, <2>2 DEF TxOK
  <2> QED
    BY <1>2, <2>3
<1>3. CASE tx[p].mode # "auto"
  <2>1. tx' = [tx EXCEPT ![p] = [mode |-> "write", view |-> w, stale |-> FALSE]]
    BY <1>3 DEF Statement
  <2> QED
    BY <1>1, <1>3, <2>1
<1> QED
  BY <1>2, <1>3

\* What may write has one current row of each triple.
LEMMA SeenUnique ==
    ASSUME GraphInv, HistInv, ~raced, NEW p \in Process, MayWrite(p)
    PROVE  Unique(Seen(p).rows)
<1>1. Unique(db.rows) /\ (tx[p].mode = "write" => Unique(tx[p].view.rows))
  BY DEF HistInv, ReliesOn
<1>2. Seen(p) = db \/ (tx[p].mode = "write" /\ Seen(p) = tx[p].view)
  BY SeenIsDb
<1> QED
  BY <1>1, <1>2

\* A statement that leaves the rows alone, of a process that goes on outside
\* the steps that rely on the rows.
LEMMA SameRowsStatement ==
    ASSUME GraphInv, HistInv, NEW p \in Process, NEW w, Statement(p, w), w.rows = Seen(p).rows,
           now' = now, ahead' = ahead, raced' = raced, \A q \in Process \ {p} : proc'[q] = proc[q],
           proc'[p].at \notin {"insert", "expire", "renew"}
    PROVE  HistInv'
<1>1. db'.rows = db.rows
  BY StatementRows, SeenIsDb
<1>2. ASSUME ~raced, tx'[p].mode = "write" PROVE Unique(tx'[p].view.rows)
  <2>1. MayWrite(p)
    BY DEF Statement
  <2>2. tx'[p].view = w
    BY <1>2, StatementMoves
  <2> QED
    BY <1>2, <2>1, <2>2, SeenUnique
<1>3. ~raced => ReliesOn(p)'
  BY <1>2, ReliesOnView
<1> QED
  BY <1>1, <1>3, StatementMoves, SameRows

\* A step of one process that leaves the database and the transactions alone.
LEMMA SameView ==
    ASSUME GraphInv, HistInv, NEW p \in Process, db' = db, tx' = tx, now' = now, ahead' = ahead, raced' = raced,
           \A q \in Process \ {p} : proc'[q] = proc[q],
           proc'[p].at \notin {"insert", "expire", "renew"}
    PROVE  HistInv'
<1>1. ~raced => ReliesOn(p)'
  <2> SUFFICES ASSUME ~raced PROVE ReliesOn(p)'
    OBVIOUS
  <2>1. tx'[p].mode = "write" => Unique(tx'[p].view.rows)
    BY DEF HistInv, ReliesOn
  <2> QED
    BY <2>1, ReliesOnView
<1> QED
  BY <1>1, SameRows

\* An operation ends: its process is idle or has another one before it.
LEMMA AdvanceIs ==
    ASSUME GraphInv, NEW p \in Process, Advance(p) \/ Fail(p)
    PROVE  (\A q \in Process \ {p} : proc'[q] = proc[q]) /\ proc'[p].at \in {"idle", "next"}
<1>1. \E todo : proc' = [proc EXCEPT ![p] = IF p \in Client THEN Idle
                                           ELSE [at |-> "next", todo |-> todo, t |-> <<>>, from |-> Null, old |-> "absent"]]
  BY NextShape DEF Advance, Fail
<1> QED
  BY <1>1 DEF GraphInv, Idle

\* The steps that leave the rows alone.
LEMMA QuietSteps ==
    ASSUME GraphInv, HistInv, NEW p \in Process,
           \/ Begin(p) \/ NextRecord(p) \/ EntityRead(p) \/ EntityWrite(p) \/ Refused(p)
           \/ AddSubject(p) \/ AddObject(p) \/ AddCheck(p) \/ Kill(p)
    PROVE  HistInv'
<1> USE DEF At
<1>1. CASE Begin(p)
  <2>1. db' = db /\ now' = now /\ ahead' = ahead /\ raced' = raced /\ tx' = [tx EXCEPT ![p].mode = "begun"]
    BY <1>1 DEF Begin
  <2>2. tx'[p].mode = "begun" /\ \A q \in Process \ {p} : tx'[q] = tx[q]
    BY <2>1 DEF GraphInv, TxOK
  <2>3. proc'[p].at = "next" /\ \A q \in Process \ {p} : proc'[q] = proc[q]
    <3>1. PICK todo : proc' = [proc EXCEPT ![p].at = "next", ![p].todo = todo]
      BY <1>1 DEF Begin
    <3> QED
      BY <3>1 DEF GraphInv, ProcOK
  <2>4. ReliesOn(p)'
    BY <2>2, <2>3, ReliesOnView
  <2> QED
    BY <2>1, <2>2, <2>3, <2>4, SameRows
<1>2. CASE NextRecord(p)
  <2>1. db' = db /\ tx' = tx /\ now' = now /\ ahead' = ahead /\ raced' = raced /\ \A q \in Process \ {p} : proc'[q] = proc[q]
    BY <1>2 DEF NextRecord, GraphInv
  <2>2. proc'[p].at = "next"
    BY <1>2 DEF NextRecord, GraphInv, ProcOK
  <2> QED
    BY <2>1, <2>2, SameView
<1>3. CASE EntityRead(p)
  <2>1. db' = db /\ now' = now /\ ahead' = ahead /\ raced' = raced /\ Select(p) /\ \A q \in Process \ {p} : proc'[q] = proc[q]
    BY <1>3 DEF EntityRead, GraphInv
  <2>2. proc'[p].at = "entity"
    <3>1. PICK old : proc' = [proc EXCEPT ![p].at = "entity", ![p].old = old]
      BY <1>3 DEF EntityRead
    <3> QED
      BY <3>1 DEF GraphInv, ProcOK
  <2>3. \A q \in Process \ {p} : tx'[q] = tx[q]
    BY <2>1, SelectEffect
  <2>4. ASSUME ~raced, tx'[p].mode = "write" PROVE Unique(tx'[p].view.rows)
    <3>1. tx[p].mode # "begun"
      BY <2>1, <2>4, SelectEffect
    <3>2. tx'[p] = tx[p]
      BY <2>1, <3>1, SelectEffect
    <3> QED
      BY <2>4, <3>2 DEF HistInv, ReliesOn
  <2>5. ~raced => ReliesOn(p)'
    BY <2>2, <2>4, ReliesOnView
  <2> QED
    BY <2>1, <2>3, <2>5, SameRows
<1>4. CASE EntityWrite(p)
  <2> DEFINE e == Head(proc[p].todo)[1]
             w == [Seen(p) EXCEPT !.types[e.name] = ResolvedType(proc[p].old, e.type)]
  <2>1. Statement(p, w) /\ Advance(p) /\ now' = now /\ ahead' = ahead /\ raced' = raced /\ proc[p].at = "entity"
    BY <1>4 DEF EntityWrite
  <2>2. w.rows = Seen(p).rows
    BY SeenIsDb DEF IsDb
  <2> HIDE DEF w
  <2>3. (\A q \in Process \ {p} : proc'[q] = proc[q]) /\ proc'[p].at \in {"idle", "next"}
    BY <2>1, AdvanceIs
  <2> QED
    BY <2>1, <2>2, <2>3, SameRowsStatement
<1>5. CASE Refused(p)
  <2>1. Fail(p) /\ db' = db /\ tx' = tx /\ now' = now /\ ahead' = ahead /\ raced' = raced
    BY <1>5 DEF Refused
  <2>2. (\A q \in Process \ {p} : proc'[q] = proc[q]) /\ proc'[p].at \in {"idle", "next"}
    BY <2>1, AdvanceIs
  <2> QED
    BY <2>1, <2>2, SameView
<1>6. CASE AddSubject(p) \/ AddObject(p)
  <2>1. now' = now /\ ahead' = ahead /\ raced' = raced
    BY <1>6, AddNameIs
  <2>2. PICK w, then : /\ Statement(p, w) /\ w.rows = Seen(p).rows
                       /\ then \in {"object", "check"} /\ proc' = [proc EXCEPT ![p].at = then]
    BY <1>6, AddNameIs
  <2>3. (\A q \in Process \ {p} : proc'[q] = proc[q]) /\ proc'[p].at \in {"object", "check"}
    BY <2>2 DEF GraphInv, ProcOK
  <2> QED
    BY <2>1, <2>2, <2>3, SameRowsStatement
<1>7. CASE AddCheck(p)
  <2>1. db' = db /\ now' = now /\ ahead' = ahead /\ raced' = raced /\ proc[p].at = "check" /\ Select(p)
    BY <1>7 DEF AddCheck
  <2>2. tx' = tx
    BY <2>1 DEF Select, GraphInv, ProcOK, Process
  <2>3. CASE Active(Seen(p).rows, proc[p].t) # {}
    <3>1. Advance(p)
      BY <1>7, <2>3 DEF AddCheck
    <3>2. (\A q \in Process \ {p} : proc'[q] = proc[q]) /\ proc'[p].at \in {"idle", "next"}
      BY <3>1, AdvanceIs
    <3> QED
      BY <2>1, <2>2, <3>2, SameView
  <2>4. CASE Active(Seen(p).rows, proc[p].t) = {}
    <3>1. proc' = [proc EXCEPT ![p].at = "insert"]
      BY <1>7, <2>4 DEF AddCheck
    <3>2. proc'[p].at = "insert" /\ proc'[p].t = proc[p].t /\ \A q \in Process \ {p} : proc'[q] = proc[q]
      BY <3>1 DEF GraphInv, ProcOK
    <3>3. Seen(p)' = Seen(p)
      BY <2>1, SelectEffect
    <3>4. Active(Seen(p)'.rows, proc'[p].t) = {}
      BY <2>4, <3>2, <3>3
    <3>5. ~raced => ReliesOn(p)'
      <4> SUFFICES ASSUME ~raced PROVE ReliesOn(p)'
        OBVIOUS
      <4>1. tx'[p].mode = "write" => Unique(tx'[p].view.rows)
        BY <2>2 DEF HistInv, ReliesOn
      <4> QED
        BY <3>2, <3>4, <4>1 DEF ReliesOn, Active, Unique
    <3> QED
      BY <2>1, <2>2, <3>2, <3>5, SameRows
  <2> QED
    BY <2>3, <2>4
<1>8. CASE Kill(p)
  <2>1. db' = db /\ now' = now /\ ahead' = ahead /\ raced' = raced /\ proc'[p] = Idle /\ tx'[p] = Autocommit
        /\ \A q \in Process \ {p} : proc'[q] = proc[q] /\ tx'[q] = tx[q]
    BY <1>8 DEF Kill, GraphInv
  <2>2. ReliesOn(p)'
    BY <2>1, ReliesOnView DEF Idle, Autocommit
  <2> QED
    BY <2>1, <2>2, SameRows
<1> QED
  BY <1>1, <1>2, <1>3, <1>4, <1>5, <1>6, <1>7, <1>8

\* The beginnings of the command line's operations.
LEMMA StartSteps ==
    ASSUME GraphInv, HistInv, NEW p \in Process, NEW t \in Triple,
           StartUpsert(p, t) \/ \E from \in Froms : StartAdd(p, t, from)
    PROVE  HistInv'
<1> USE DEF At
<1>1. CASE StartUpsert(p, t)
  <2>1. db' = db /\ tx' = tx /\ now' = now /\ ahead' = ahead /\ raced' = raced
        /\ proc' = [proc EXCEPT ![p] = [Idle EXCEPT !.at = "expire", !.t = t, !.from = now]]
    BY <1>1 DEF StartUpsert
  <2>2. [Idle EXCEPT !.at = "expire", !.t = t, !.from = now].at = "expire"
        /\ [Idle EXCEPT !.at = "expire", !.t = t, !.from = now].from = now
    BY DEF Idle
  <2>3. proc'[p].at = "expire" /\ proc'[p].from = now /\ \A q \in Process \ {p} : proc'[q] = proc[q]
    BY <2>1, <2>2 DEF GraphInv
  <2>4. ~raced => ReliesOn(p)'
    <3> SUFFICES ASSUME ~raced PROVE ReliesOn(p)'
      OBVIOUS
    <3>1. tx'[p].mode = "write" => Unique(tx'[p].view.rows)
      BY <2>1 DEF HistInv, ReliesOn
    <3>2. now \in Clock /\ now <= now /\ \A r \in Upserts(Timely') : r.to <= now
      <4>1. now \in Clock /\ now \in Nat
        BY GraphAssumption DEF GraphInv
      <4>2. Timely' = Timely
        BY <2>1 DEF Timely
      <4> QED
        BY <4>1, <4>2 DEF HistInv
    <3> QED
      BY <2>1, <2>3, <3>1, <3>2 DEF ReliesOn, Unique, Upserts
  <2> QED
    BY <2>1, <2>3, <2>4, SameRows
<1>2. ASSUME NEW from \in Froms, StartAdd(p, t, from) PROVE HistInv'
  <2>1. db' = db /\ tx' = tx /\ now' = now /\ ahead' = ahead /\ raced' = raced /\ \A q \in Process \ {p} : proc'[q] = proc[q]
    BY <1>2 DEF StartAdd, GraphInv
  <2>2. proc'[p].at = "names"
    <3>1. [Idle EXCEPT !.at = "names", !.t = t, !.from = from].at = "names"
      BY DEF Idle
    <3> QED
      BY <1>2, <3>1 DEF StartAdd, GraphInv, ProcOK
  <2> QED
    BY <2>1, <2>2, SameView
<1> QED
  BY <1>1, <1>2

\* A commit: what a batch added meets nobody in the midst of the same triple,
\* or it raced.
LEMMA EndBatchHistory == ASSUME GraphInv, HistInv, NEW p \in Process, EndBatch(p) PROVE HistInv'
<1>1. now' = now /\ ahead' = ahead /\ proc'[p] = Idle /\ (\A q \in Process \ {p} : proc'[q] = proc[q])
      /\ raced' = (raced \/ \E t \in Triple : Active(db'.rows, t) # Active(db.rows, t) /\ Amid(p, t))
  BY DEF EndBatch, GraphInv
<1>2. (\A q \in Process \ {p} : tx'[q].mode = tx[q].mode /\ tx'[q].view = tx[q].view) /\ tx'[p] = Autocommit
  BY CommitEffect
<1> SUFFICES ASSUME ~raced, \A t \in Triple : Active(db'.rows, t) = Active(db.rows, t) \/ ~Amid(p, t)
             PROVE  HistInv'
  BY <1>1 DEF HistInv
<1>3. Unique(db'.rows) /\ Upserts(db'.rows) = Upserts(db.rows) /\ Upserts(Timely') = Upserts(Timely)
  <2>1. CASE tx[p].mode = "write"
    <3>1. db' = tx[p].view /\ Beyond(db, tx[p].view) /\ Unique(tx[p].view.rows)
      BY <2>1 DEF EndBatch, GraphInv, TxOK, HistInv, ReliesOn
    <3>2. Upserts(db'.rows) = Upserts(db.rows)
      BY <3>1 DEF Beyond, Upserts
    <3> QED
      BY <1>1, <3>1, <3>2 DEF Upserts, Timely
  <2>2. CASE tx[p].mode # "write"
    BY <1>1, <2>2 DEF EndBatch, HistInv, Timely
  <2> QED
    BY <2>1, <2>2
<1>4. ASSUME NEW q \in Process \ {p} PROVE ReliesOn(q)'
  <2>1. proc[q].at \in {"insert", "expire", "renew"} => proc[q].t \in Triple /\ Amid(p, proc[q].t)
    BY DEF GraphInv, ProcOK, Amid
  <2>2. proc[q].at \in {"insert", "expire", "renew"} =>
           /\ Active(db'.rows, proc[q].t) = Active(db.rows, proc[q].t)
           /\ \A r \in Upserts(Timely') : r.t = proc[q].t => r \in Timely
    BY <1>3, <2>1 DEF Upserts
  <2>3. ReliesOn(q)
    BY DEF HistInv
  <2> QED
    BY <1>1, <1>2, <2>2, <2>3, ReliesStill
<1>5. ReliesOn(p)'
  BY <1>1, <1>2, ReliesOnView DEF Idle, Autocommit
<1>6. Apart(Timely') /\ (\A r \in Upserts(Timely') : r.to <= now') /\ \A r \in ahead' : r.to # Null
  BY <1>1, <1>3 DEF HistInv, Apart
<1> QED
  BY <1>3, <1>4, <1>5, <1>6 DEF HistInv, Unique, Apart, Upserts, Precedes, Timely

\* A statement of the command line on the rows of one triple.
LEMMA OneTriple ==
    ASSUME GraphInv, HistInv, NEW p \in Process, NEW t, now' = now, raced' = (raced \/ Amid(p, t)),
           \A u : u # t => Of(db'.rows, u) = Of(db.rows, u),
           ahead \subseteq ahead', ~raced => \A r \in ahead' : r.to # Null,
           \A q \in Process \ {p} : /\ proc'[q] = proc[q]
                                   /\ tx'[q].mode = tx[q].mode /\ tx'[q].view = tx[q].view,
           ~raced => /\ Unique(db'.rows) /\ Apart(Timely') /\ \A r \in Upserts(Timely') : r.to <= now
                     /\ ReliesOn(p)'
    PROVE  HistInv'
<1> SUFFICES ASSUME ~raced' PROVE HistInv'
  BY DEF HistInv
<1>1. \A q \in Process \ {p} : ReliesOn(q)'
  BY OtherTriples
<1> QED
  BY <1>1 DEF HistInv, Unique, Apart, Upserts, Precedes, Timely

\* What an insert leaves where no row was current, and all versions had ended.
LEMMA InsertedHistory ==
    ASSUME NEW rows, rows \subseteq RowType, Unique(rows), NEW late, \A r \in late : r.to # Null,
           Apart(rows \ late), NEW row \in RowType, row.to = Null, Active(rows, row.t) = {},
           row.by = "upsert" => \A r \in Upserts(rows \ late) : r.t = row.t => r.to <= row.from
    PROVE  /\ Unique(rows \cup {row}) /\ Apart((rows \cup {row}) \ late)
           /\ \A r \in Upserts((rows \cup {row}) \ late) : r = row \/ r \in Upserts(rows \ late)
           /\ \A u : u # row.t => Of(rows \cup {row}, u) = Of(rows, u)
<1>1. \A r \in rows : r.t = row.t => r.to # Null
  BY DEF Active
<1>2. Unique(rows \cup {row})
  BY <1>1 DEF Unique
<1>3. \A r \in Upserts(rows \ late) : row.by = "upsert" /\ r.t = row.t => Precedes(r, row)
  BY <1>1 DEF Precedes, Upserts
<1>6. (rows \cup {row}) \ late = (rows \ late) \cup {row}
  OBVIOUS
<1>4. Apart((rows \cup {row}) \ late)
  BY <1>3, <1>6 DEF Apart, Upserts
<1>5. \A u : u # row.t => Of(rows \cup {row}, u) = Of(rows, u)
  BY DEF Of
<1> QED
  BY <1>2, <1>4, <1>5, <1>6 DEF Upserts

\* addTriple inserts only where it saw no current row.
LEMMA AddInsertHistory == ASSUME GraphInv, HistInv, NEW p \in Process, AddInsert(p) PROVE HistInv'
<1>1. proc[p].at = "insert" /\ now' = now /\ ahead' = ahead
  BY DEF AddInsert, At
<1>2. (\A q \in Process \ {p} : proc'[q] = proc[q]) /\ proc'[p].at \in {"idle", "next"}
  BY AdvanceIs DEF AddInsert
<1>3. CASE Taken(p)
  <2>1. db' = db /\ tx' = tx /\ raced' = raced
    BY <1>3 DEF AddInsert
  <2> QED
    BY <1>1, <1>2, <2>1, SameView
<1>4. CASE ~Taken(p)
  <2> DEFINE w == [Seen(p) EXCEPT !.rows = @ \cup {Inserted(p)}]
  <2>1. Statement(p, w) /\ raced' = (raced \/ (p \in Client /\ Amid(p, proc[p].t)))
    BY <1>4 DEF AddInsert
  <2>2. w.rows = Seen(p).rows \cup {Inserted(p)}
    BY SeenIsDb DEF IsDb
  <2>7. Seen(p).rows \subseteq RowType
    BY SeenIsDb DEF IsDb
  <2> HIDE DEF w
  <2>3. Inserted(p) \in RowType /\ Inserted(p).t = proc[p].t /\ Inserted(p).to = Null /\ Inserted(p).by # "upsert"
    BY <1>1, InsertedRow
  <2>4. ~raced => Unique(Seen(p).rows) /\ Active(Seen(p).rows, proc[p].t) = {}
    BY <1>1, <2>1, SeenUnique DEF HistInv, ReliesOn, Statement
  <2>5. CASE p \in Client
    <3>1. tx[p].mode = "auto" /\ Seen(p) = db
      BY <2>5, ClientSees
    <3>2. db'.rows = db.rows \cup {Inserted(p)}
      BY <2>1, <2>2, <3>1, StatementRows
    <3>3. \A u : u # proc[p].t => Of(db'.rows, u) = Of(db.rows, u)
      BY <2>3, <3>2 DEF Of
    <3>4. ~raced => /\ Unique(db'.rows) /\ Apart(Timely') /\ \A r \in ahead' : r.to # Null
                    /\ \A r \in Upserts(Timely') : r.to <= now
      <4> SUFFICES ASSUME ~raced
                   PROVE  /\ Unique(db'.rows) /\ Apart(db'.rows \ ahead) /\ \A r \in ahead : r.to # Null
                          /\ \A r \in Upserts(db'.rows \ ahead) : r.to <= now
        BY <1>1 DEF Timely
      <4>1. Apart(db.rows \ ahead) /\ (\A r \in ahead : r.to # Null)
            /\ \A r \in Upserts(db.rows \ ahead) : r.to <= now
        BY DEF HistInv, Timely
      <4>2. \A r \in Upserts(db'.rows \ ahead) : r \in Upserts(db.rows \ ahead)
        BY <2>3, <3>2 DEF Upserts
      <4> QED
        <5> DEFINE rows == db.rows
                   row == Inserted(p)
        <5>1. /\ rows \subseteq RowType /\ Unique(rows) /\ Active(rows, row.t) = {}
              /\ row \in RowType /\ row.to = Null /\ row.by # "upsert" /\ db'.rows = rows \cup {row}
          BY <2>3, <2>4, <2>7, <3>1, <3>2
        <5> HIDE DEF rows, row
        <5>2. Unique(rows \cup {row}) /\ Apart((rows \cup {row}) \ ahead)
          BY <4>1, <5>1, InsertedHistory DEF rows
        <5> QED
          BY <4>1, <4>2, <5>1, <5>2
    <3>6. ReliesOn(p)'
      BY <1>2, <2>1, <3>1, StatementMoves, ReliesOnView
    <3> QED
      BY <1>1, <1>2, <2>1, <2>5, <3>3, <3>4, <3>6, StatementMoves, OneTriple
  <2>6. CASE p \notin Client
    <3>1. tx[p].mode # "auto"
      BY <1>1, <2>6 DEF GraphInv, ProcOK, Process
    <3>2. db' = db /\ tx'[p].view = w
      BY <2>1, <3>1, StatementRows, StatementMoves
    <3>3. ~raced => Unique(tx'[p].view.rows)
      BY <2>2, <2>3, <2>4, <3>2 DEF Unique, Active
    <3>4. ~raced => ReliesOn(p)'
      BY <1>2, <3>3, ReliesOnView
    <3> QED
      BY <1>1, <1>2, <2>1, <2>6, <3>2, <3>4, StatementMoves, SameRows
  <2> QED
    BY <2>5, <2>6
<1> QED
  BY <1>3, <1>4

\* The first statement of an upsert ends the current row, at its own instant,
LEMMA UpsertExpireHistory == ASSUME GraphInv, HistInv, NEW p \in Process, UpsertExpire(p) PROVE HistInv'
<1>1. proc[p].at = "expire" /\ now' = now /\ ahead' = ahead /\ ProcOK(p)
  BY DEF UpsertExpire, At, GraphInv
<1>2. tx[p].mode = "auto" /\ Seen(p) = db /\ IsDb(db) /\ proc[p].from \in Nat
  BY <1>1, ClientSees DEF GraphInv, ProcOK
<1> DEFINE w == [db EXCEPT !.rows = Expired(@, proc[p].t, proc[p].from)]
<1>3. CASE Statement(p, w) /\ proc' = [proc EXCEPT ![p].at = "renew"] /\ raced' = (raced \/ Amid(p, proc[p].t))
  <2>1. w.rows = Expired(db.rows, proc[p].t, proc[p].from)
    BY <1>2 DEF IsDb
  <2> HIDE DEF w
  <2>2. db'.rows = Expired(db.rows, proc[p].t, proc[p].from)
    BY <1>2, <1>3, <2>1, StatementRows
  <2>3. (\A q \in Process \ {p} : proc'[q] = proc[q])
        /\ proc'[p].at = "renew" /\ proc'[p].t = proc[p].t /\ proc'[p].from = proc[p].from
    BY <1>1, <1>3 DEF GraphInv, ProcOK
  <2>4. \A u : u # proc[p].t => Of(db'.rows, u) = Of(db.rows, u)
    BY <1>2, <2>2, ExpiredOthers DEF IsDb
  <2>5. ASSUME ~raced
        PROVE  /\ Unique(db'.rows) /\ Apart(Timely') /\ Active(db'.rows, proc[p].t) = {}
               /\ \A r \in Upserts(Timely') : r.to = proc[p].from \/ r \in Upserts(Timely)
               /\ \A r \in ahead' : r.to # Null
    <3>1. Unique(db.rows) /\ Apart(db.rows \ ahead) /\ (\A r \in ahead : r.to # Null) /\ proc[p].from # Null
      BY <1>1, <2>5, GraphAssumption DEF HistInv, ReliesOn, Timely
    <3>2. /\ Unique(db'.rows) /\ Apart(db'.rows \ ahead) /\ Active(db'.rows, proc[p].t) = {}
          /\ \A r \in Upserts(db'.rows \ ahead) : r.to = proc[p].from \/ r \in Upserts(db.rows \ ahead)
      <4> DEFINE rows == db.rows
                 when == proc[p].from
                 t == proc[p].t
      <4>1. rows \subseteq RowType /\ when \in Nat /\ db'.rows = Expired(rows, t, when)
        BY <1>2, <2>2 DEF IsDb
      <4>2. Unique(rows) /\ Apart(rows \ ahead) /\ when # Null
        BY <3>1
      <4> HIDE DEF rows, when, t
      <4>3. /\ Unique(Expired(rows, t, when)) /\ Apart(Expired(rows, t, when) \ ahead)
            /\ Active(Expired(rows, t, when), t) = {}
            /\ \A r \in Upserts(Expired(rows, t, when) \ ahead) : r.to = when \/ r \in Upserts(rows \ ahead)
        BY <3>1, <4>1, <4>2, ExpiredHistory
      <4> QED
        BY <4>1, <4>3 DEF rows, when, t
    <3> QED
      BY <1>1, <3>1, <3>2 DEF Timely
  <2>6. ASSUME ~raced PROVE \A r \in Upserts(Timely') : r.to <= now
    BY <1>1, <2>5, <2>6 DEF HistInv, ReliesOn
  <2>7. ASSUME ~raced PROVE ReliesOn(p)'
    <3>1. proc[p].from \in Clock /\ proc[p].from <= now /\ now \in Nat
      BY <1>1, <2>7, GraphAssumption DEF HistInv, ReliesOn, GraphInv
    <3>2. \A r \in Upserts(Timely') : r.t = proc[p].t => r.to <= proc[p].from
      BY <1>1, <1>2, <2>5, <2>7 DEF HistInv, ReliesOn
    <3>3. tx'[p].mode = "auto"
      BY <1>2, <1>3, StatementMoves
    <3>4. Active(Seen(p)'.rows, proc'[p].t) = {}
      BY <2>3, <2>5, <2>7, <3>3 DEF Seen
    <3> QED
      BY <1>1, <2>3, <3>1, <3>2, <3>3, <3>4 DEF ReliesOn, Active, Upserts
  <2> QED
    BY <1>1, <1>3, <2>3, <2>4, <2>5, <2>6, <2>7, StatementMoves, OneTriple
<1>4. CASE Fail(p) /\ db' = db /\ tx' = tx /\ raced' = raced
  BY <1>1, <1>4, AdvanceIs, SameView
<1> QED
  BY <1>3, <1>4 DEF UpsertExpire

\* and the second begins a version after all others.
LEMMA UpsertInsertHistory == ASSUME GraphInv, HistInv, NEW p \in Process, UpsertInsert(p) PROVE HistInv'
<1>1. proc[p].at = "renew" /\ now' = now /\ ahead' = ahead /\ proc' = [proc EXCEPT ![p] = Idle]
  BY DEF UpsertInsert, At
<1>2. tx[p].mode = "auto" /\ Seen(p) = db /\ IsDb(db)
  BY <1>1, ClientSees DEF GraphInv
<1>3. (\A q \in Process \ {p} : proc'[q] = proc[q]) /\ proc'[p] = Idle
  BY <1>1 DEF GraphInv
<1> DEFINE w == [db EXCEPT !.rows = @ \cup {Inserted(p)}]
<1>4. CASE Statement(p, w) /\ raced' = (raced \/ Amid(p, proc[p].t))
  <2>1. w.rows = db.rows \cup {Inserted(p)}
    BY <1>2 DEF IsDb
  <2> HIDE DEF w
  <2>2. db'.rows = db.rows \cup {Inserted(p)}
    BY <1>2, <1>4, <2>1, StatementRows
  <2>3. Inserted(p) \in RowType /\ Inserted(p).t = proc[p].t /\ Inserted(p).to = Null /\ Inserted(p).from = proc[p].from
    BY <1>1, InsertedRow
  <2>4. \A u : u # proc[p].t => Of(db'.rows, u) = Of(db.rows, u)
    BY <2>2, <2>3 DEF Of
  <2>5. ASSUME ~raced
        PROVE  /\ Unique(db'.rows) /\ Apart(Timely') /\ \A r \in ahead' : r.to # Null
               /\ \A r \in Upserts(Timely') : r = Inserted(p) \/ r \in Upserts(Timely)
    <3>1. /\ Unique(db.rows) /\ Apart(db.rows \ ahead) /\ Active(db.rows, proc[p].t) = {}
          /\ \A r \in ahead : r.to # Null
          /\ \A r \in Upserts(db.rows \ ahead) : r.t = proc[p].t => r.to <= proc[p].from
      BY <1>1, <1>2, <2>5 DEF HistInv, ReliesOn, Timely
    <3>2. /\ Unique(db'.rows) /\ Apart(db'.rows \ ahead)
          /\ \A r \in Upserts(db'.rows \ ahead) : r = Inserted(p) \/ r \in Upserts(db.rows \ ahead)
      <4> DEFINE rows == db.rows
                 row == Inserted(p)
      <4>1. /\ rows \subseteq RowType /\ Unique(rows) /\ Apart(rows \ ahead) /\ Active(rows, row.t) = {}
            /\ row \in RowType /\ row.to = Null /\ db'.rows = rows \cup {row}
            /\ \A r \in Upserts(rows \ ahead) : r.t = row.t => r.to <= row.from
        BY <1>2, <2>2, <2>3, <3>1 DEF IsDb
      <4> HIDE DEF rows, row
      <4>2. /\ Unique(rows \cup {row}) /\ Apart((rows \cup {row}) \ ahead)
            /\ \A r \in Upserts((rows \cup {row}) \ ahead) : r = row \/ r \in Upserts(rows \ ahead)
        BY <3>1, <4>1, InsertedHistory
      <4> QED
        BY <4>1, <4>2 DEF rows, row
    <3> QED
      BY <1>1, <3>1, <3>2 DEF Timely
  <2>6. ASSUME ~raced PROVE \A r \in Upserts(Timely') : r.to <= now
    <3>1. now \in Nat
      BY GraphAssumption DEF GraphInv
    <3> QED
      BY <2>3, <2>5, <2>6, <3>1 DEF HistInv, Null
  <2>7. ReliesOn(p)'
    BY <1>2, <1>3, <1>4, StatementMoves, ReliesOnView DEF Idle
  <2> QED
    BY <1>1, <1>3, <1>4, <2>4, <2>5, <2>6, <2>7, StatementMoves, OneTriple
<1>5. CASE db' = db /\ tx' = tx /\ raced' = raced
  BY <1>1, <1>3, <1>5, SameView DEF Idle
<1> QED
  BY <1>4, <1>5 DEF UpsertInsert

\* An invalidation ends the current row with the day that is not yet over, or
\* with the end that is given, which may be ahead.
LEMMA InvalidateHistory ==
    ASSUME GraphInv, HistInv, NEW p \in Process, NEW t \in Triple, NEW ended \in Ends, Invalidate(p, t, ended)
    PROVE  HistInv'
<1> DEFINE when == IF ended = Null THEN Today(now) ELSE ended
           w == [db EXCEPT !.rows = Expired(@, t, when)]
<1>1. p \in Client /\ Statement(p, w) /\ proc' = proc /\ now' = now /\ raced' = (raced \/ Amid(p, t)) /\ proc[p].at = "idle"
      /\ ahead' = ahead \cup {r \in db'.rows \ db.rows : r.to > now}
  BY DEF Invalidate, At
<1>2. tx[p].mode = "auto" /\ IsDb(db) /\ now \in Nat
  BY <1>1, ClientSees, GraphAssumption DEF GraphInv
<1>3. when \in Nat
  BY <1>2, GraphAssumption DEF Today
<1>4. w.rows = Expired(db.rows, t, when)
  BY <1>2 DEF IsDb
<1> HIDE DEF w, when
<1>5. db'.rows = Expired(db.rows, t, when)
  BY <1>1, <1>2, <1>4, StatementRows
<1>6. \A u : u # t => Of(db'.rows, u) = Of(db.rows, u)
  BY <1>2, <1>5, ExpiredOthers DEF IsDb
<1>9. \A r \in db'.rows : r.to \in Nat
  BY <1>1, InvalidateKeeps DEF GraphInv, IsDb, RowType
<1>7. ASSUME ~raced
      PROVE  /\ Unique(db'.rows) /\ Apart(Timely') /\ (\A r \in Upserts(Timely') : r.to <= now)
             /\ \A r \in ahead' : r.to # Null
  <2>1. Unique(db.rows) /\ Apart(db.rows \ ahead) /\ (\A r \in Upserts(db.rows \ ahead) : r.to <= now)
        /\ \A r \in ahead : r.to # Null
    BY <1>7 DEF HistInv, Timely
  <2>2. Unique(db'.rows) /\ Apart(db'.rows \ ahead)
    <3> DEFINE rows == db.rows
    <3>1. rows \subseteq RowType /\ db'.rows = Expired(rows, t, when) /\ Unique(rows) /\ Apart(rows \ ahead)
      BY <1>2, <1>5, <2>1 DEF IsDb
    <3> HIDE DEF rows
    <3>2. Unique(Expired(rows, t, when)) /\ Apart(Expired(rows, t, when) \ ahead)
      BY <1>3, <2>1, <3>1, ExpiredHistory
    <3> QED
      BY <3>1, <3>2
  <2>3. Timely' \subseteq db'.rows \ ahead
    BY <1>1 DEF Timely
  <2>4. Apart(Timely')
    BY <2>2, <2>3 DEF Apart, Upserts
  <2>5. ASSUME NEW r \in Upserts(Timely') PROVE r.to <= now
    <3>1. r \in db'.rows /\ r \notin ahead /\ r \notin {x \in db'.rows \ db.rows : x.to > now} /\ r.by = "upsert"
      BY <1>1, <2>5 DEF Upserts, Timely
    <3>2. CASE r \in db.rows
      BY <2>1, <3>1, <3>2 DEF Upserts
    <3>3. CASE r \notin db.rows
      BY <1>2, <1>9, <3>1, <3>3
    <3> QED
      BY <3>2, <3>3
  <2>6. \A r \in ahead' : r.to # Null
    BY <1>1, <1>2, <1>9, <2>1 DEF Null
  <2> QED
    BY <2>2, <2>4, <2>5, <2>6
<1>8. ReliesOn(p)'
  BY <1>1, <1>2, StatementMoves, ReliesOnView
<1> QED
  BY <1>1, <1>6, <1>7, <1>8, StatementMoves, OneTriple

LEMMA TickHistory == ASSUME GraphInv, HistInv, NEW t \in Clock, Tick(t) PROVE HistInv'
<1>1. db' = db /\ tx' = tx /\ proc' = proc /\ raced' = raced /\ ahead' = ahead /\ now' = t /\ t > now /\ now \in Nat /\ t \in Nat
  BY GraphAssumption DEF Tick, GraphInv
<1> SUFFICES ASSUME ~raced PROVE HistInv'
  BY <1>1 DEF HistInv
<1>2. \A r \in db.rows : r.to \in Nat
  BY DEF GraphInv, IsDb, RowType
<1>3. Timely' = Timely /\ \A r \in Upserts(Timely) : r.to <= now'
  BY <1>1, <1>2 DEF HistInv, Upserts, Timely
<1>4. ASSUME NEW q \in Process PROVE ReliesOn(q)'
  <2>1. ReliesOn(q) /\ proc[q].from \in Nat
    BY DEF HistInv, GraphInv, ProcOK
  <2>2. Seen(q)' = Seen(q)
    BY <1>1 DEF Seen
  <2>3. proc[q].at \in {"expire", "renew"} => proc[q].from <= now'
    BY <1>1, <2>1 DEF ReliesOn
  <2> QED
    BY <1>1, <1>3, <2>1, <2>2, <2>3 DEF ReliesOn, Unique, Active, Upserts
<1> QED
  BY <1>1, <1>3, <1>4 DEF HistInv, Unique, Apart, Upserts, Precedes

LEMMA HistStep == GraphInv /\ HistInv /\ [Next]_vars => HistInv'
<1> SUFFICES ASSUME GraphInv, HistInv, [Next]_vars PROVE HistInv'
  OBVIOUS
<1>1. CASE UNCHANGED vars
  <2>1. \A q \in Process : Seen(q)' = Seen(q)
    BY <1>1 DEF vars, Seen
  <2> QED
    BY <1>1, <2>1 DEF vars, HistInv, ReliesOn, Unique, Apart, Upserts, Precedes, Active, Timely
<1> QED
  BY <1>1, QuietSteps, StartSteps, EndBatchHistory, AddInsertHistory, UpsertExpireHistory, UpsertInsertHistory,
     InvalidateHistory, TickHistory DEF Next

LEMMA HistImplies == GraphInv /\ HistInv => SequentialHistory
<1> SUFFICES ASSUME GraphInv, HistInv, ~raced, NEW t \in Triple
             PROVE  /\ Cardinality(Active(db.rows, t)) <= 1
                    /\ \A c \in Clock :
                         LET found == {r \in db.rows \ ahead : r.t = t /\ r.by = "upsert" /\ ValidAt(r, c)}
                         IN  Cardinality(found) <= 1 \/ \E r \in found : r.to = c
  BY DEF SequentialHistory
<1>1. Unique(db.rows) /\ Apart(db.rows \ ahead) /\ \A r \in db.rows : r.to \in Nat /\ r.from \in Nat
  BY DEF HistInv, GraphInv, IsDb, RowType, Timely
<1>2. ASSUME NEW S, \A r, s \in S : r = s PROVE Cardinality(S) <= 1
  <2>1. CASE S = {}
    BY <2>1, FS_EmptySet
  <2>2. CASE S # {}
    <3>1. PICK x \in S : TRUE
      BY <2>2
    <3>2. S = {x}
      BY <1>2, <3>1
    <3>3. Cardinality({x}) = 1
      BY FS_Singleton
    <3> QED
      BY <3>2, <3>3
  <2> QED
    BY <2>1, <2>2
<1>3. Cardinality(Active(db.rows, t)) <= 1
  BY <1>1, <1>2 DEF Active, Unique
<1>4. ASSUME NEW c \in Clock
      PROVE  LET found == {r \in db.rows \ ahead : r.t = t /\ r.by = "upsert" /\ ValidAt(r, c)}
             IN  Cardinality(found) <= 1 \/ \E r \in found : r.to = c
  <2> DEFINE found == {r \in db.rows \ ahead : r.t = t /\ r.by = "upsert" /\ ValidAt(r, c)}
  <2>1. ASSUME \A r \in found : r.to # c, NEW r \in found, NEW s \in found PROVE r = s
    <3>1. c \in Nat
      BY GraphAssumption
    <3>2. r = s \/ Precedes(r, s) \/ Precedes(s, r)
      BY <1>1 DEF Apart, Upserts
    <3>3. r.from <= c /\ s.from <= c /\ (r.to = Null \/ r.to >= c) /\ (s.to = Null \/ s.to >= c)
      BY DEF ValidAt
    <3> QED
      BY <1>1, <2>1, <3>1, <3>2, <3>3 DEF Precedes
  <2> QED
    BY <1>2, <2>1
<1> QED
  BY <1>3, <1>4

\* As long as no two processes write a triple in each other's midst, it has one
\* current row at most, and its upserted versions follow one another in time:
\* a query as of an instant that ends no version finds one at most, but for
\* those that were ended ahead of time.
THEOREM GraphSequentialHistory == Spec => []SequentialHistory
<1>1. Init => HistInv
  BY DEF Init, HistInv, Empty, Unique, Apart, Upserts, ReliesOn, Autocommit, Idle, Timely
<1> QED
  BY <1>1, HistStep, HistImplies, GraphInvHolds, PTL DEF Spec

----------------------------------------------------------------------------
(* The tools of the memory server. *)

\* The tools only read: the graph with its readers behaves as the graph, and
\* what is proved of the graph holds beside any number of readers.
THEOREM ToolsOnlyRead == ToolSpec => Spec
<1>1. ToolInit => Init
  BY DEF ToolInit
<1>2. [ToolNext]_allVars => [Next]_vars
  BY DEF ToolNext, allVars, Ask, LookUp, ReadFacts, Count, Answer
<1> QED
  BY <1>1, <1>2, PTL DEF ToolSpec, Spec
----------------------------------------------------------------------------
(* What get_kg_stats counts.  Rows are told apart by their primary key, so  *)
(* that no statement makes two into one, and their number never decreases.  *)

EntityTypes == {"absent", "unknown", "concept", "project", "person"}
OpType == [op : {"entity", "triple"}, name : Names, type : EntityTypes, t : Triple \cup {<<>>}]

Keyed(rows) == \A r, s \in rows : r.t = s.t /\ r.id = s.id => r = s
Countable(v) ==
    /\ IsFiniteSet(v.rows) /\ Keyed(v.rows)
    /\ \A n \in Names : v.types[n] \in EntityTypes

\* What is to be ingested, while an operation of a batch is under way at least that.
Busied == {"entity", "names", "object", "check", "insert"}
TodoOK(p) ==
    /\ proc[p].todo \in Seq(Seq(OpType))
    /\ p \in Batch /\ proc[p].at \in Busied => proc[p].todo # <<>> /\ Head(proc[p].todo) # <<>>

CountInv ==
    /\ Countable(db)
    /\ \A p \in Process : Countable(tx[p].view) /\ TodoOK(p)

\* The rows of v live on in w, expired ones as they are.
LivesOn(v, w) ==
    \A r \in v.rows : \E s \in w.rows : s.t = r.t /\ s.id = r.id /\ (r.to # Null => s = r)

\* Rows that live on are at least as many, and so are the expired ones.
LEMMA MoreRows ==
    ASSUME NEW v, NEW w, Keyed(v.rows), IsFiniteSet(v.rows), IsFiniteSet(w.rows), LivesOn(v, w)
    PROVE  /\ Cardinality(v.rows) \in Nat /\ Cardinality(w.rows) \in Nat
           /\ Cardinality(v.rows) <= Cardinality(w.rows)
           /\ Cardinality({r \in v.rows : r.to # Null}) \in Nat
           /\ Cardinality({r \in w.rows : r.to # Null}) \in Nat
           /\ Cardinality({r \in v.rows : r.to # Null}) <= Cardinality({r \in w.rows : r.to # Null})
<1> DEFINE f == [r \in v.rows |-> CHOOSE s \in w.rows : s.t = r.t /\ s.id = r.id /\ (r.to # Null => s = r)]
           old == {r \in v.rows : r.to # Null}
           new == {r \in w.rows : r.to # Null}
<1>1. \A r \in v.rows : f[r] \in w.rows /\ f[r].t = r.t /\ f[r].id = r.id
  BY DEF LivesOn
<1>2. f \in [v.rows -> w.rows]
  BY <1>1
<1> HIDE DEF f
<1>3. ASSUME NEW r \in v.rows, NEW s \in v.rows, f[r] = f[s] PROVE r = s
  <2>1. r.t = s.t /\ r.id = s.id
    BY <1>1, <1>3
  <2> QED
    BY <2>1 DEF Keyed
<1>4. f \in Injection(v.rows, w.rows)
  <2>1. DOMAIN f = v.rows
    BY <1>2
  <2> QED
    BY <1>2, <1>3, <2>1 DEF Injection, IsInjective
<1>5. Cardinality(v.rows) <= Cardinality(w.rows)
  BY <1>4, FS_Injection
<1>6. old \in SUBSET new /\ new \in SUBSET w.rows
  BY DEF LivesOn
<1>7. IsFiniteSet(new)
  BY <1>6, FS_Subset
<1>8. IsFiniteSet(old) /\ Cardinality(old) <= Cardinality(new)
  BY <1>6, <1>7, FS_Subset
<1> QED
  BY <1>5, <1>7, <1>8, FS_CardinalityType

LEMMA LivesOnItself == ASSUME NEW v PROVE LivesOn(v, v)
  BY DEF LivesOn

\* Expiring rows keeps their keys.
LEMMA ExpiredCounts ==
    ASSUME NEW v, IsDb(v), Countable(v), NEW t, NEW when, NEW w,
           w.types = v.types, w.rows = Expired(v.rows, t, when)
    PROVE  Countable(w) /\ LivesOn(v, w)
<1> DEFINE e(r) == IF r.t = t /\ r.to = Null THEN [r EXCEPT !.to = when] ELSE r
           f == [r \in v.rows |-> e(r)]
<1>1. \A r \in v.rows : r = [t |-> r.t, id |-> r.id, from |-> r.from, to |-> r.to, by |-> r.by]
  BY DEF IsDb, RowType
<1>2. \A r \in v.rows : e(r).t = r.t /\ e(r).id = r.id /\ (r.to # Null => e(r) = r)
  BY <1>1
<1>3. w.rows = {e(r) : r \in v.rows}
  BY DEF Expired
<1> HIDE DEF e
<1>4. f \in Surjection(v.rows, w.rows)
  BY <1>3 DEF Surjection
<1>5. IsFiniteSet(w.rows)
  BY <1>4, FS_Surjection DEF Countable
<1>6. Keyed(w.rows)
  BY <1>2, <1>3 DEF Countable, Keyed
<1>7. LivesOn(v, w)
  BY <1>2, <1>3 DEF LivesOn
<1> QED
  BY <1>5, <1>6, <1>7 DEF Countable

\* So does inserting one whose key is not taken.
LEMMA InsertedCounts ==
    ASSUME NEW v, Countable(v), NEW row, \A r \in v.rows : ~(r.t = row.t /\ r.id = row.id), NEW w,
           w.types = v.types, w.rows = v.rows \cup {row}
    PROVE  Countable(w) /\ LivesOn(v, w)
<1>1. IsFiniteSet(w.rows)
  BY FS_AddElement DEF Countable
<1> QED
  BY <1>1 DEF Countable, Keyed, LivesOn

\* What a statement writes is counted by itself and by others.
LEMMA StatementCounts ==
    ASSUME GraphInv, CountInv, NEW p \in Process, NEW w, Statement(p, w), Countable(w), LivesOn(Seen(p), w)
    PROVE  Countable(db') /\ LivesOn(db, db') /\ \A q \in Process : Countable(tx'[q].view)
<1>1. \A q \in Process : Countable(tx[q].view)
  BY DEF CountInv
<1>2. (\A q \in Process \ {p} : tx'[q].view = tx[q].view) /\ (tx[p].mode # "auto" => tx'[p].view = w)
  BY StatementMoves
<1>3. CASE tx[p].mode = "auto"
  <2>1. db' = w /\ Seen(p) = db /\ tx' = Outdate(tx, p, w)
    BY <1>3, SeenIsDb DEF Statement
  <2>2. tx'[p] = tx[p]
    BY <2>1 DEF Outdate
  <2> QED
    BY <1>1, <1>2, <2>1, <2>2
<1>4. CASE tx[p].mode # "auto"
  <2>1. db' = db
    BY <1>4, StatementRows
  <2> QED
    BY <1>1, <1>2, <1>4, <2>1, LivesOnItself DEF CountInv
<1> QED
  BY <1>3, <1>4

\* What a process sees can be counted.
LEMMA SeenCounts == ASSUME GraphInv, CountInv, NEW p \in Process PROVE Countable(Seen(p))
  BY DEF CountInv, Seen

LEMMA SameRowsCount ==
    ASSUME NEW v, Countable(v), NEW w, w.rows = v.rows, \A n \in Names : w.types[n] \in EntityTypes
    PROVE  Countable(w) /\ LivesOn(v, w)
  BY DEF Countable, LivesOn

LEMMA NothingCounts == Countable(Empty)
  BY FS_EmptySet DEF Countable, Empty, Keyed, EntityTypes

\* The operations of a record.
LEMMA OpsTyped ==
    ASSUME NEW p \in Batch, NEW i \in DOMAIN Records[p]
    PROVE  Ops(Records[p][i]) \in Seq(OpType)
<1> DEFINE rec == Records[p][i]
           E == {e \in Extracted : e.sure => e.type # "uncertain"}
           P == {k \in DOMAIN rec.entities : rec.entities[k].sure}
           Q == {k \in DOMAIN rec.facts : rec.facts[k].kind = "triple"}
           sure == Subsequence(rec.entities, P)
           full == Subsequence(rec.facts, Q)
           first == [k \in DOMAIN sure |-> [op |-> "entity", name |-> sure[k].name, type |-> sure[k].type, t |-> <<>>]]
           second == [k \in DOMAIN full |-> [op |-> "triple", name |-> full[k].t[1], type |-> "unknown", t |-> full[k].t]]
<1>1. rec.entities \in Seq(E) /\ rec.facts \in Seq(Fact)
  <2>1. Records[p] \in Seq([entities : Seq(E), facts : Seq(Fact)])
    BY RecordAssumption
  <2>2. rec \in [entities : Seq(E), facts : Seq(Fact)]
    BY <2>1, ElementOfSeq, LenProperties
  <2> QED
    BY <2>2
<1>2. Ops(rec) = first \o second
  BY DEF Ops, Filter
<1>3. first \in Seq(OpType)
  <2> DEFINE S == {e \in Extracted : e.sure /\ e.type # "uncertain"}
  <2>1. P \in SUBSET (1..Len(rec.entities)) /\ Len(rec.entities) \in Nat
    BY <1>1, LenProperties
  <2>2. \A k \in P : rec.entities[k] \in S
    BY <1>1, <2>1
  <2> HIDE DEF P, S
  <2>3. sure \in Seq(S) /\ DOMAIN sure = 1..Len(sure) /\ Len(sure) \in Nat
    BY <2>1, <2>2, SubsequenceTyped, LenProperties
  <2> HIDE DEF sure
  <2>4. \A k \in 1..Len(sure) : sure[k] \in Extracted /\ sure[k].type # "uncertain"
    BY <2>3 DEF S
  <2>5. \A k \in 1..Len(sure) : first[k] \in OpType
    BY <2>3, <2>4 DEF OpType, Extracted, EntityTypes
  <2>6. first \in [1..Len(sure) -> OpType]
    BY <2>3, <2>5
  <2> QED
    BY <2>3, <2>6
<1>4. second \in Seq(OpType)
  <2> DEFINE S == {x \in Fact : x.t \in Triple}
  <2>1. Q \in SUBSET (1..Len(rec.facts)) /\ Len(rec.facts) \in Nat
    BY <1>1, LenProperties
  <2>2. \A k \in Q : rec.facts[k] \in S
    BY <1>1, <2>1 DEF Fact
  <2> HIDE DEF Q, S
  <2>3. full \in Seq(S) /\ DOMAIN full = 1..Len(full) /\ Len(full) \in Nat
    BY <2>1, <2>2, SubsequenceTyped, LenProperties
  <2> HIDE DEF full
  <2>4. \A k \in 1..Len(full) : full[k].t \in Triple
    BY <2>3 DEF S
  <2>5. \A k \in 1..Len(full) : second[k] \in OpType
    BY <2>3, <2>4, GraphAssumption DEF OpType, EntityTypes
  <2>6. second \in [1..Len(full) -> OpType]
    BY <2>3, <2>5
  <2> QED
    BY <2>3, <2>6
<1> HIDE DEF first, second
<1> QED
  BY <1>2, <1>3, <1>4, ConcatProperties

\* Going on with what is to be ingested.
LEMMA TodoShorter ==
    ASSUME NEW todo \in Seq(Seq(OpType)), todo # <<>>
    PROVE  /\ Tail(todo) \in Seq(Seq(OpType))
           /\ Head(todo) # <<>> => <<Tail(Head(todo))>> \o Tail(todo) \in Seq(Seq(OpType))
<1>1. Tail(todo) \in Seq(Seq(OpType)) /\ Head(todo) \in Seq(OpType)
  BY HeadTailProperties
<1>2. ASSUME Head(todo) # <<>> PROVE <<Tail(Head(todo))>> \o Tail(todo) \in Seq(Seq(OpType))
  <2>1. Tail(Head(todo)) \in Seq(OpType)
    BY <1>1, <1>2, HeadTailProperties
  <2>2. <<Tail(Head(todo))>> \in Seq(Seq(OpType))
    BY <2>1
  <2> QED
    BY <1>1, <2>2, ConcatProperties
<1> QED
  BY <1>1, <1>2

LEMMA TodoAdvance ==
    ASSUME GraphInv, CountInv, NEW p \in Process, Advance(p) \/ Fail(p), proc[p].at \in Busied \/ p \in Client
    PROVE  \A q \in Process : TodoOK(q)'
<1>1. TodoOK(p)
  BY DEF CountInv
<1> DEFINE Next1(todo) == [at |-> "next", todo |-> todo, t |-> <<>>, from |-> Null, old |-> "absent"]
<1>2. \/ p \in Client /\ proc' = [proc EXCEPT ![p] = Idle]
      \/ p \notin Client /\ proc' = [proc EXCEPT ![p] = Next1(<<Tail(Head(proc[p].todo))>> \o Tail(proc[p].todo))]
      \/ p \notin Client /\ proc' = [proc EXCEPT ![p] = Next1(Tail(proc[p].todo))]
  BY NextShape DEF Advance, Fail
<1>3. \A q \in Process \ {p} : proc'[q] = proc[q]
  BY <1>2 DEF GraphInv
<1>4. TodoOK(p)'
  <2>1. CASE p \in Client
    <3>1. proc'[p] = Idle
      BY <1>2, <2>1 DEF GraphInv
    <3> QED
      BY <2>1, <3>1, GraphAssumption DEF TodoOK, Idle
  <2>2. CASE p \notin Client
    <3>1. proc[p].todo \in Seq(Seq(OpType)) /\ proc[p].todo # <<>> /\ Head(proc[p].todo) # <<>>
      BY <1>1, <2>2 DEF TodoOK, Process
    <3>2. proc'[p] = Next1(<<Tail(Head(proc[p].todo))>> \o Tail(proc[p].todo)) \/ proc'[p] = Next1(Tail(proc[p].todo))
      BY <1>2, <2>2 DEF GraphInv
    <3>3. <<Tail(Head(proc[p].todo))>> \o Tail(proc[p].todo) \in Seq(Seq(OpType)) /\ Tail(proc[p].todo) \in Seq(Seq(OpType))
      BY <3>1, TodoShorter
    <3>4. PICK todo \in Seq(Seq(OpType)) : proc'[p] = Next1(todo)
      BY <3>2, <3>3
    <3> QED
      BY <2>2, <3>4 DEF TodoOK, Busied
  <2> QED
    BY <2>1, <2>2
<1> QED
  BY <1>3, <1>4 DEF CountInv, TodoOK

\* What is to be ingested, step by step.
LEMMA TodoStep ==
    ASSUME GraphInv, CountInv, NEW p \in Process,
           \/ Begin(p) \/ NextRecord(p) \/ EntityRead(p) \/ EntityWrite(p) \/ Refused(p) \/ EndBatch(p)
           \/ AddSubject(p) \/ AddObject(p) \/ AddCheck(p) \/ AddInsert(p)
           \/ UpsertExpire(p) \/ UpsertInsert(p) \/ Kill(p)
           \/ \E t \in Triple : \/ StartUpsert(p, t) \/ \E ended \in Ends : Invalidate(p, t, ended)
                                \/ \E from \in Froms : StartAdd(p, t, from)
    PROVE  \A q \in Process : TodoOK(q)'
<1>1. TodoOK(p) /\ ProcOK(p)
  BY DEF CountInv, GraphInv
<1>2. ASSUME \A q \in Process \ {p} : proc'[q] = proc[q], TodoOK(p)' PROVE \A q \in Process : TodoOK(q)'
  BY <1>2 DEF CountInv, TodoOK
<1>3. CASE Begin(p)
  <2>1. proc' = [proc EXCEPT ![p].at = "next", ![p].todo = [i \in DOMAIN Records[p] |-> Ops(Records[p][i])]] /\ p \in Batch
    BY <1>3 DEF Begin
  <2>2. [i \in DOMAIN Records[p] |-> Ops(Records[p][i])] \in Seq(Seq(OpType))
    <3>1. DOMAIN Records[p] = 1..Len(Records[p]) /\ Len(Records[p]) \in Nat
      BY <2>1, RecordAssumption, LenProperties
    <3> DEFINE ops(i) == Ops(Records[p][i])
    <3>2. \A i \in DOMAIN Records[p] : ops(i) \in Seq(OpType)
      BY <2>1, OpsTyped
    <3> HIDE DEF ops
    <3>3. [i \in DOMAIN Records[p] |-> ops(i)] \in [1..Len(Records[p]) -> Seq(OpType)]
      BY <3>1, <3>2
    <3>4. [i \in DOMAIN Records[p] |-> ops(i)] \in Seq(Seq(OpType))
      BY <3>1, <3>3
    <3> QED
      BY <3>4 DEF ops
  <2>3. PICK todo \in Seq(Seq(OpType)) : proc' = [proc EXCEPT ![p].at = "next", ![p].todo = todo]
    BY <2>1, <2>2
  <2>4. proc'[p] = [at |-> "next", todo |-> todo, t |-> proc[p].t, from |-> proc[p].from, old |-> proc[p].old]
    BY <1>1, <2>3 DEF GraphInv, ProcOK
  <2> QED
    BY <1>2, <2>3, <2>4 DEF GraphInv, TodoOK, Busied
<1>4. CASE NextRecord(p)
  <2>1. proc' = [proc EXCEPT ![p].todo = Tail(@)] /\ proc[p].todo # <<>> /\ proc[p].at = "next"
    BY <1>4 DEF NextRecord, At
  <2>2. proc'[p].todo = Tail(proc[p].todo) /\ proc'[p].at = "next"
    BY <1>1, <2>1 DEF GraphInv, ProcOK
  <2>3. proc'[p].todo \in Seq(Seq(OpType))
    BY <1>1, <2>1, <2>2, TodoShorter DEF TodoOK
  <2> QED
    BY <1>2, <2>1, <2>2, <2>3 DEF GraphInv, TodoOK, Busied
<1>5. CASE EntityRead(p)
  <2>1. PICK old : proc' = [proc EXCEPT ![p].at = "entity", ![p].old = old]
    BY <1>5 DEF EntityRead
  <2>2. proc[p].todo # <<>> /\ Head(proc[p].todo) # <<>>
    BY <1>5 DEF EntityRead
  <2>3. proc'[p].todo = proc[p].todo
    BY <1>1, <2>1 DEF GraphInv, ProcOK
  <2> QED
    BY <1>1, <1>2, <2>1, <2>2, <2>3 DEF GraphInv, TodoOK
<1>6. ASSUME (Advance(p) \/ Fail(p)), proc[p].at \in Busied \/ p \in Client PROVE \A q \in Process : TodoOK(q)'
  BY <1>6, TodoAdvance
<1>7. CASE EntityWrite(p) \/ Refused(p)
  BY <1>6, <1>7 DEF EntityWrite, Refused, At, Busied
<1>8. ASSUME NEW new, proc' = [proc EXCEPT ![p].at = new], proc[p].at \in Busied \/ p \in Client
      PROVE  \A q \in Process : TodoOK(q)'
  <2>1. proc'[p].todo = proc[p].todo
    BY <1>1, <1>8 DEF GraphInv, ProcOK
  <2>2. p \in Batch => p \notin Client
    BY GraphAssumption
  <2> QED
    BY <1>1, <1>2, <1>8, <2>1, <2>2 DEF GraphInv, TodoOK
<1>9. CASE AddSubject(p) \/ AddObject(p)
  <2>1. PICK then : proc' = [proc EXCEPT ![p].at = then]
    BY <1>9, AddNameIs
  <2>2. proc[p].at \in Busied
    BY <1>9, AddNameIs DEF Busied
  <2> QED
    BY <1>8, <2>1, <2>2
<1>10. CASE AddCheck(p)
  BY <1>6, <1>8, <1>10 DEF AddCheck, At, Busied
<1>11. CASE AddInsert(p)
  BY <1>6, <1>11 DEF AddInsert, At, Busied
<1>12. CASE UpsertExpire(p)
  <2>1. p \in Client
    BY <1>1, <1>12 DEF UpsertExpire, At, ProcOK, Process
  <2> QED
    BY <1>6, <1>8, <1>12, <2>1 DEF UpsertExpire
<1>18. <<>> \in Seq(Seq(OpType))
  BY EmptySeq
<1>19. p \in Client => p \notin Batch
  BY GraphAssumption
<1>13. ASSUME proc' = [proc EXCEPT ![p] = Idle] PROVE \A q \in Process : TodoOK(q)'
  <2>1. proc'[p].todo = <<>> /\ proc'[p].at = "idle"
    BY <1>13 DEF GraphInv, Idle
  <2>2. \A q \in Process \ {p} : proc'[q] = proc[q]
    BY <1>13 DEF GraphInv
  <2>3. TodoOK(p)'
    BY <1>18, <2>1 DEF TodoOK, Busied
  <2> QED
    BY <1>2, <2>2, <2>3
<1>14. CASE EndBatch(p) \/ UpsertInsert(p) \/ Kill(p)
  BY <1>13, <1>14 DEF EndBatch, UpsertInsert, Kill
<1>15. ASSUME NEW t \in Triple, NEW ended \in Ends, Invalidate(p, t, ended) PROVE \A q \in Process : TodoOK(q)'
  BY <1>15 DEF Invalidate, CountInv, TodoOK
<1>16. ASSUME NEW t \in Triple, StartUpsert(p, t) PROVE \A q \in Process : TodoOK(q)'
  <2>1. p \in Client /\ proc' = [proc EXCEPT ![p] = [Idle EXCEPT !.at = "expire", !.t = t, !.from = now]]
    BY <1>16 DEF StartUpsert
  <2>2. proc'[p].todo = <<>>
    BY <2>1 DEF GraphInv, Idle
  <2>3. \A q \in Process \ {p} : proc'[q] = proc[q]
    BY <2>1 DEF GraphInv
  <2>4. TodoOK(p)'
    BY <1>18, <1>19, <2>1, <2>2 DEF TodoOK
  <2> QED
    BY <1>2, <2>3, <2>4
<1>17. ASSUME NEW t \in Triple, NEW from \in Froms, StartAdd(p, t, from) PROVE \A q \in Process : TodoOK(q)'
  <2>1. CASE p \in Client /\ proc' = [proc EXCEPT ![p] = [Idle EXCEPT !.at = "names", !.t = t, !.from = from]]
    <3>1. proc'[p].todo = <<>>
      BY <2>1 DEF GraphInv, Idle
    <3>2. \A q \in Process \ {p} : proc'[q] = proc[q]
      BY <2>1 DEF GraphInv
    <3>3. TodoOK(p)'
      BY <1>18, <1>19, <2>1, <3>1 DEF TodoOK
    <3> QED
      BY <1>2, <3>2, <3>3
  <2>2. CASE /\ proc[p].todo # <<>> /\ Head(proc[p].todo) # <<>>
             /\ proc' = [proc EXCEPT ![p].at = "names", ![p].t = t]
    <3>1. proc'[p].todo = proc[p].todo
      BY <1>1, <2>2 DEF GraphInv, ProcOK
    <3> QED
      BY <1>1, <1>2, <2>2, <3>1 DEF GraphInv, TodoOK
  <2> QED
    BY <1>17, <2>1, <2>2 DEF StartAdd
<1> QED
  BY <1>3, <1>4, <1>5, <1>7, <1>9, <1>10, <1>11, <1>12, <1>14, <1>15, <1>16, <1>17
\* What the database and the views hold, step by step.
LEMMA RowsStep ==
    ASSUME GraphInv, CountInv, NEW p \in Process,
           \/ Begin(p) \/ NextRecord(p) \/ EntityRead(p) \/ EntityWrite(p) \/ Refused(p) \/ EndBatch(p)
           \/ AddSubject(p) \/ AddObject(p) \/ AddCheck(p) \/ AddInsert(p)
           \/ UpsertExpire(p) \/ UpsertInsert(p) \/ Kill(p)
           \/ \E t \in Triple : \/ StartUpsert(p, t) \/ \E ended \in Ends : Invalidate(p, t, ended)
                                \/ \E from \in Froms : StartAdd(p, t, from)
    PROVE  Countable(db)' /\ LivesOn(db, db') /\ \A q \in Process : Countable(tx[q].view)'
<1> DEFINE Goal == Countable(db') /\ LivesOn(db, db') /\ \A q \in Process : Countable(tx'[q].view)
<1>1. TodoOK(p) /\ ProcOK(p) /\ TxOK(p) /\ Countable(db) /\ (\A q \in Process : Countable(tx[q].view)) /\ IsDb(db)
      /\ Countable(Seen(p))
  BY SeenCounts DEF CountInv, GraphInv
<1>2. ASSUME db' = db, \A q \in Process : tx'[q].view = tx[q].view \/ tx'[q].view = db \/ tx'[q].view = Empty
      PROVE  Goal
  BY <1>1, <1>2, LivesOnItself, NothingCounts
<1>3. ASSUME NEW w, Statement(p, w), Countable(w), LivesOn(Seen(p), w) PROVE Goal
  BY <1>3, StatementCounts
<1>4. CASE UNCHANGED <<db, tx>>
  BY <1>2, <1>4
<1>5. CASE Begin(p) \/ Kill(p)
  <2>1. db' = db /\ (tx' = [tx EXCEPT ![p].mode = "begun"] \/ tx' = [tx EXCEPT ![p] = Autocommit])
    BY <1>5 DEF Begin, Kill
  <2>2. \A q \in Process \ {p} : tx'[q] = tx[q]
    BY <2>1 DEF GraphInv
  <2>3. tx'[p].view = tx[p].view \/ tx'[p].view = Empty
    BY <1>1, <2>1 DEF GraphInv, TxOK, Autocommit
  <2> QED
    BY <1>2, <2>1, <2>2, <2>3
<1>6. CASE EntityRead(p) \/ AddCheck(p)
  <2>1. db' = db /\ Select(p)
    BY <1>6 DEF EntityRead, AddCheck
  <2>2. \A q \in Process : tx'[q].view = tx[q].view \/ tx'[q].view = db
    BY <2>1 DEF Select, GraphInv
  <2> QED
    BY <1>2, <2>1, <2>2
<1>7. CASE EntityWrite(p)
  <2> DEFINE e == Head(proc[p].todo)[1]
             w == [Seen(p) EXCEPT !.types[e.name] = ResolvedType(proc[p].old, e.type)]
  <2>1. Statement(p, w) /\ proc[p].at = "entity"
    BY <1>7 DEF EntityWrite, At
  <2>2. IsDb(Seen(p))
    BY SeenIsDb
  <2>3. e.name \in Names /\ e.type \in EntityTypes
    <3>1. p \in Batch
      BY <1>1, <2>1 DEF ProcOK, Process
    <3>2. Head(proc[p].todo) \in Seq(OpType) /\ Head(proc[p].todo) # <<>>
      BY <1>1, <2>1, <3>1, HeadTailProperties DEF TodoOK, Busied
    <3>3. 1 \in 1..Len(Head(proc[p].todo))
      BY <3>2, EmptySeq, LenProperties
    <3>4. e \in OpType
      BY <3>2, <3>3, ElementOfSeq
    <3> HIDE DEF e
    <3> QED
      BY <3>4 DEF OpType
  <2>4. proc[p].old \in EntityTypes
    <3>1. proc[p].old = Seen(p).types[e.name]
      BY <1>1, <2>1 DEF ProcOK, Seen
    <3> QED
      BY <1>1, <2>3, <3>1 DEF Countable
  <2>5. ResolvedType(proc[p].old, e.type) \in EntityTypes
    BY <2>3, <2>4 DEF ResolvedType
  <2>6. w = [types |-> [Seen(p).types EXCEPT ![e.name] = ResolvedType(proc[p].old, e.type)], rows |-> Seen(p).rows]
    BY <2>2 DEF IsDb
  <2> HIDE DEF e
  <2>7. w.rows = Seen(p).rows /\ \A n \in Names : w.types[n] \in EntityTypes
    BY <1>1, <2>2, <2>5, <2>6 DEF IsDb, Countable
  <2> HIDE DEF w
  <2> QED
    BY <1>1, <1>3, <2>1, <2>7, SameRowsCount
<1>8. CASE AddSubject(p) \/ AddObject(p)
  <2>1. PICK w : /\ Statement(p, w) /\ w.rows = Seen(p).rows
                 /\ \A n \in Names : w.types[n] = Seen(p).types[n] \/ w.types[n] = "unknown"
    BY <1>8, AddNameIs
  <2>2. \A n \in Names : w.types[n] \in EntityTypes
    BY <1>1, <2>1 DEF Countable, EntityTypes
  <2> QED
    BY <1>1, <1>3, <2>1, <2>2, SameRowsCount
<1>9. ASSUME ~Taken(p), Statement(p, [Seen(p) EXCEPT !.rows = @ \cup {Inserted(p)}]) PROVE Goal
  <2> DEFINE w == [Seen(p) EXCEPT !.rows = @ \cup {Inserted(p)}]
  <2>1. IsDb(Seen(p)) /\ Inserted(p).t = proc[p].t
    BY SeenIsDb DEF Inserted, Row
  <2>2. w.types = Seen(p).types /\ w.rows = Seen(p).rows \cup {Inserted(p)}
    BY <2>1 DEF IsDb
  <2>3. \A r \in Seen(p).rows : ~(r.t = Inserted(p).t /\ r.id = Inserted(p).id)
    BY <1>9, <2>1 DEF Taken
  <2> HIDE DEF w
  <2>4. Countable(w) /\ LivesOn(Seen(p), w)
    BY <1>1, <2>2, <2>3, InsertedCounts
  <2> QED
    BY <1>3, <1>9, <2>4 DEF w
<1>10. CASE AddInsert(p)
  BY <1>4, <1>9, <1>10 DEF AddInsert
<1>11. ASSUME proc[p].at \in {"expire", "renew"} \/ p \in Client PROVE Seen(p) = db
  <2>1. p \in Client
    BY <1>1, <1>11 DEF ProcOK, Process
  <2> QED
    BY <1>1, <2>1, SeenIsDb DEF ProcOK
<1>12. ASSUME Seen(p) = db, NEW t, NEW when, Statement(p, [db EXCEPT !.rows = Expired(@, t, when)]) PROVE Goal
  <2> DEFINE w == [db EXCEPT !.rows = Expired(@, t, when)]
  <2>1. w.types = db.types /\ w.rows = Expired(db.rows, t, when)
    BY <1>1 DEF IsDb
  <2> HIDE DEF w
  <2>2. Countable(w) /\ LivesOn(Seen(p), w)
    BY <1>1, <1>12, <2>1, ExpiredCounts
  <2> QED
    BY <1>3, <1>12, <2>2 DEF w
<1>13. CASE UpsertExpire(p)
  BY <1>4, <1>11, <1>12, <1>13 DEF UpsertExpire, At
<1>14. CASE UpsertInsert(p)
  <2>1. Seen(p) = db
    BY <1>11, <1>14 DEF UpsertInsert, At
  <2> QED
    BY <1>4, <1>9, <1>14, <2>1 DEF UpsertInsert
<1>15. ASSUME NEW t \in Triple, NEW ended \in Ends, Invalidate(p, t, ended) PROVE Goal
  BY <1>11, <1>12, <1>15 DEF Invalidate
<1>16. CASE EndBatch(p)
  <2>1. \A q \in Process \ {p} : tx'[q].view = tx[q].view
    BY <1>16, CommitEffect
  <2>2. tx'[p].view = Empty
    BY <1>16, CommitEffect DEF Autocommit
  <2>3. CASE tx[p].mode = "write"
    <3>1. db' = tx[p].view /\ db.rows \subseteq tx[p].view.rows
      BY <1>1, <1>16, <2>3 DEF EndBatch, TxOK, Beyond
    <3>2. LivesOn(db, db')
      BY <3>1 DEF LivesOn
    <3> QED
      BY <1>1, <2>1, <2>2, <3>1, <3>2, NothingCounts
  <2>4. CASE tx[p].mode # "write"
    BY <1>2, <1>16, <2>1, <2>2, <2>4 DEF EndBatch
  <2> QED
    BY <2>3, <2>4
<1>17. Goal
  BY <1>4, <1>5, <1>6, <1>7, <1>8, <1>10, <1>13, <1>14, <1>15, <1>16
     DEF NextRecord, Refused, StartUpsert, StartAdd
<1> QED
  BY <1>17 DEF Countable, Keyed

LEMMA CountStep == GraphInv /\ CountInv /\ [Next]_vars => CountInv' /\ LivesOn(db, db')
<1> SUFFICES ASSUME GraphInv, CountInv, [Next]_vars PROVE CountInv' /\ LivesOn(db, db')
  OBVIOUS
<1>1. CASE UNCHANGED <<db, tx, proc>>
  BY <1>1, LivesOnItself DEF CountInv, Countable, Keyed, TodoOK
<1> QED
  BY <1>1, TodoStep, RowsStep DEF Next, vars, Tick, CountInv

LEMMA CountInit == Init => CountInv
<1> SUFFICES ASSUME Init PROVE CountInv
  OBVIOUS
<1>1. db = Empty /\ \A p \in Process : tx[p].view = Empty /\ proc[p].todo = <<>> /\ proc[p].at = "idle"
  BY DEF Init, Autocommit, Idle
<1>2. <<>> \in Seq(Seq(OpType))
  BY EmptySeq
<1> QED
  BY <1>1, <1>2, NothingCounts DEF CountInv, TodoOK, Busied
----------------------------------------------------------------------------
(* What a call of get_kg_stats has counted, and has still to count. *)

Counting == {"entities", "triples", "current", "type"}

Quiet(todo) == todo \in Seq(ToSet(todo)) /\ \A i \in DOMAIN todo : todo[i].op \notin Counting

\* GetKgStats without its first k SELECTs, and the lowest rank among the types
\* that these have counted.
Rest(k) == [i \in 1..(10 - k) |-> GetKgStats[i + k]]
Floor(k) == CASE k = 4 -> 5 [] k = 5 -> 4 [] k = 6 -> 3 [] OTHER -> 2

Above(rank) == {n \in Names : Rank(db.types[n]) >= rank}
ExpiredRows == {row \in db.rows : row.to # Null}

\* A call, its numbers, and how far they are those of the SELECTs still to come.
Asked(todo, ended, entities, triples, current, byType) ==
    [todo |-> todo, ended |-> ended, entities |-> entities, triples |-> triples,
     current |-> current, byType |-> byType]

Numbers(entities, triples, current, byType) ==
    /\ entities \in Int /\ triples \in Int /\ current \in Int /\ byType \in Nat
    /\ entities <= Cardinality(Present) /\ byType <= Cardinality(Present)
    /\ current # Unread /\ triples # Unread => triples - current <= Cardinality(ExpiredRows)

OneType(todo, triples, current, byType) ==
    /\ triples = Unread /\ current = Unread /\ byType = 0
    /\ \E type \in ToSet(KnownTypes) : todo = <<Read("type", type, "", Null)>>

Counted(k, triples, current, byType) ==
    /\ k <= 1 => triples = Unread
    /\ k <= 2 => current = Unread
    /\ k = 2 => triples <= Cardinality(db.rows)
    /\ k <= 3 => byType = 0
    /\ k > 3 => byType <= Cardinality(Above(Floor(k)))

Progress(todo, triples, current, byType) ==
    \/ Quiet(todo)
    \/ OneType(todo, triples, current, byType)
    \/ \E k \in 0..9 : todo = Rest(k) /\ Counted(k, triples, current, byType)

AskOK(a) ==
    /\ a = Asked(a.todo, a.ended, a.entities, a.triples, a.current, a.byType)
    /\ Numbers(a.entities, a.triples, a.current, a.byType)
    /\ Progress(a.todo, a.triples, a.current, a.byType)

AskInv ==
    /\ setting \in Setting
    /\ ask = [r \in Reader |-> ask[r]] /\ \A r \in Reader : AskOK(ask[r])

LEMMA NamesFinite == IsFiniteSet(Names)
<1>1. Alphabet \in Seq(Names) /\ ToSet(Alphabet) = Names
  BY ToolsAssumption
<1>2. Alphabet \in [1..Len(Alphabet) -> Names] /\ Len(Alphabet) \in Nat /\ \A n \in Names : \E i \in 1..Len(Alphabet) : Alphabet[i] = n
  BY <1>1, LenProperties DEF ToSet
<1>3. Alphabet \in Surjection(1..Len(Alphabet), Names)
  BY <1>2 DEF Surjection
<1>4. IsFiniteSet(1..Len(Alphabet))
  BY <1>2, FS_Interval
<1> QED
  BY <1>3, <1>4, FS_Surjection

\* Any set of names can be counted, and a part of it has no more.
LEMMA NamesCount ==
    ASSUME NEW S \in SUBSET Names, NEW T \in SUBSET S
    PROVE  Cardinality(S) \in Nat /\ Cardinality(T) \in Nat /\ Cardinality(T) <= Cardinality(S)
<1>1. IsFiniteSet(S)
  BY NamesFinite, FS_Subset
<1>2. IsFiniteSet(T) /\ Cardinality(T) <= Cardinality(S)
  BY <1>1, FS_Subset
<1> QED
  BY <1>1, <1>2, FS_CardinalityType

LEMMA NamesApart ==
    ASSUME NEW C \in SUBSET Names, NEW A \in SUBSET C, NEW B \in SUBSET C, A \cap B = {}
    PROVE  Cardinality(A) + Cardinality(B) <= Cardinality(C)
<1>1. IsFiniteSet(C)
  BY NamesFinite, FS_Subset
<1>2. IsFiniteSet(A) /\ IsFiniteSet(B)
  BY <1>1, FS_Subset
<1>3. Cardinality(A \cup B) = Cardinality(A) + Cardinality(B) - 0
  BY <1>2, FS_Union, FS_EmptySet
<1>4. Cardinality(A \cup B) <= Cardinality(C)
  BY <1>1, FS_Subset
<1> QED
  BY <1>2, <1>3, <1>4, FS_CardinalityType

\* Writers only add to what has been counted.
LEMMA AskStable ==
    ASSUME GraphInv, CountInv, CountInv', LivesOn(db, db'), Raises(db, db'), NEW a, AskOK(a)
    PROVE  AskOK(a)'
<1>1. /\ Cardinality(db.rows) \in Nat /\ Cardinality(db'.rows) \in Nat
      /\ Cardinality(db.rows) <= Cardinality(db'.rows)
      /\ Cardinality(ExpiredRows) \in Nat /\ Cardinality(ExpiredRows') \in Nat
      /\ Cardinality(ExpiredRows) <= Cardinality(ExpiredRows')
  BY MoreRows DEF CountInv, Countable, ExpiredRows, Keyed
<1>2. \A rank \in Int : Above(rank) \subseteq Above(rank)'
  BY RankRange DEF Above, Raises
<1>3. Present \subseteq Present'
  BY RankRange DEF Present, Raises
<1>4. /\ Cardinality(Present) \in Nat /\ Cardinality(Present') \in Nat
      /\ Cardinality(Present) <= Cardinality(Present')
  BY <1>3, NamesCount DEF Present
<1>5. ASSUME NEW k \in 0..9 PROVE /\ Cardinality(Above(Floor(k))) \in Nat /\ Cardinality(Above(Floor(k))') \in Nat
                                  /\ Cardinality(Above(Floor(k))) <= Cardinality(Above(Floor(k))')
  <2>1. Floor(k) \in Int
    BY DEF Floor
  <2>2. Above(Floor(k)) \in SUBSET Above(Floor(k))' /\ Above(Floor(k))' \in SUBSET Names
    BY <1>2, <2>1 DEF Above, Floor
  <2> QED
    BY <2>2, NamesCount
<1> DEFINE e == a.entities
           tr == a.triples
           c == a.current
           y == a.byType
           todo == a.todo
<1>0. Numbers(e, tr, c, y) /\ Progress(todo, tr, c, y)
  BY DEF AskOK
<1> HIDE DEF e, tr, c, y, todo
<1>6. Numbers(e, tr, c, y)'
  BY <1>0, <1>1, <1>4 DEF Numbers
<1>7. e \in Int /\ tr \in Int /\ c \in Int /\ y \in Nat
  BY <1>0 DEF Numbers
<1>8. Quiet(todo) => Quiet(todo)'
  BY DEF Quiet
<1>9. OneType(todo, tr, c, y) => OneType(todo, tr, c, y)'
  BY DEF OneType
<1>10. \A k \in 0..9 : Counted(k, tr, c, y) => Counted(k, tr, c, y)'
  BY <1>1, <1>5, <1>7 DEF Counted
<1>11. \A k \in 0..9 : Rest(k)' = Rest(k)
  BY DEF Rest
<1>12. Progress(todo, tr, c, y)'
  BY <1>0, <1>8, <1>9, <1>10, <1>11 DEF Progress
<1> QED
  BY <1>6, <1>12 DEF AskOK, e, tr, c, y, todo

LEMMA FunctionIsSeq ==
    ASSUME NEW n \in Nat, NEW S, NEW f \in [1..n -> S]
    PROVE  f \in Seq(S) /\ Len(f) = n
  OBVIOUS

\* Sequences of SELECTs that count nothing.
LEMMA QuietIf ==
    ASSUME NEW S, NEW s \in Seq(S), \A x \in S : x.op \notin Counting
    PROVE  Quiet(s)
<1>1. s \in [1..Len(s) -> S] /\ Len(s) \in Nat /\ DOMAIN s = 1..Len(s)
  BY LenProperties
<1>2. s \in [1..Len(s) -> ToSet(s)]
  BY <1>1 DEF ToSet
<1>3. s \in Seq(ToSet(s))
  BY <1>1, <1>2
<1> QED
  BY <1>1, <1>3 DEF Quiet

LEMMA QuietMembers ==
    ASSUME NEW s, Quiet(s)
    PROVE  \A x \in ToSet(s) : x.op \notin Counting
  BY DEF Quiet, ToSet

LEMMA QuietNone == Quiet(<<>>)
<1>1. <<>> \in Seq(ToSet(<<>>))
  BY EmptySeq
<1>2. DOMAIN <<>> = {}
  OBVIOUS
<1> QED
  BY <1>1, <1>2 DEF Quiet

LEMMA QuietOne == ASSUME NEW x, x.op \notin Counting PROVE Quiet(<<x>>)
<1>1. DOMAIN <<x>> = 1..1 /\ <<x>>[1] = x /\ <<x>> \in Seq({x})
  OBVIOUS
<1>2. ToSet(<<x>>) = {x}
  BY <1>1 DEF ToSet
<1> QED
  BY <1>1, <1>2 DEF Quiet

LEMMA QuietConcat == ASSUME NEW s, NEW t, Quiet(s), Quiet(t) PROVE Quiet(s \o t)
<1> DEFINE S == ToSet(s) \cup ToSet(t)
<1>1. s \in Seq(S) /\ t \in Seq(S)
  BY SeqMonotonic DEF Quiet
<1>2. s \o t \in Seq(S)
  BY <1>1, ConcatProperties
<1>3. \A x \in S : x.op \notin Counting
  BY QuietMembers
<1> QED
  BY <1>2, <1>3, QuietIf

LEMMA QuietTail ==
    ASSUME NEW s, Quiet(s), s # <<>>
    PROVE  Quiet(Tail(s)) /\ Head(s).op \notin Counting
<1>1. s \in Seq(ToSet(s))
  BY DEF Quiet
<1>2. Tail(s) \in Seq(ToSet(s)) /\ Head(s) \in ToSet(s)
  BY <1>1, HeadTailProperties
<1> QED
  BY <1>2, QuietMembers, QuietIf

LEMMA QuietRelations ==
    ASSUME NEW n, NEW direction, NEW asOf
    PROVE  /\ Quiet(Relations(n, direction, asOf))
           /\ \A k \in 1..2 : Relations(n, "both", asOf)[k].op = "relations"
<1>1. \A way : Quiet(<<Read("relations", n, way, asOf)>>)
  BY QuietOne DEF Read, Counting
<1>2. Quiet(Relations(n, direction, asOf))
  BY <1>1, QuietNone, QuietConcat DEF Relations
<1>3. \A k \in 1..2 : Relations(n, "both", asOf)[k].op = "relations"
  <2> DEFINE a == Read("relations", n, "outgoing", asOf)
             b == Read("relations", n, "incoming", asOf)
  <2>1. Relations(n, "both", asOf) = <<a>> \o <<b>>
    BY DEF Relations
  <2>2. a.op = "relations" /\ b.op = "relations"
    BY DEF Read
  <2> HIDE DEF a, b
  <2>3. <<a>> \in Seq({a, b}) /\ <<b>> \in Seq({a, b}) /\ Len(<<a>>) = 1 /\ Len(<<b>>) = 1
    OBVIOUS
  <2>4. \A k \in 1..2 : (<<a>> \o <<b>>)[k] = IF k <= 1 THEN <<a>>[k] ELSE <<b>>[k - 1]
    BY <2>3, ConcatProperties
  <2> QED
    BY <2>1, <2>2, <2>4
<1> QED
  BY <1>2, <1>3

\* What a search leads to.
LEMMA QuietFollowUp == ASSUME NEW q, NEW way PROVE Quiet(FollowUp(q, way))
<1> DEFINE all == Matches(q)
           first == [i \in 1..(IF TopLimit < Len(all) THEN TopLimit ELSE Len(all)) |-> all[i]]
           P == {i \in DOMAIN first : db.types[first[i]] = way}
           matched == IF way \in ToSet(KnownTypes) THEN Subsequence(first, P) ELSE first
           top == Len(matched)
           rel(i) == Relations(matched[(i + 1) \div 2], "both", Null)[2 - (i % 2)]
           rels == [i \in 1..(2 * top) |-> rel(i)]
           end == IF way = "timeline" /\ matched # <<>> THEN <<Read("timeline", matched[1], "both", Null)>> ELSE <<>>
<1>1. FollowUp(q, way) = rels \o end
  BY DEF FollowUp, Filter
<1>2. \E m \in Nat : DOMAIN all = 1..m /\ Len(all) = m
  <2> DEFINE scanned == {i \in DOMAIN Alphabet :
                      /\ Alphabet[i] \in Present
                      /\ Cardinality({j \in 1..(i - 1) : Alphabet[j] \in Present}) < ScanLimit}
             found == {i \in scanned : Relevance[q][Alphabet[i]] > 0}
  <2>1. DOMAIN Alphabet = 1..Len(Alphabet) /\ Len(Alphabet) \in Nat
    BY ToolsAssumption, LenProperties
  <2>2. found \in SUBSET (1..Len(Alphabet))
    BY <2>1
  <2>3. Cardinality(found) \in Nat
    BY <2>1, <2>2, SubsequencePlaces
  <2>4. \E g : all = [k \in 1..Cardinality(found) |-> g[k]]
    <3> DEFINE Before(i, j) == \/ Relevance[q][Alphabet[i]] > Relevance[q][Alphabet[j]]
                               \/ Relevance[q][Alphabet[i]] = Relevance[q][Alphabet[j]] /\ i < j
               g == [k \in 1..Cardinality(found) |->
                        Alphabet[CHOOSE i \in found : Cardinality({j \in found : Before(j, i)}) = k - 1]]
    <3>1. all = g
      BY DEF Matches
    <3> QED
      BY <3>1
  <2> HIDE DEF found, all
  <2>5. PICK g : all = [k \in 1..Cardinality(found) |-> g[k]]
    BY <2>4
  <2> QED
    BY <2>3, <2>5
<1>3. Len(matched) \in Nat
  <2>1. PICK l \in Nat : DOMAIN all = 1..l /\ Len(all) = l
    BY <1>2
  <2> DEFINE m == IF TopLimit < Len(all) THEN TopLimit ELSE Len(all)
  <2>6. m \in Nat
    BY <2>1, ToolsAssumption
  <2>7. first = [i \in 1..m |-> all[i]]
    OBVIOUS
  <2> HIDE DEF m, all, first
  <2>8. DOMAIN first = 1..m /\ Len(first) = m
    BY <2>6, <2>7
  <2>2. P \in SUBSET (1..m)
    BY <2>8
  <2> DEFINE n == Cardinality(P)
             sub == Subsequence(first, P)
  <2>3. n \in Nat
    BY <2>2, <2>6, SubsequencePlaces
  <2>4. sub = [k \in 1..n |-> first[Place(P, k)]]
    BY DEF Subsequence
  <2> HIDE DEF n, sub, P
  <2>5. Len(sub) \in Nat
    BY <2>3, <2>4
  <2> QED
    BY <2>6, <2>8, <2>5 DEF sub
<1>4. top \in Nat
  BY <1>3
<1> HIDE DEF top, matched
<1>5. \A i \in 1..(2 * top) : rel(i).op = "relations"
  <2> TAKE i \in 1..(2 * top)
  <2>1. 2 - (i % 2) \in 1..2
    BY <1>4
  <2> QED
    BY <2>1, QuietRelations
<1> HIDE DEF rel
<1>6. rels \in Seq({rel(i) : i \in 1..(2 * top)})
  <2>1. 2 * top \in Nat
    BY <1>4
  <2>2. rels \in [1..(2 * top) -> {rel(i) : i \in 1..(2 * top)}]
    OBVIOUS
  <2> QED
    BY <2>1, <2>2, FunctionIsSeq
<1>7. Quiet(rels)
  BY <1>5, <1>6, QuietIf DEF Counting
<1>8. Quiet(end)
  BY QuietNone, QuietOne DEF Read, Counting
<1> QED
  BY <1>1, <1>7, <1>8, QuietConcat

\* The SELECTs of get_kg_stats, one by one.
LEMMA StatsReads ==
    /\ Rest(0) = GetKgStats
    /\ GetKgStats[1].op = "entities" /\ GetKgStats[2].op = "triples" /\ GetKgStats[3].op = "current"
    /\ \A k \in 4..10 : GetKgStats[k].op = "type" /\ GetKgStats[k].on = KnownTypes[k - 3]
<1> DEFINE types == [i \in DOMAIN KnownTypes |-> Read("type", KnownTypes[i], "", Null)]
           S == {Stats[i] : i \in 1..3} \cup {types[i] : i \in 1..7}
<1>1. DOMAIN KnownTypes = 1..7
  BY DEF KnownTypes
<1>2. types \in [1..7 -> S]
  BY <1>1
<1>3. types \in Seq(S) /\ Len(types) = 7
  BY <1>2, FunctionIsSeq
<1>11. Stats[1].op = "entities" /\ Stats[2].op = "triples" /\ Stats[3].op = "current" /\ DOMAIN Stats = 1..3
       /\ Stats = [i \in 1..3 |-> Stats[i]]
  <2> DEFINE a == Read("entities", "", "", Null)
             b == Read("triples", "", "", Null)
             c == Read("current", "", "", Null)
  <2>1. Stats = <<a, b, c>>
    BY DEF Stats
  <2>2. a.op = "entities" /\ b.op = "triples" /\ c.op = "current"
    BY DEF Read
  <2> HIDE DEF a, b, c
  <2>3. DOMAIN <<a, b, c>> = 1..3 /\ <<a, b, c>> = [i \in 1..3 |-> <<a, b, c>>[i]]
    OBVIOUS
  <2> QED
    BY <2>1, <2>2, <2>3
<1>4. Stats \in Seq(S) /\ Len(Stats) = 3
  <2>1. Stats \in [1..3 -> S]
    BY <1>11
  <2> QED
    BY <2>1, FunctionIsSeq
<1>5. GetKgStats = Stats \o types
  BY DEF GetKgStats
<1>6. \A i \in 1..7 : types[i].op = "type" /\ types[i].on = KnownTypes[i]
  BY <1>1 DEF Read
<1> HIDE DEF types, S
<1>7. /\ GetKgStats \in Seq(S) /\ Len(GetKgStats) = 10
      /\ \A i \in 1..10 : GetKgStats[i] = IF i <= 3 THEN Stats[i] ELSE types[i - 3]
  <2>1. Stats \o types \in Seq(S) /\ Len(Stats \o types) = Len(Stats) + Len(types)
        /\ \A i \in 1..(Len(Stats) + Len(types)) : (Stats \o types)[i] = IF i <= Len(Stats) THEN Stats[i] ELSE types[i - Len(Stats)]
    BY <1>3, <1>4, ConcatProperties
  <2>2. Len(Stats) + Len(types) = 10 /\ Len(Stats) = 3
    BY <1>3, <1>4
  <2> QED
    BY <1>5, <2>1, <2>2
<1>8. GetKgStats = [i \in 1..10 |-> GetKgStats[i]]
  BY <1>7
<1>9. Rest(0) = GetKgStats
  BY <1>8 DEF Rest
<1>10. \A k \in 4..10 : GetKgStats[k] = types[k - 3]
  BY <1>7
<1>12. GetKgStats[1] = Stats[1] /\ GetKgStats[2] = Stats[2] /\ GetKgStats[3] = Stats[3]
  BY <1>7
<1> QED
  BY <1>6, <1>9, <1>10, <1>11, <1>12

LEMMA RestMoves ==
    ASSUME NEW k \in 0..9
    PROVE  Rest(k) # <<>> /\ Head(Rest(k)) = GetKgStats[k + 1] /\ Tail(Rest(k)) = Rest(k + 1)
<1> DEFINE n == 10 - k
           S == {GetKgStats[i + k] : i \in 1..n}
<1>1. n \in Nat /\ n >= 1 /\ 10 - (k + 1) = n - 1
  OBVIOUS
<1>2. Rest(k) \in [1..n -> S] /\ \A i \in 1..n : Rest(k)[i] = GetKgStats[i + k]
  BY DEF Rest
<1> HIDE DEF n, S
<1>3. Rest(k) \in Seq(S) /\ Len(Rest(k)) = n
  BY <1>1, <1>2
<1>4. Rest(k) # <<>>
  BY <1>1, <1>3, EmptySeq
<1>5. Head(Rest(k)) = GetKgStats[k + 1]
  BY <1>1, <1>2, <1>3, <1>4
<1>6. /\ Tail(Rest(k)) \in Seq(S) /\ Len(Tail(Rest(k))) = n - 1
      /\ \A i \in 1..(n - 1) : Tail(Rest(k))[i] = Rest(k)[i + 1]
  BY <1>3, <1>4, HeadTailProperties
<1>8. \A i \in 1..(n - 1) : Tail(Rest(k))[i] = GetKgStats[i + (k + 1)]
  <2> TAKE i \in 1..(n - 1)
  <2>1. i + 1 \in 1..n /\ (i + 1) + k = i + (k + 1)
    BY <1>1
  <2>2. Rest(k)[i + 1] = GetKgStats[(i + 1) + k]
    BY <1>2, <2>1
  <2> QED
    BY <1>6, <2>1, <2>2
<1>9. Tail(Rest(k)) = [i \in 1..(n - 1) |-> Tail(Rest(k))[i]]
  BY <1>6, LenProperties
<1>7. Tail(Rest(k)) = [i \in 1..(n - 1) |-> GetKgStats[i + (k + 1)]]
  BY <1>8, <1>9
<1> QED
  BY <1>1, <1>4, <1>5, <1>7 DEF Rest

LEMMA RestEnds == Rest(10) = <<>>
  BY DEF Rest
\* A record put together from numbers that are right is right.
LEMMA AskFrom ==
    ASSUME NEW todo, NEW ended, NEW entities, NEW triples, NEW current, NEW byType,
           Numbers(entities, triples, current, byType), Progress(todo, triples, current, byType)
    PROVE  AskOK(Asked(todo, ended, entities, triples, current, byType))
<1> DEFINE a == Asked(todo, ended, entities, triples, current, byType)
<1>1. /\ a.todo = todo /\ a.ended = ended /\ a.entities = entities /\ a.triples = triples
      /\ a.current = current /\ a.byType = byType
  BY DEF Asked
<1> QED
  BY <1>1 DEF AskOK

\* Calls begin with one of these.
Begins(todo) ==
    \/ Quiet(todo) \/ todo = Rest(0)
    \/ \E type \in ToSet(KnownTypes) : todo = <<Read("type", type, "", Null)>>

LEMMA CallsBegin == ASSUME NEW tool \in Tool, NEW todo \in Calls[tool] PROVE Begins(todo)
<1>1. CASE tool = "get_kg_stats"
  <2>1. Calls["get_kg_stats"] = {GetKgStats}
    BY DEF Calls, Tool
  <2> QED
    BY <1>1, <2>1, StatsReads DEF Begins
<1>2. CASE tool = "get_entities"
  <2>1. Calls["get_entities"] = {GetEntities(type) : type \in ToSet(KnownTypes)}
    BY DEF Calls, Tool
  <2>2. PICK type \in ToSet(KnownTypes) : todo = GetEntities(type)
    BY <1>2, <2>1
  <2> QED
    BY <2>2 DEF Begins, GetEntities
<1>3. \A n, direction, asOf : Quiet(<<Read("entity", n, direction, asOf)>>)
  BY QuietOne DEF Read, Counting
<1>4. \A q, way : Quiet(<<Read("search", q, way, Null)>>)
  BY QuietOne DEF Read, Counting
<1>5. CASE tool = "get_entity_info"
  <2>1. Calls["get_entity_info"] =
          {GetEntityInfo(n, d, c) : n \in Names, d \in Directions, c \in Clock \cup {Null}}
    BY DEF Calls, Tool
  <2>2. PICK n \in Names, d \in Directions, c \in Clock \cup {Null} : todo = GetEntityInfo(n, d, c)
    BY <1>5, <2>1
  <2> QED
    BY <1>3, <2>2 DEF Begins, GetEntityInfo
<1>6. CASE tool = "search_by_entity"
  <2>1. Calls["search_by_entity"] = {SearchByEntity(q, timeline) : q \in Query, timeline \in BOOLEAN}
    BY DEF Calls, Tool
  <2>2. PICK q \in Query, timeline \in BOOLEAN : todo = SearchByEntity(q, timeline)
    BY <1>6, <2>1
  <2>3. PICK way : todo = <<Read("search", q, way, Null)>>
    BY <2>2 DEF SearchByEntity
  <2> QED
    BY <1>4, <2>3 DEF Begins
<1>7. CASE tool = "query_kg"
  <2>1. Calls["query_kg"] = {QueryKg(q, type) : q \in Query, type \in ToSet(KnownTypes)}
    BY DEF Calls, Tool
  <2>2. PICK q \in Query, type \in ToSet(KnownTypes) : todo = QueryKg(q, type)
    BY <1>7, <2>1
  <2> QED
    BY <1>4, <2>2 DEF Begins, QueryKg
<1>8. CASE tool = "get_relationships"
  <2>1. Calls["get_relationships"] = {GetRelationships(n, d) : n \in Names, d \in Directions}
    BY DEF Calls, Tool
  <2>2. PICK n \in Names, d \in Directions : todo = GetRelationships(n, d)
    BY <1>8, <2>1
  <2> QED
    BY <2>2, QuietRelations DEF Begins, GetRelationships
<1> QED
  BY <1>1, <1>2, <1>5, <1>6, <1>7, <1>8 DEF Tool

LEMMA PresentCount == Cardinality(Present) \in Nat
  BY NamesCount DEF Present

\* A call that has just been made, and one that has been answered.
LEMMA NothingAsked ==
    ASSUME GraphInv, NEW todo, Begins(todo)
    PROVE  AskOK(Asked(todo, {}, Unread, Unread, Unread, 0))
<1>1. Numbers(Unread, Unread, Unread, 0)
  BY PresentCount DEF Numbers, Unread
<1>2. Counted(0, Unread, Unread, 0)
  BY DEF Counted
<1>3. CASE Quiet(todo)
  BY <1>1, <1>3, AskFrom DEF Progress
<1>4. CASE todo = Rest(0)
  <2>1. Progress(todo, Unread, Unread, 0)
    BY <1>2, <1>4 DEF Progress
  <2> QED
    BY <1>1, <2>1, AskFrom
<1>5. CASE \E type \in ToSet(KnownTypes) : todo = <<Read("type", type, "", Null)>>
  <2>1. Progress(todo, Unread, Unread, 0)
    BY <1>5 DEF Progress, OneType
  <2> QED
    BY <1>1, <2>1, AskFrom
<1> QED
  BY <1>3, <1>4, <1>5 DEF Begins

\* What a call is to read next, if that counts nothing, is all such.
LEMMA NotCounting ==
    ASSUME NEW a, AskOK(a), a.todo # <<>>, Head(a.todo).op \notin Counting
    PROVE  Quiet(a.todo)
<1>1. ASSUME NEW type, a.todo = <<Read("type", type, "", Null)>> PROVE FALSE
  <2> DEFINE x == Read("type", type, "", Null)
  <2>1. x.op = "type"
    BY DEF Read
  <2> HIDE DEF x
  <2>2. Head(<<x>>) = x
    OBVIOUS
  <2> QED
    BY <1>1, <2>1, <2>2 DEF Counting, x
<1>2. ASSUME NEW k \in 0..9, a.todo = Rest(k) PROVE FALSE
  <2>1. Head(a.todo) = GetKgStats[k + 1]
    BY <1>2, RestMoves
  <2>2. k + 1 \in {1, 2, 3} \/ k + 1 \in 4..10
    OBVIOUS
  <2>3. \A i \in {1, 2, 3} \cup 4..10 : GetKgStats[i].op \in Counting
    BY StatsReads DEF Counting
  <2> QED
    BY <2>1, <2>2, <2>3
<1>3. Progress(a.todo, a.triples, a.current, a.byType)
  BY DEF AskOK
<1> QED
  BY <1>1, <1>2, <1>3 DEF Progress, OneType

\* Going on with SELECTs that count nothing.
LEMMA AskGoesOn ==
    ASSUME NEW a, AskOK(a), NEW todo, Quiet(todo), NEW ended
    PROVE  AskOK(Asked(todo, ended, a.entities, a.triples, a.current, a.byType))
<1>1. Numbers(a.entities, a.triples, a.current, a.byType)
  BY DEF AskOK
<1>2. Progress(todo, a.triples, a.current, a.byType)
  BY DEF Progress
<1> QED
  BY <1>1, <1>2, AskFrom

\* What a SELECT that counts makes of a call.
OfType(type) == {n \in Names : db.types[n] = type}
CurrentRows == {row \in db.rows : row.to = Null}
Counts(a, s) ==
    LET c == [a EXCEPT !.todo = Tail(@)]
    IN  CASE s.op = "entities" -> [c EXCEPT !.entities = Cardinality(Present)]
          [] s.op = "triples" -> [c EXCEPT !.triples = Cardinality(db.rows)]
          [] s.op = "current" -> [c EXCEPT !.current = Cardinality(CurrentRows)]
          [] OTHER -> [c EXCEPT !.byType = @ + Cardinality(OfType(s.on))]

LEMMA CountsFields ==
    ASSUME NEW a, NEW s, a = Asked(a.todo, a.ended, a.entities, a.triples, a.current, a.byType)
    PROVE  /\ s.op = "entities" => Counts(a, s) =
                Asked(Tail(a.todo), a.ended, Cardinality(Present), a.triples, a.current, a.byType)
           /\ s.op = "triples" => Counts(a, s) =
                Asked(Tail(a.todo), a.ended, a.entities, Cardinality(db.rows), a.current, a.byType)
           /\ s.op = "current" => Counts(a, s) =
                Asked(Tail(a.todo), a.ended, a.entities, a.triples, Cardinality(CurrentRows), a.byType)
           /\ s.op \notin {"entities", "triples", "current"} => Counts(a, s) =
                Asked(Tail(a.todo), a.ended, a.entities, a.triples, a.current,
                      a.byType + Cardinality(OfType(s.on)))
<1> DEFINE left == a.todo
           end == a.ended
           e == a.entities
           tr == a.triples
           c == a.current
           b == a.byType
           present == Cardinality(Present)
           rows == Cardinality(db.rows)
           valid == Cardinality(CurrentRows)
           y == Cardinality(OfType(s.on))
           rest == Tail(left)
           next == Asked(rest, end, e, tr, c, b)
<1>1. a = Asked(left, end, e, tr, c, b)
  OBVIOUS
<1>2. Counts(a, s) =
        LET r == [a EXCEPT !.todo = Tail(@)]
        IN  CASE s.op = "entities" -> [r EXCEPT !.entities = present]
              [] s.op = "triples" -> [r EXCEPT !.triples = rows]
              [] s.op = "current" -> [r EXCEPT !.current = valid]
              [] OTHER -> [r EXCEPT !.byType = @ + y]
  BY DEF Counts
<1> HIDE DEF left, end, e, tr, c, b, present, rows, valid, y, rest
<1>3. [Asked(left, end, e, tr, c, b) EXCEPT !.todo = rest] = next
  BY DEF Asked
<1>4. [a EXCEPT !.todo = Tail(@)] = next
  BY <1>1, <1>3 DEF left, rest
<1>5. [next EXCEPT !.entities = present] = Asked(rest, end, present, tr, c, b)
  BY DEF Asked
<1>6. [next EXCEPT !.triples = rows] = Asked(rest, end, e, rows, c, b)
  BY DEF Asked
<1>7. [next EXCEPT !.current = valid] = Asked(rest, end, e, tr, valid, b)
  BY DEF Asked
<1>8. [next EXCEPT !.byType = @ + y] = Asked(rest, end, e, tr, c, b + y)
  BY DEF Asked
<1> HIDE DEF next
<1> QED
  BY <1>2, <1>4, <1>5, <1>6, <1>7, <1>8 DEF rest, left, end, e, tr, c, b, present, rows, valid, y

LEMMA AskedTodo ==
    ASSUME NEW a, NEW left, NEW end, NEW e, NEW tr, NEW c, NEW y, a = Asked(left, end, e, tr, c, y), NEW x
    PROVE  \A b : b = [a EXCEPT !.todo = x] => b = Asked(x, end, e, tr, c, y)
<1>1. [Asked(left, end, e, tr, c, y) EXCEPT !.todo = x] = Asked(x, end, e, tr, c, y)
  BY DEF Asked
<1> QED
  BY <1>1

LEMMA AskedEnded ==
    ASSUME NEW a, NEW left, NEW end, NEW e, NEW tr, NEW c, NEW y, a = Asked(left, end, e, tr, c, y), NEW x
    PROVE  \A b : b = [a EXCEPT !.ended = x] => b = Asked(left, x, e, tr, c, y)
<1>1. [Asked(left, end, e, tr, c, y) EXCEPT !.ended = x] = Asked(left, x, e, tr, c, y)
  BY DEF Asked
<1> QED
  BY <1>1

LEMMA RowsApart ==
    ASSUME CountInv
    PROVE  /\ Cardinality(CurrentRows) \in Nat /\ Cardinality(ExpiredRows) \in Nat
           /\ Cardinality(db.rows) \in Nat
           /\ Cardinality(db.rows) = Cardinality(CurrentRows) + Cardinality(ExpiredRows)
<1>1. IsFiniteSet(db.rows)
  BY DEF CountInv, Countable
<1>2. CurrentRows \in SUBSET db.rows /\ ExpiredRows = db.rows \ CurrentRows
  BY DEF ExpiredRows, CurrentRows
<1>3. IsFiniteSet(CurrentRows)
  BY <1>1, <1>2, FS_Subset
<1>4. IsFiniteSet(ExpiredRows) /\ Cardinality(ExpiredRows) = Cardinality(db.rows) - Cardinality(db.rows \cap CurrentRows)
  BY <1>1, <1>2, FS_Difference
<1>5. db.rows \cap CurrentRows = CurrentRows
  BY <1>2
<1>6. Cardinality(db.rows) \in Nat
  BY <1>1, FS_CardinalityType
<1>7. Cardinality(CurrentRows) \in Nat
  BY <1>3, FS_CardinalityType
<1>8. Cardinality(ExpiredRows) \in Nat
  BY <1>4, FS_CardinalityType
<1>9. Cardinality(ExpiredRows) = Cardinality(db.rows) - Cardinality(CurrentRows)
  BY <1>4, <1>5
<1>10. \A x, y, z \in Nat : z = x - y => x = y + z
  OBVIOUS
<1> QED
  BY <1>6, <1>7, <1>8, <1>9, <1>10

LEMMA TypeFinite == ASSUME NEW type PROVE Cardinality(OfType(type)) \in Nat
  BY NamesCount DEF OfType

\* A call for the entities of one type counts no more than there are.
LEMMA CountsOneType ==
    ASSUME NEW a, AskOK(a), OneType(a.todo, a.triples, a.current, a.byType), NEW s, s = Head(a.todo)
    PROVE  AskOK(Counts(a, s))
<1>1. PICK type \in ToSet(KnownTypes) : a.todo = <<Read("type", type, "", Null)>>
  BY DEF OneType
<1>2. s.op = "type" /\ s.on = type /\ Tail(a.todo) = <<>>
  <2> DEFINE x == Read("type", type, "", Null)
  <2>1. x.op = "type" /\ x.on = type
    BY DEF Read
  <2> HIDE DEF x
  <2>2. Head(<<x>>) = x /\ Tail(<<x>>) = <<>>
    OBVIOUS
  <2> QED
    BY <1>1, <2>1, <2>2 DEF x
<1>3. type # "absent"
  BY DEF ToSet, KnownTypes
<1> DEFINE y == Cardinality(OfType(type))
<1>4. y \in Nat /\ y <= Cardinality(Present)
  <2>1. OfType(type) \in SUBSET Present /\ Present \in SUBSET Names
    BY <1>3 DEF OfType, Present
  <2> QED
    BY <2>1, NamesCount
<1> HIDE DEF y
<1>5. a = Asked(a.todo, a.ended, a.entities, a.triples, a.current, a.byType)
      /\ a.byType = 0 /\ a.triples = Unread /\ a.current = Unread
  BY DEF AskOK, OneType
<1>6. Counts(a, s) = Asked(<<>>, a.ended, a.entities, a.triples, a.current, a.byType + y)
  <2>1. s.op \notin {"entities", "triples", "current"}
    BY <1>2
  <2>2. Counts(a, s) = Asked(Tail(a.todo), a.ended, a.entities, a.triples, a.current,
                             a.byType + Cardinality(OfType(s.on)))
    BY <1>5, <2>1, CountsFields
  <2> QED
    BY <1>2, <2>2 DEF y
<1>7. a.byType + y = y
  BY <1>4, <1>5
<1>8. Numbers(a.entities, a.triples, a.current, y)
  BY <1>4, <1>5 DEF AskOK, Numbers
<1>9. Progress(<<>>, a.triples, a.current, y)
  BY QuietNone DEF Progress
<1> QED
  BY <1>6, <1>7, <1>8, <1>9, AskFrom

\* So do the numbers of get_kg_stats, one after the other.
LEMMA CountsStats ==
    ASSUME GraphInv, CountInv, NEW a, AskOK(a), NEW k \in 0..9, a.todo = Rest(k),
           Counted(k, a.triples, a.current, a.byType), NEW s, s = Head(a.todo)
    PROVE  AskOK(Counts(a, s))
<1> DEFINE e == a.entities
           tr == a.triples
           c == a.current
           y == a.byType
           end == a.ended
           b == Counts(a, s)
<1>1. a = Asked(a.todo, end, e, tr, c, y) /\ Numbers(e, tr, c, y)
  BY DEF AskOK
<1>2. s = GetKgStats[k + 1] /\ Tail(a.todo) = Rest(k + 1)
  BY RestMoves
<1>3. /\ s.op = "entities" => b = Asked(Tail(a.todo), end, Cardinality(Present), tr, c, y)
      /\ s.op = "triples" => b = Asked(Tail(a.todo), end, e, Cardinality(db.rows), c, y)
      /\ s.op = "current" => b = Asked(Tail(a.todo), end, e, tr, Cardinality(CurrentRows), y)
      /\ s.op \notin {"entities", "triples", "current"} =>
           b = Asked(Tail(a.todo), end, e, tr, c, y + Cardinality(OfType(s.on)))
  BY <1>1, CountsFields
<1>4. Counted(k, tr, c, y)
  OBVIOUS
<1>5. /\ Cardinality(CurrentRows) \in Nat /\ Cardinality(ExpiredRows) \in Nat /\ Cardinality(db.rows) \in Nat
      /\ Cardinality(db.rows) = Cardinality(CurrentRows) + Cardinality(ExpiredRows)
  BY RowsApart
<1>6. Cardinality(Present) \in Nat
  BY PresentCount
<1> HIDE DEF e, tr, c, y, end, b
<1>7. CASE k = 0
  <2>1. b = Asked(Rest(1), end, Cardinality(Present), tr, c, y)
    <3>1. s.op = "entities" /\ Tail(a.todo) = Rest(1)
      <4>1. k + 1 = 1
        BY <1>7
      <4>2. s = GetKgStats[1]
        BY <1>2, <4>1
      <4> QED
        BY <1>2, <4>1, <4>2, StatsReads
    <3> QED
      BY <1>3, <3>1
  <2>2. Numbers(Cardinality(Present), tr, c, y)
    BY <1>1, <1>6 DEF Numbers
  <2>3. Counted(1, tr, c, y)
    BY <1>4, <1>7 DEF Counted
  <2>4. Progress(Rest(1), tr, c, y)
    BY <2>3 DEF Progress
  <2> QED
    BY <2>1, <2>2, <2>4, AskFrom DEF b
<1>8. CASE k = 1
  <2>1. b = Asked(Rest(2), end, e, Cardinality(db.rows), c, y)
    <3>1. s.op = "triples" /\ Tail(a.todo) = Rest(2)
      <4>1. k + 1 = 2
        BY <1>8
      <4>2. s = GetKgStats[2]
        BY <1>2, <4>1
      <4> QED
        BY <1>2, <4>1, <4>2, StatsReads
    <3> QED
      BY <1>3, <3>1
  <2>2. Numbers(e, Cardinality(db.rows), c, y)
    BY <1>1, <1>4, <1>5, <1>8 DEF Numbers, Counted
  <2>3. Counted(2, Cardinality(db.rows), c, y)
    BY <1>4, <1>5, <1>8 DEF Counted
  <2>4. Progress(Rest(2), Cardinality(db.rows), c, y)
    BY <2>3 DEF Progress
  <2> QED
    BY <2>1, <2>2, <2>4, AskFrom DEF b
<1>9. CASE k = 2
  <2>1. b = Asked(Rest(3), end, e, tr, Cardinality(CurrentRows), y)
    <3>1. s.op = "current" /\ Tail(a.todo) = Rest(3)
      <4>1. k + 1 = 3
        BY <1>9
      <4>2. s = GetKgStats[3]
        BY <1>2, <4>1
      <4> QED
        BY <1>2, <4>1, <4>2, StatsReads
    <3> QED
      BY <1>3, <3>1
  <2>2. Numbers(e, tr, Cardinality(CurrentRows), y)
    BY <1>1, <1>4, <1>5, <1>9 DEF Numbers, Counted
  <2>3. Counted(3, tr, Cardinality(CurrentRows), y)
    BY <1>4, <1>9 DEF Counted
  <2>4. Progress(Rest(3), tr, Cardinality(CurrentRows), y)
    BY <2>3 DEF Progress
  <2> QED
    BY <2>1, <2>2, <2>4, AskFrom DEF b
<1>10. CASE k >= 3
  <2>1. s.op = "type" /\ s.on = KnownTypes[k - 2]
    <3>1. k + 1 \in 4..10 /\ (k + 1) - 3 = k - 2
      BY <1>10
    <3> QED
      BY <1>2, <3>1, StatsReads
  <2> DEFINE type == s.on
             before == IF k = 3 THEN {} ELSE Above(Floor(k))
             after == IF k = 9 THEN Present ELSE Above(Floor(k + 1))
  <2>2. b = Asked(Rest(k + 1), end, e, tr, c, y + Cardinality(OfType(type)))
    BY <1>2, <1>3, <2>1
  <2>3. after \in SUBSET Present /\ before \in SUBSET after
        /\ OfType(type) \in SUBSET after /\ before \cap OfType(type) = {}
    <3>1. k \in {3, 4, 5, 6, 7, 8, 9}
      BY <1>10
    <3>2. \A n \in Names : db.types[n] \in EntityTypes
      BY DEF CountInv, Countable
    <3> DEFINE t == [n \in Names |-> db.types[n]]
    <3>3. \A n \in Names : t[n] \in EntityTypes /\ t[n] = db.types[n]
      BY <3>2
    <3>4. /\ \A rank : Above(rank) = {n \in Names : Rank(t[n]) >= rank}
          /\ OfType(type) = {n \in Names : t[n] = KnownTypes[k - 2]} /\ Present = {n \in Names : t[n] # "absent"}
      BY <2>1 DEF Above, OfType, Present
    <3> HIDE DEF t, type
    <3>5. Floor(4) = 5 /\ Floor(5) = 4 /\ Floor(6) = 3 /\ \A i \in {7, 8, 9, 10} : Floor(i) = 2
      BY DEF Floor
    <3>6. /\ KnownTypes[1] = "person" /\ KnownTypes[2] = "project" /\ KnownTypes[3] = "concept"
          /\ KnownTypes[4] = "tool" /\ KnownTypes[5] = "org" /\ KnownTypes[6] = "location"
          /\ KnownTypes[7] = "unknown"
      BY DEF KnownTypes
    <3>7. /\ Rank("absent") = -1 /\ Rank("unknown") = 1 /\ Rank("concept") = 3
          /\ Rank("project") = 4 /\ Rank("person") = 5
      BY DEF Rank
    <3>8. Above(5) = {n \in Names : t[n] = "person"}
      BY <3>3, <3>4, <3>7 DEF EntityTypes
    <3>9. Above(4) = {n \in Names : t[n] \in {"person", "project"}}
      BY <3>3, <3>4, <3>7 DEF EntityTypes
    <3>10. Above(3) = {n \in Names : t[n] \in {"person", "project", "concept"}}
      BY <3>3, <3>4, <3>7 DEF EntityTypes
    <3>11. Above(2) = {n \in Names : t[n] \in {"person", "project", "concept"}}
      BY <3>3, <3>4, <3>7 DEF EntityTypes
    <3>12. CASE k = 3
      BY <3>3, <3>4, <3>5, <3>6, <3>8, <3>12
    <3>13. CASE k = 4
      BY <3>3, <3>4, <3>5, <3>6, <3>8, <3>9, <3>13
    <3>14. CASE k = 5
      BY <3>3, <3>4, <3>5, <3>6, <3>9, <3>10, <3>14
    <3>15. CASE k \in {6, 7, 8}
      BY <3>3, <3>4, <3>5, <3>6, <3>10, <3>11, <3>15 DEF EntityTypes
    <3>16. CASE k = 9
      BY <3>3, <3>4, <3>5, <3>6, <3>11, <3>16
    <3> QED
      BY <3>1, <3>12, <3>13, <3>14, <3>15, <3>16
  <2> DEFINE m == Cardinality(OfType(type))
  <2>4. Cardinality(before) + m <= Cardinality(after)
    BY <2>3, NamesApart DEF Present
  <2>5. /\ Cardinality(before) \in Nat /\ Cardinality(after) \in Nat /\ m \in Nat
        /\ Cardinality(after) <= Cardinality(Present)
    BY <2>3, NamesCount, TypeFinite DEF Present
  <2>6. y <= Cardinality(before) /\ y \in Nat
    <3>1. CASE k = 3
      <4>1. before = {} /\ y = 0
        BY <1>4, <3>1 DEF Counted
      <4> QED
        BY <4>1, FS_EmptySet
    <3>2. CASE k # 3
      <4>1. k > 3 /\ before = Above(Floor(k))
        BY <1>10, <3>2
      <4> QED
        BY <1>1, <1>4, <4>1 DEF Counted, Numbers
    <3> QED
      BY <3>1, <3>2
  <2> HIDE DEF m
  <2>7. y + m \in Nat /\ y + m <= Cardinality(after) /\ y + m <= Cardinality(Present)
    BY <1>6, <2>4, <2>5, <2>6
  <2>8. Numbers(e, tr, c, y + m)
    BY <1>1, <2>7 DEF Numbers
  <2>9. Progress(Rest(k + 1), tr, c, y + m)
    <3>1. CASE k = 9
      BY <3>1, RestEnds, QuietNone DEF Progress
    <3>2. CASE k # 9
      <4>1. k + 1 \in 0..9 /\ k + 1 > 3 /\ after = Above(Floor(k + 1))
        BY <1>10, <3>2
      <4>2. Counted(k + 1, tr, c, y + m)
        BY <2>7, <4>1 DEF Counted
      <4> QED
        BY <4>1, <4>2 DEF Progress
    <3> QED
      BY <3>1, <3>2
  <2> QED
    BY <2>2, <2>8, <2>9, AskFrom DEF b, m
<1> QED
  BY <1>7, <1>8, <1>9, <1>10 DEF b

\* Counting keeps a call right.
LEMMA CountsOne ==
    ASSUME GraphInv, CountInv, NEW a, AskOK(a), a.todo # <<>>, Head(a.todo).op \in Counting
    PROVE  AskOK(Counts(a, Head(a.todo)))
<1>1. Progress(a.todo, a.triples, a.current, a.byType)
  BY DEF AskOK
<1>2. ~Quiet(a.todo)
  BY QuietTail
<1>3. CASE OneType(a.todo, a.triples, a.current, a.byType)
  BY <1>3, CountsOneType
<1>4. CASE \E k \in 0..9 : a.todo = Rest(k) /\ Counted(k, a.triples, a.current, a.byType)
  BY <1>4, CountsStats
<1> QED
  BY <1>1, <1>2, <1>3, <1>4 DEF Progress
\* A step of a reader keeps its call right.
LEMMA ReaderStep ==
    ASSUME GraphInv, CountInv, AskInv, NEW r \in Reader,
           Ask(r) \/ LookUp(r) \/ ReadFacts(r) \/ Count(r) \/ Answer(r)
    PROVE  UNCHANGED <<vars, setting>> /\ \E a : AskOK(a) /\ ask' = [ask EXCEPT ![r] = a]
<1> DEFINE old == ask[r]
<1>1. /\ AskOK(old)
      /\ old = Asked(old.todo, old.ended, old.entities, old.triples, old.current, old.byType)
  BY DEF AskInv, AskOK
<1>2. CASE Ask(r)
  <2>1. PICK tool \in setting.tools : \E left \in Calls[tool] : ask' = [ask EXCEPT ![r].todo = left]
    BY <1>2 DEF Ask
  <2>2. PICK left \in Calls[tool] : ask' = [ask EXCEPT ![r].todo = left]
    BY <2>1
  <2>3. tool \in Tool
    BY ToolsAssumption DEF AskInv
  <2>4. AskOK(Asked(left, {}, Unread, Unread, Unread, 0))
    BY <2>3, CallsBegin, NothingAsked
  <2>5. [NoCall EXCEPT !.todo = left] = Asked(left, {}, Unread, Unread, Unread, 0)
    <3>1. NoCall = Asked(<<>>, {}, Unread, Unread, Unread, 0)
      BY DEF NoCall, Asked
    <3>2. \A b : b = [NoCall EXCEPT !.todo = left] => b = Asked(left, {}, Unread, Unread, Unread, 0)
      BY <3>1, AskedTodo
    <3> QED
      BY <3>2
  <2>6. ask[r] = NoCall /\ UNCHANGED <<vars, setting>>
    BY <1>2 DEF Ask
  <2>7. ask' = [ask EXCEPT ![r] = [NoCall EXCEPT !.todo = left]]
    BY <2>2, <2>6
  <2> QED
    BY <2>4, <2>5, <2>6, <2>7
<1>3. CASE LookUp(r)
  <2> DEFINE s == Head(old.todo)
             next == IF s.op = "search" THEN FollowUp(s.on, s.way)
                     ELSE IF s.on \in Present THEN Relations(s.on, s.way, s.asOf) ELSE <<>>
             a == [old EXCEPT !.todo = next]
  <2>1. ask' = [ask EXCEPT ![r] = a] /\ UNCHANGED <<vars, setting>>
    BY <1>3 DEF LookUp
  <2>2. Quiet(next)
    BY QuietFollowUp, QuietRelations, QuietNone
  <2> HIDE DEF next
  <2>3. a = Asked(next, old.ended, old.entities, old.triples, old.current, old.byType)
    BY <1>1 DEF Asked
  <2>4. AskOK(a)
    BY <1>1, <2>2, <2>3, AskGoesOn
  <2> QED
    BY <2>1, <2>4
<1>4. CASE ReadFacts(r)
  <2> DEFINE s == Head(old.todo)
             rest == Tail(old.todo)
             ended == old.ended \cup Ended(Facts(s))
             a == Asked(rest, ended, old.entities, old.triples, old.current, old.byType)
  <2>1. old.todo # <<>> /\ s.op \notin Counting
    BY <1>4 DEF ReadFacts, Counting
  <2>2. Quiet(rest)
    BY <1>1, <2>1, NotCounting, QuietTail
  <2>3. AskOK(a)
    BY <1>1, <2>2, AskGoesOn
  <2>4. ask' = [ask EXCEPT ![r] = [old EXCEPT !.todo = rest, !.ended = ended]] /\ UNCHANGED <<vars, setting>>
    BY <1>4 DEF ReadFacts
  <2> HIDE DEF rest, ended
  <2>5. \A b : b = [old EXCEPT !.todo = rest, !.ended = ended] => b = a
    <3> DEFINE e == old.entities
               tr == old.triples
               c == old.current
               y == old.byType
               left == old.todo
               end == old.ended
    <3>1. old = Asked(left, end, e, tr, c, y)
      BY <1>1
    <3>2. a = Asked(rest, ended, e, tr, c, y)
      OBVIOUS
    <3> HIDE DEF old, e, tr, c, y, left, end, a
    <3> DEFINE m == [old EXCEPT !.todo = rest]
    <3>4. \A b : b = m => b = Asked(rest, end, e, tr, c, y)
      BY <3>1, AskedTodo
    <3>5. [old EXCEPT !.todo = rest, !.ended = ended] = [m EXCEPT !.ended = ended]
      OBVIOUS
    <3> HIDE DEF m
    <3>6. m = Asked(rest, end, e, tr, c, y)
      BY <3>4
    <3>7. \A b : b = [m EXCEPT !.ended = ended] => b = Asked(rest, ended, e, tr, c, y)
      BY <3>6, AskedEnded
    <3>3. \A b : b = [old EXCEPT !.todo = rest, !.ended = ended] => b = Asked(rest, ended, e, tr, c, y)
      BY <3>5, <3>7
    <3> QED
      BY <3>2, <3>3
  <2> QED
    BY <2>3, <2>4, <2>5
<1>5. CASE Count(r)
  <2>1. old.todo # <<>> /\ Head(old.todo).op \in Counting
    BY <1>5 DEF Count, Counting
  <2>2. AskOK(Counts(old, Head(old.todo)))
    BY <1>1, <2>1, CountsOne
  <2>3. ask' = [ask EXCEPT ![r] = Counts(old, Head(old.todo))] /\ UNCHANGED <<vars, setting>>
    BY <1>5 DEF Count, Counts, CurrentRows, OfType
  <2> QED
    BY <2>2, <2>3
<1>6. CASE Answer(r)
  <2>1. AskOK(Asked(<<>>, {}, Unread, Unread, Unread, 0))
    BY NothingAsked, QuietNone DEF Begins
  <2>2. NoCall = Asked(<<>>, {}, Unread, Unread, Unread, 0)
    BY DEF NoCall, Asked
  <2>3. ask' = [ask EXCEPT ![r] = NoCall] /\ UNCHANGED <<vars, setting>>
    BY <1>6 DEF Answer
  <2> QED
    BY <2>1, <2>2, <2>3
<1> QED
  BY <1>2, <1>3, <1>4, <1>5, <1>6

\* Whoever steps, all calls stay right.
LEMMA AskStep ==
    GraphInv /\ CountInv /\ CountInv' /\ LivesOn(db, db') /\ Raises(db, db') /\ AskInv /\ [ToolNext]_allVars => AskInv'
<1> SUFFICES ASSUME GraphInv, CountInv, CountInv', LivesOn(db, db'), Raises(db, db'), AskInv, [ToolNext]_allVars
             PROVE  AskInv'
  OBVIOUS
<1>1. \A a : AskOK(a) => AskOK(a)'
  BY AskStable
<1>2. ask = [r \in Reader |-> ask[r]] /\ \A r \in Reader : AskOK(ask[r])
  BY DEF AskInv
<1>7. setting' = setting
  BY DEF ToolNext, allVars, toolVars, Ask, LookUp, ReadFacts, Count, Answer
<1>3. CASE ask' = ask
  BY <1>1, <1>2, <1>3, <1>7 DEF AskInv
<1>4. ASSUME NEW r \in Reader, NEW a, AskOK(a), ask' = [ask EXCEPT ![r] = a] PROVE AskInv'
  <2>1. ask' = [q \in Reader |-> IF q = r THEN a ELSE ask[q]]
    BY <1>2, <1>4
  <2>2. \A q \in Reader : ask'[q] = a \/ ask'[q] = ask[q]
    BY <2>1
  <2>3. ask' = [q \in Reader |-> ask'[q]]
    BY <2>1
  <2> QED
    BY <1>1, <1>2, <1>4, <1>7, <2>2, <2>3 DEF AskInv
<1>5. ASSUME NEW r \in Reader, Ask(r) \/ LookUp(r) \/ ReadFacts(r) \/ Count(r) \/ Answer(r) PROVE AskInv'
  BY <1>4, <1>5, ReaderStep
<1>6. (Next /\ UNCHANGED toolVars) \/ UNCHANGED allVars => ask' = ask
  BY DEF toolVars, allVars
<1> QED
  BY <1>3, <1>5, <1>6 DEF ToolNext

LEMMA AskImplies == GraphInv /\ CountInv /\ AskInv => StatsNeverOverstate
<1> SUFFICES ASSUME GraphInv, CountInv, AskInv, NEW r \in Reader
             PROVE  LET shown == Max({ask[r].byType, ask[r].entities})
                        expired == ask[r].triples - ask[r].current
                    IN  /\ shown <= Cardinality(Present)
                        /\ ask[r].current # Unread /\ ask[r].triples # Unread =>
                              expired <= Cardinality({row \in db.rows : row.to # Null})
  BY DEF StatsNeverOverstate
<1>1. Numbers(ask[r].entities, ask[r].triples, ask[r].current, ask[r].byType)
  BY DEF AskInv, AskOK
<1>2. \A x, y \in Int : Max({x, y}) \in {x, y}
  <2> TAKE x \in Int, y \in Int
  <2>1. \E m \in {x, y} : \A z \in {x, y} : m >= z
    OBVIOUS
  <2> QED
    BY <2>1 DEF Max
<1>3. Max({ask[r].byType, ask[r].entities}) \in {ask[r].byType, ask[r].entities}
  BY <1>1, <1>2 DEF Numbers
<1> QED
  BY <1>1, <1>3 DEF Numbers, ExpiredRows

\* However the SELECTs of get_kg_stats and the statements of the writers
\* interleave, it shows no more entities and no more expired facts than there are.
THEOREM StatsNeverTooMany == ToolSpec => []StatsNeverOverstate
<1>1. ToolInit => CountInv
  BY CountInit DEF ToolInit
<1>2. [ToolNext]_allVars => [Next]_vars
  BY DEF ToolNext, allVars, Ask, LookUp, ReadFacts, Count, Answer
<1>3. ToolInit /\ GraphInv => AskInv
  <2> SUFFICES ASSUME ToolInit, GraphInv PROVE AskInv
    OBVIOUS
  <2>1. AskOK(Asked(<<>>, {}, Unread, Unread, Unread, 0))
    BY NothingAsked, QuietNone DEF Begins
  <2>2. NoCall = Asked(<<>>, {}, Unread, Unread, Unread, 0)
    BY DEF NoCall, Asked
  <2> QED
    BY <2>1, <2>2 DEF AskInv, ToolInit
<1>4. GraphInv /\ CountInv /\ [ToolNext]_allVars => CountInv' /\ LivesOn(db, db')
  BY <1>2, CountStep
<1>5. GraphInv /\ [ToolNext]_allVars => Raises(db, db')
  BY <1>2, GraphStep
<1>6. GraphInv /\ CountInv /\ AskInv /\ [ToolNext]_allVars => CountInv' /\ AskInv'
  BY <1>4, <1>5, AskStep
<1> QED
  BY <1>1, <1>3, <1>6, ToolsOnlyRead, GraphInvHolds, AskImplies, PTL DEF ToolSpec
=============================================================================
