-------------------------- MODULE SharedStoreProofs --------------------------
(***************************************************************************)
(* What holds of the store for any number of processes, notes, dreams and  *)
(* facts, whatever is killed when.                                         *)
(***************************************************************************)
EXTENDS SharedStore, FunctionTheorems, SequenceTheorems

----------------------------------------------------------------------------
(* The functions of MemoryRecord. *)

\* A line of a file of records, and an entry of the promotion queue.
Line == [id : Id, t : Nat, tier : Int, expires : Nat, promos : Int]
Entry == [id : Id, score : Int, from : Int, to : Int, scored : Nat, review : BOOLEAN,
          conflicts : SUBSET Id]

LEMMA SeqIs ==
    ASSUME NEW S, NEW s \in Seq(S)
    PROVE  /\ Len(s) \in Nat /\ DOMAIN s = 1..Len(s) /\ \A i \in DOMAIN s : s[i] \in S
           /\ s \in [1..Len(s) -> S]
  OBVIOUS

LEMMA FunctionIsSeq ==
    ASSUME NEW n \in Nat, NEW S, NEW f \in [1..n -> S]
    PROVE  f \in Seq(S) /\ Len(f) = n
  OBVIOUS

LEMMA IdsTyped == ASSUME NEW s \in Seq(Line) PROVE IdsOf(s) \subseteq Id
<1>1. \A i \in DOMAIN s : s[i] \in Line
  BY SeqIs
<1>2. \A i \in DOMAIN s : s[i].id \in Id
  BY <1>1 DEF Line
<1> QED
  BY <1>2 DEF IdsOf

\* What is left of lines are lines, and those at the positions in P.
LEMMA PartTyped ==
    ASSUME NEW S, NEW s \in Seq(S), NEW P \in SUBSET DOMAIN s
    PROVE  /\ Subsequence(s, P) \in Seq(S)
           /\ \A i \in P : \E k \in DOMAIN Subsequence(s, P) : Subsequence(s, P)[k] = s[i]
           /\ \A k \in DOMAIN Subsequence(s, P) : \E i \in P : Subsequence(s, P)[k] = s[i]
<1> DEFINE n == Len(s)
           sub == Subsequence(s, P)
           m == Cardinality(P)
<1>1. n \in Nat /\ P \in SUBSET (1..n) /\ \A i \in P : s[i] \in S
  BY SeqIs
<1> HIDE DEF n
<1>2. sub \in Seq(S) /\ Len(sub) = m
  BY <1>1, SubsequenceTyped
<1> DEFINE rank(i) == Cardinality({j \in P : j <= i})
<1>3. m \in Nat /\ \A k \in 1..m : Place(P, k) \in P
  BY <1>1, SubsequencePlaces
<1>4. \A i \in P : rank(i) \in 1..m /\ Place(P, rank(i)) = i
  BY <1>1, SubsequencePlaces
<1>5. sub = [k \in 1..m |-> s[Place(P, k)]]
  BY DEF Subsequence
<1> HIDE DEF sub, m, rank
<1> QED
  BY <1>2, <1>3, <1>4, <1>5 DEF sub

\* Nothing but the selected ids leaves a file that is rewritten.
LEMMA KeptTyped ==
    ASSUME NEW lines \in Seq(Line), NEW ids
    PROVE  Kept(lines, ids) \in Seq(Line) /\ IdsOf(lines) \ ids \subseteq IdsOf(Kept(lines, ids))
<1> DEFINE P == {i \in DOMAIN lines :
                  lines[i].id \notin ids \/ \E j \in 1..(i - 1) : lines[j].id = lines[i].id}
<1>1. Kept(lines, ids) = Subsequence(lines, P)
  BY DEF Kept
<1>2. P \in SUBSET DOMAIN lines
  OBVIOUS
<1>3. \A i \in DOMAIN lines : lines[i].id \notin ids => i \in P
  OBVIOUS
<1> HIDE DEF P
<1> QED
  BY <1>1, <1>2, <1>3, PartTyped DEF IdsOf

LEMMA LastOfTyped ==
    ASSUME NEW lines \in Seq(Line), NEW id \in IdsOf(lines)
    PROVE  LastOf(lines, id) \in Line /\ LastOf(lines, id).id = id
<1> DEFINE P == {i \in DOMAIN lines : lines[i].id = id}
<1>1. Len(lines) \in Nat /\ P \in SUBSET (1..Len(lines)) /\ P # {}
  BY SeqIs DEF IdsOf
<1>2. \E i \in P : \A j \in P : j <= i
  BY <1>1, LastPlace
<1>3. \E i \in DOMAIN lines : lines[i].id = id /\ \A j \in DOMAIN lines : lines[j].id = id => j <= i
  BY <1>2
<1> QED
  BY <1>3, SeqIs DEF LastOf

LEMMA LastWinsTyped == ASSUME NEW lines \in Seq(Line) PROVE LastWins(lines) \in Seq(Line)
<1> DEFINE P == {i \in DOMAIN lines : \A j \in 1..(i - 1) : lines[j].id # lines[i].id}
           firsts == Subsequence(lines, P)
<1>1. /\ firsts \in Seq(Line)
      /\ \A k \in DOMAIN firsts : \E i \in P : firsts[k] = lines[i]
  <2>1. P \in SUBSET DOMAIN lines
    OBVIOUS
  <2> QED
    BY <2>1, PartTyped
<1>2. \A k \in DOMAIN firsts : firsts[k].id \in IdsOf(lines)
  BY <1>1 DEF IdsOf
<1>3. LastWins(lines) = [k \in DOMAIN firsts |-> LastOf(lines, firsts[k].id)]
  BY DEF LastWins
<1> HIDE DEF firsts
<1>4. LastWins(lines) \in [1..Len(firsts) -> Line] /\ Len(firsts) \in Nat
  BY <1>1, <1>2, <1>3, SeqIs, LastOfTyped
<1> QED
  BY <1>4, FunctionIsSeq

LEMMA ListingTyped ==
    ASSUME NEW g \in [File -> Seq(Line)]
    PROVE  /\ Listing(g) \in Seq(Line)
           /\ \A f \in File : IdsOf(g[f]) \subseteq IdsOf(Listing(g))
           /\ IdsOf(Listing(g)) \subseteq UNION {IdsOf(g[f]) : f \in File}
<1> DEFINE a == g["dream"]
           b == g["session"]
           c == g["shared"]
<1>1. a \in Seq(Line) /\ b \in Seq(Line) /\ c \in Seq(Line) /\ Listing(g) = (a \o b) \o c
  BY DEF Listing, File
<1>2. \A s, t \in Seq(Line) : s \o t \in Seq(Line) /\ IdsOf(s \o t) = IdsOf(s) \cup IdsOf(t)
  <2> TAKE s, t \in Seq(Line)
  <2>1. /\ s \o t \in Seq(Line) /\ Len(s \o t) = Len(s) + Len(t)
        /\ \A i \in 1..(Len(s) + Len(t)) : (s \o t)[i] = IF i <= Len(s) THEN s[i] ELSE t[i - Len(s)]
    BY ConcatProperties
  <2> DEFINE st == s \o t
             m == Len(s)
             n == Len(t)
  <2>2. m \in Nat /\ n \in Nat /\ DOMAIN s = 1..m /\ DOMAIN t = 1..n /\ DOMAIN st = 1..(m + n)
    BY <2>1, SeqIs
  <2>3. \A i \in 1..(m + n) : st[i] = IF i <= m THEN s[i] ELSE t[i - m]
    BY <2>1
  <2> HIDE DEF st, m, n
  <2>4. \A i \in 1..m : i \in 1..(m + n) /\ st[i] = s[i]
    BY <2>2, <2>3
  <2>5. \A i \in 1..n : m + i \in 1..(m + n) /\ st[m + i] = t[i]
    BY <2>2, <2>3
  <2>9. IdsOf(s) \subseteq IdsOf(st)
    BY <2>2, <2>4 DEF IdsOf
  <2>10. IdsOf(t) \subseteq IdsOf(st)
    BY <2>2, <2>5 DEF IdsOf
  <2>6. IdsOf(s) \subseteq IdsOf(st) /\ IdsOf(t) \subseteq IdsOf(st)
    BY <2>9, <2>10
  <2>7. \A i \in 1..(m + n) : i \in 1..m \/ (i - m \in 1..n /\ st[i] = t[i - m])
    BY <2>2, <2>3
  <2>8. IdsOf(st) \subseteq IdsOf(s) \cup IdsOf(t)
    BY <2>2, <2>3, <2>4, <2>7 DEF IdsOf
  <2> QED
    BY <2>1, <2>6, <2>8 DEF st
<1>3. a \o b \in Seq(Line) /\ IdsOf(a \o b) = IdsOf(a) \cup IdsOf(b)
  BY <1>1, <1>2
<1>4. Listing(g) \in Seq(Line) /\ IdsOf(Listing(g)) = (IdsOf(a) \cup IdsOf(b)) \cup IdsOf(c)
  BY <1>1, <1>2, <1>3
<1> QED
  BY <1>4 DEF File
----------------------------------------------------------------------------
(* Types. *)

Promoting == {"promote", "promote write"}
Rewriting == {"rewrite expired", "rewrite evicted"}
Where == {"idle", "killed", "create", "reread", "unlink", "recreate", "fill", "scan", "expire", "evict",
          "unlock", "build shared", "fill shared", "build session", "truncate session", "fill session",
          "write", "project", "command"} \cup Promoting \cup Rewriting

ProcType == [at : Where, f : File, lines : Seq(Line), plan : [File -> SUBSET (Id \cup Line)],
             todo : SUBSET File, more : Seq(Line)]

\* The plan of the resolver has records, that of the others ids.
PlanOK(v) ==
    IF v.at \in Promoting THEN v.plan \in [File -> SUBSET Line] ELSE v.plan \in [File -> SUBSET Id]

LockType == [owner : Process, start : Times, written : BOOLEAN]

FilesOK ==
    /\ now \in Times
    /\ file \in [File -> Seq(Line)] /\ projects \in Seq(Line) /\ notes \in Seq(Line)
    /\ manifest \subseteq Id /\ queue \in Seq(Entry)
    /\ lock = Nobody \/ lock \in LockType

ProcsOK == proc \in [Process -> ProcType] /\ \A p \in Process : PlanOK(proc[p])

StoreInv == FilesOK /\ ProcsOK

\* A process moves on its own.
Moves(p, v) == proc' = [proc EXCEPT ![p] = v] /\ v \in ProcType /\ PlanOK(v)

LEMMA MovesKeeps ==
    ASSUME StoreInv, NEW p \in Process, NEW v, Moves(p, v)
    PROVE  /\ ProcsOK'
           /\ proc'[p] = v /\ \A q \in Process \ {p} : proc'[q] = proc[q]
<1>1. proc \in [Process -> ProcType] /\ \A q \in Process : PlanOK(proc[q])
  BY DEF StoreInv, ProcsOK
<1>2. proc' = [q \in Process |-> IF q = p THEN v ELSE proc[q]] /\ v \in ProcType /\ PlanOK(v)
  BY <1>1 DEF Moves
<1>3. \A q \in Process : proc'[q] = IF q = p THEN v ELSE proc[q]
  BY <1>2
<1>4. proc' \in [Process -> ProcType] /\ \A q \in Process : PlanOK(proc'[q])
  <2> HIDE DEF PlanOK
  <2> QED
    BY <1>1, <1>2, <1>3
<1> QED
  BY <1>3, <1>4 DEF ProcsOK, PlanOK

LEMMA IdleTyped ==
    /\ Idle \in ProcType /\ PlanOK(Idle)
    /\ [Idle EXCEPT !.at = "unlock"] \in ProcType /\ PlanOK([Idle EXCEPT !.at = "unlock"])
    /\ [Idle EXCEPT !.at = "unlock"].at = "unlock"
    /\ [Idle EXCEPT !.at = "killed"] \in ProcType /\ PlanOK([Idle EXCEPT !.at = "killed"])
    /\ [Idle EXCEPT !.at = "killed"].at = "killed"
    /\ Idle.at = "idle"
<1>1. <<>> \in Seq(Line)
  BY EmptySeq
<1>2. NoPlan \in [File -> SUBSET Id] /\ NoPlan \in [File -> SUBSET (Id \cup Line)]
  BY DEF NoPlan
<1> QED
  BY <1>1, <1>2 DEF Idle, ProcType, PlanOK, Where, Promoting, File

\* Going on at another step of the same script.
LEMMA GotoMoves ==
    ASSUME StoreInv, NEW p \in Process, NEW where \in Where,
           proc[p].at \in Promoting <=> where \in Promoting, Goto(p, where)
    PROVE  /\ Moves(p, [proc[p] EXCEPT !.at = where])
           /\ proc'[p].at = where /\ proc'[p].f = proc[p].f /\ proc'[p].lines = proc[p].lines
           /\ proc'[p].plan = proc[p].plan /\ proc'[p].todo = proc[p].todo /\ proc'[p].more = proc[p].more
<1> DEFINE v == [proc[p] EXCEPT !.at = where]
<1>1. proc \in [Process -> ProcType] /\ PlanOK(proc[p])
  BY DEF StoreInv, ProcsOK
<1>2. proc[p] \in ProcType
  BY <1>1
<1>3. v \in ProcType /\ v.at = where /\ v.f = proc[p].f /\ v.lines = proc[p].lines
      /\ v.plan = proc[p].plan /\ v.todo = proc[p].todo /\ v.more = proc[p].more
  BY <1>2 DEF ProcType
<1>4. PlanOK(v)
  BY <1>1, <1>3 DEF PlanOK
<1>5. proc' = [proc EXCEPT ![p] = v]
  BY DEF Goto
<1> HIDE DEF v
<1>6. proc'[p] = v
  BY <1>1, <1>5
<1> QED
  BY <1>3, <1>4, <1>5, <1>6 DEF Moves, v

LEMMA DoneMoves ==
    ASSUME StoreInv, NEW p \in Process, Done(p)
    PROVE  Moves(p, Idle) /\ proc'[p].at = "idle"
<1>1. Moves(p, Idle)
  BY IdleTyped DEF Done, Moves
<1>2. proc'[p] = Idle
  BY <1>1, MovesKeeps
<1> QED
  BY <1>1, <1>2, IdleTyped

----------------------------------------------------------------------------
(* The archiver's lock. *)

Holding == {"fill", "scan", "expire", "evict", "unlock"} \cup Rewriting
Takes == {"create", "reread", "unlink", "recreate"}

\* Until a lock is taken over, whoever has created it holds it.
LockInv ==
    forced \/ \A p \in Process : /\ proc[p].at \in Holding => lock # Nobody /\ lock.owner = p
                                 /\ proc[p].at # "recreate"

\* The steps that take and release it.
Locks(p) ==
    \/ StartArchiver(p) \/ Create(p) \/ Reread(p) \/ Unlink(p) \/ Recreate(p) \/ Fill(p)
    \/ Release(p) \/ Unlock(p)

LEMMA LockSteps ==
    ASSUME StoreInv, NEW p \in Process, Locks(p)
    PROVE  /\ FilesOK' /\ (\E v : Moves(p, v))
           /\ UNCHANGED <<now, file, projects, notes, manifest, queue, acked>>
           /\ proc'[p].at \in Takes \cup {"idle", "fill", "scan", "unlock"}
           /\ LockInv => LockInv'
<1> DEFINE Others == \A q \in Process \ {p} : proc'[q] = proc[q]
<1>0. FilesOK /\ p \in Process
  BY DEF StoreInv
<1>1. ASSUME NEW where \in Where \ Promoting, proc[p].at \notin Promoting, Goto(p, where)
      PROVE  (\E v : Moves(p, v)) /\ proc'[p].at = where /\ Others
  <2>1. Moves(p, [proc[p] EXCEPT !.at = where]) /\ proc'[p].at = where
    BY <1>1, GotoMoves
  <2> QED
    BY <2>1, MovesKeeps
<1>2. ASSUME Done(p) PROVE (\E v : Moves(p, v)) /\ proc'[p].at = "idle" /\ Others
  BY <1>2, DoneMoves, MovesKeeps
<1> HIDE DEF Others
<1>3. CASE StartArchiver(p)
  <2>1. Goto(p, "create") \/ Goto(p, "unlink")
    BY <1>3 DEF StartArchiver
  <2>2. proc[p].at = "idle" /\ UNCHANGED <<now, file, projects, notes, manifest, queue, acked, lock, forced>>
    BY <1>3 DEF StartArchiver, Idles, At
  <2>3. (\E v : Moves(p, v)) /\ proc'[p].at \in {"create", "unlink"} /\ Others
    BY <1>1, <2>1, <2>2 DEF Where, Promoting
  <2>4. FilesOK'
    BY <1>0, <2>2 DEF FilesOK
  <2>5. LockInv => LockInv'
    BY <2>2, <2>3 DEF LockInv, Others, Holding, Rewriting
  <2> QED
    BY <2>2, <2>3, <2>4, <2>5 DEF Takes
<1>4. CASE Create(p)
  <2>1. proc[p].at = "create" /\ UNCHANGED <<now, file, projects, notes, manifest, queue, acked, forced>>
    BY <1>4 DEF Create, At
  <2>2. CASE lock = Nobody /\ lock' = [owner |-> p, start |-> now, written |-> FALSE] /\ Goto(p, "fill")
    <3>1. (\E v : Moves(p, v)) /\ proc'[p].at = "fill" /\ Others
      BY <1>1, <2>1, <2>2 DEF Where, Promoting
    <3>2. lock' \in LockType /\ lock'.owner = p
      BY <1>0, <2>2 DEF FilesOK, LockType
    <3>3. FilesOK'
      BY <1>0, <2>1, <3>2 DEF FilesOK
    <3>4. lock' # Nobody
      BY <1>0, <2>2, NobodyIsNoLock DEF FilesOK
    <3>5. LockInv => LockInv'
      BY <2>1, <2>2, <3>1, <3>2, <3>4 DEF LockInv, Others
    <3> QED
      BY <2>1, <3>1, <3>3, <3>5 DEF Takes
  <2>3. CASE lock # Nobody /\ lock' = lock /\ Goto(p, "reread")
    <3>1. (\E v : Moves(p, v)) /\ proc'[p].at = "reread" /\ Others
      BY <1>1, <2>1, <2>3 DEF Where, Promoting
    <3>2. FilesOK'
      BY <1>0, <2>1, <2>3 DEF FilesOK
    <3>3. LockInv => LockInv'
      BY <2>1, <2>3, <3>1 DEF LockInv, Others, Holding, Rewriting
    <3> QED
      BY <2>1, <3>1, <3>2, <3>3 DEF Takes
  <2> QED
    BY <1>4, <2>2, <2>3 DEF Create
<1>7. CASE Recreate(p)
  <2>1. proc[p].at = "recreate" /\ UNCHANGED <<now, file, projects, notes, manifest, queue, acked, forced>>
    BY <1>7 DEF Recreate, At
  <2>2. CASE lock = Nobody /\ lock' = [owner |-> p, start |-> now, written |-> FALSE] /\ Goto(p, "fill")
    <3>1. (\E v : Moves(p, v)) /\ proc'[p].at = "fill" /\ Others
      BY <1>1, <2>1, <2>2 DEF Where, Promoting
    <3>2. lock' \in LockType /\ lock'.owner = p
      BY <1>0, <2>2 DEF FilesOK, LockType
    <3>3. FilesOK'
      BY <1>0, <2>1, <3>2 DEF FilesOK
    <3>4. lock' # Nobody
      BY <1>0, <2>2, NobodyIsNoLock DEF FilesOK
    <3>5. LockInv => LockInv'
      BY <2>1, <2>2, <3>1, <3>2, <3>4 DEF LockInv, Others
    <3> QED
      BY <2>1, <3>1, <3>3, <3>5 DEF Takes
  <2>3. CASE lock # Nobody /\ lock' = lock /\ Done(p)
    <3>1. (\E v : Moves(p, v)) /\ proc'[p].at = "idle" /\ Others
      BY <1>2, <2>1, <2>3 DEF Where, Promoting
    <3>2. FilesOK'
      BY <1>0, <2>1, <2>3 DEF FilesOK
    <3>3. LockInv => LockInv'
      BY <2>1, <2>3, <3>1 DEF LockInv, Others, Holding, Rewriting
    <3> QED
      BY <2>1, <3>1, <3>2, <3>3 DEF Takes
  <2> QED
    BY <1>7, <2>2, <2>3 DEF Recreate
<1>5. CASE Reread(p)
  <2>1. proc[p].at = "reread" /\ UNCHANGED <<now, file, projects, notes, manifest, queue, acked, lock, forced>>
    BY <1>5 DEF Reread, At
  <2>2. Goto(p, "unlink") \/ Done(p)
    BY <1>5 DEF Reread
  <2>3. (\E v : Moves(p, v)) /\ proc'[p].at \in {"idle", "unlink"} /\ Others
    BY <1>1, <1>2, <2>1, <2>2 DEF Where, Promoting
  <2>4. FilesOK'
    BY <1>0, <2>1 DEF FilesOK
  <2>5. LockInv => LockInv'
    BY <2>1, <2>3 DEF LockInv, Others, Holding, Rewriting
  <2> QED
    BY <2>1, <2>3, <2>4, <2>5 DEF Takes
<1>6. CASE Unlink(p)
  <2>1. proc[p].at = "unlink" /\ UNCHANGED <<now, file, projects, notes, manifest, queue, acked>>
        /\ lock' = Nobody /\ forced' = TRUE /\ Goto(p, "recreate")
    BY <1>6 DEF Unlink, At
  <2>2. (\E v : Moves(p, v)) /\ proc'[p].at = "recreate"
    BY <1>1, <2>1 DEF Where, Promoting
  <2>3. FilesOK'
    BY <1>0, <2>1 DEF FilesOK
  <2>4. LockInv'
    BY <2>1 DEF LockInv
  <2> QED
    BY <2>1, <2>2, <2>3, <2>4 DEF Takes
<1>8. CASE Fill(p)
  <2>1. proc[p].at = "fill" /\ UNCHANGED <<now, file, projects, notes, manifest, queue, acked, forced>>
        /\ Goto(p, "scan")
        /\ lock' = IF lock # Nobody /\ lock.owner = p THEN [lock EXCEPT !.written = TRUE] ELSE lock
    BY <1>8 DEF Fill, At
  <2>2. (\E v : Moves(p, v)) /\ proc'[p].at = "scan" /\ Others
    BY <1>1, <2>1 DEF Where, Promoting
  <2>3. CASE lock # Nobody /\ lock.owner = p
    <3>1. lock \in LockType
      BY <1>0, <2>3 DEF FilesOK
    <3>2. lock' \in LockType /\ lock'.owner = p
      BY <2>1, <2>3, <3>1 DEF LockType
    <3>3. lock' # Nobody
      BY <3>2, NobodyIsNoLock DEF LockType
    <3>4. FilesOK'
      BY <1>0, <2>1, <3>2 DEF FilesOK
    <3>5. LockInv => LockInv'
      BY <2>1, <2>2, <2>3, <3>2, <3>3 DEF LockInv, Others, Holding, Rewriting
    <3> QED
      BY <2>1, <2>2, <3>4, <3>5
  <2>4. CASE ~(lock # Nobody /\ lock.owner = p)
    <3>1. lock' = lock
      BY <2>1, <2>4
    <3>2. FilesOK'
      BY <1>0, <2>1, <3>1 DEF FilesOK
    <3>3. LockInv => LockInv'
      BY <2>1, <2>2, <3>1 DEF LockInv, Others, Holding, Rewriting
    <3> QED
      BY <2>1, <2>2, <3>2, <3>3
  <2> QED
    BY <2>3, <2>4
<1>9. CASE Release(p)
  <2> DEFINE v == [Idle EXCEPT !.at = "unlock"]
  <2>1. proc[p].at = "evict" /\ UNCHANGED <<now, file, projects, notes, manifest, queue, acked, lock, forced>>
        /\ (proc' = [proc EXCEPT ![p] = v] \/ Done(p))
    BY <1>9 DEF Release, At
  <2>2. FilesOK'
    BY <1>0, <2>1 DEF FilesOK
  <2>3. CASE Done(p)
    <3>1. (\E w : Moves(p, w)) /\ proc'[p].at = "idle" /\ Others
      BY <1>2, <2>3
    <3>2. LockInv => LockInv'
      BY <2>1, <3>1 DEF LockInv, Others, Holding, Rewriting
    <3> QED
      BY <2>1, <2>2, <3>1, <3>2
  <2>4. CASE proc' = [proc EXCEPT ![p] = v]
    <3>1. Moves(p, v)
      BY <2>4, IdleTyped DEF Moves
    <3>2. proc'[p].at = "unlock" /\ Others
      BY <3>1, MovesKeeps, IdleTyped DEF Others
    <3>3. LockInv => LockInv'
      BY <2>1, <3>2 DEF LockInv, Others, Holding, Rewriting
    <3> QED
      BY <2>1, <2>2, <3>1, <3>2, <3>3
  <2> QED
    BY <2>1, <2>3, <2>4
<1>10. CASE Unlock(p)
  <2>1. proc[p].at = "unlock" /\ UNCHANGED <<now, file, projects, notes, manifest, queue, acked, forced>>
        /\ lock' = Nobody /\ Done(p)
    BY <1>10 DEF Unlock, At
  <2>2. (\E v : Moves(p, v)) /\ proc'[p].at = "idle" /\ Others
    BY <1>2, <2>1
  <2>3. FilesOK'
    BY <1>0, <2>1 DEF FilesOK
  <2>4. LockInv => LockInv'
    BY <2>1, <2>2 DEF LockInv, Others, Holding, Rewriting
  <2> QED
    BY <2>1, <2>2, <2>3, <2>4
<1> QED
  BY <1>3, <1>4, <1>5, <1>6, <1>7, <1>8, <1>9, <1>10 DEF Locks
----------------------------------------------------------------------------
(* The archiver's phases. *)

\* What is about to be taken out of a file is in the manifest.
RecordedInv ==
    \A p \in Process : proc[p].at \in Rewriting =>
        IdsOf(proc[p].lines) \cap proc[p].plan[proc[p].f] \subseteq manifest

LEMMA EligibleTyped == ASSUME NEW lines \in Seq(Line), NEW t PROVE EligibleIds(lines, t) \subseteq IdsOf(lines)
  BY DEF EligibleIds, IdsOf

LEMMA OverBudgetTyped ==
    ASSUME NEW lines \in Seq(Line), NEW profile, NEW limit
    PROVE  OverBudget(lines, profile, limit) \subseteq Id
<1> DEFINE recs == LastWins(lines)
           counted(g) == Cardinality({i \in DOMAIN lines : BudgetGroup(lines[i], profile) = g})
           inTier(n) == Cardinality({i \in DOMAIN lines : BudgetTier(lines[i]) = n})
           P(g) == {i \in DOMAIN recs : recs[i].tier # 0 /\ BudgetGroup(recs[i], profile) = g}
           cand(g) == Subsequence(recs, P(g))
           excess(g) == counted(g) - limit[g[1]]
           evicted(g) == IF excess(g) > 0 /\ inTier(g[1]) > limit[g[1]]
                         THEN {cand(g)[i].id : i \in {j \in DOMAIN cand(g) : j <= excess(g)}} ELSE {}
<1>1. OverBudget(lines, profile, limit) =
        UNION {evicted(g) : g \in {BudgetGroup(lines[i], profile) : i \in DOMAIN lines}}
  BY DEF OverBudget, Filter
<1>2. recs \in Seq(Line)
  BY LastWinsTyped
<1> HIDE DEF recs
<1>3. ASSUME NEW g PROVE IdsOf(cand(g)) \subseteq Id
  <2>1. P(g) \in SUBSET DOMAIN recs
    OBVIOUS
  <2> HIDE DEF P
  <2>2. cand(g) \in Seq(Line)
    BY <1>2, <2>1, PartTyped
  <2> QED
    BY <2>2, IdsTyped
<1>4. ASSUME NEW g PROVE evicted(g) \subseteq IdsOf(cand(g))
  BY DEF IdsOf
<1> QED
  BY <1>1, <1>3, <1>4

LEMMA ArchiveSteps ==
    ASSUME StoreInv, RecordedInv, NEW p \in Process,
           Scan(p) \/ Budget(p) \/ (\E f \in File : Record(p, f)) \/ Rewrite(p)
    PROVE  /\ FilesOK' /\ (\E v : Moves(p, v)) /\ manifest \subseteq manifest'
           /\ UNCHANGED <<now, projects, notes, queue, lock, acked, forced>>
           /\ proc[p].at \in {"scan", "expire", "evict"} \cup Rewriting
           /\ proc'[p].at \in {"expire", "evict"} \cup Rewriting
           /\ proc'[p].at \in Rewriting =>
                /\ file' = file
                /\ IdsOf(proc'[p].lines) \cap proc'[p].plan[proc'[p].f] \subseteq manifest'
           /\ \A f \in File : \A id \in IdsOf(file[f]) \ IdsOf(file'[f]) :
                 proc[p].at \in Rewriting /\ (proc[p].f = f =>
                   id \in manifest \/ id \notin IdsOf(proc[p].lines))
<1>0. /\ FilesOK /\ proc \in [Process -> ProcType] /\ proc[p] \in ProcType /\ PlanOK(proc[p])
      /\ file \in [File -> Seq(Line)]
  BY DEF StoreInv, ProcsOK, FilesOK
<1>1. ASSUME NEW ids \in [File -> SUBSET Id], NEW where \in {"expire", "evict"}, Plan(p, ids, where)
      PROVE  (\E v : Moves(p, v)) /\ proc'[p].at = where
  <2> DEFINE todo == {f \in File : ids[f] # {}}
             v == [proc[p] EXCEPT !.at = where, !.plan = ids, !.todo = todo]
  <2>1. proc' = [proc EXCEPT ![p] = v]
    BY <1>0, <1>1 DEF Plan
  <2>2. v \in ProcType /\ v.at = where /\ v.plan = ids
    BY <1>0 DEF ProcType, Where
  <2>3. PlanOK(v)
    BY <2>2 DEF PlanOK, Promoting
  <2> HIDE DEF v
  <2>4. Moves(p, v)
    BY <2>1, <2>2, <2>3 DEF Moves
  <2> QED
    BY <2>2, <2>4, MovesKeeps
<1>2. CASE Scan(p)
  <2> DEFINE ids == [f \in File |-> EligibleIds(file[f], now)]
  <2>1. ids \in [File -> SUBSET Id]
    BY <1>0, EligibleTyped, IdsTyped
  <2>2. proc[p].at = "scan" /\ Plan(p, ids, "expire")
        /\ UNCHANGED <<now, file, projects, notes, manifest, queue, lock, acked, forced>>
    BY <1>2 DEF Scan, At
  <2> HIDE DEF ids
  <2>3. (\E v : Moves(p, v)) /\ proc'[p].at = "expire"
    BY <1>1, <2>1, <2>2
  <2>4. FilesOK'
    BY <1>0, <2>2 DEF FilesOK
  <2> QED
    BY <2>2, <2>3, <2>4 DEF Rewriting
<1>3. CASE Budget(p)
  <2> DEFINE evicted == OverBudget(Listing(file), Profile, TierMax)
             ids == [f \in File |-> evicted]
  <2>1. ids \in [File -> SUBSET Id]
    <3>1. evicted \subseteq Id
      BY <1>0, ListingTyped, OverBudgetTyped
    <3> HIDE DEF evicted
    <3> QED
      BY <3>1
  <2>2. proc[p].at = "expire" /\ Plan(p, ids, "evict")
        /\ UNCHANGED <<now, file, projects, notes, manifest, queue, lock, acked, forced>>
    BY <1>3 DEF Budget, At
  <2> HIDE DEF ids
  <2>3. (\E v : Moves(p, v)) /\ proc'[p].at = "evict"
    BY <1>1, <2>1, <2>2
  <2>4. FilesOK'
    BY <1>0, <2>2 DEF FilesOK
  <2> QED
    BY <2>2, <2>3, <2>4 DEF Rewriting
<1>4. ASSUME NEW f \in File, Record(p, f)
      PROVE  /\ FilesOK' /\ (\E v : Moves(p, v)) /\ manifest \subseteq manifest'
             /\ UNCHANGED <<now, file, projects, notes, queue, lock, acked, forced>>
             /\ proc[p].at \in {"expire", "evict"} /\ proc'[p].at \in Rewriting
             /\ IdsOf(proc'[p].lines) \cap proc'[p].plan[proc'[p].f] \subseteq manifest'
  <2> DEFINE where == IF proc[p].at = "expire" THEN "rewrite expired" ELSE "rewrite evicted"
             rest == proc[p].todo \ {f}
             v == [proc[p] EXCEPT !.at = where, !.f = f, !.lines = file[f], !.todo = rest]
  <2>1. /\ proc[p].at \in {"expire", "evict"}
        /\ manifest' = manifest \cup (IdsOf(file[f]) \cap proc[p].plan[f])
        /\ UNCHANGED <<now, file, projects, notes, queue, lock, acked, forced>>
    BY <1>4 DEF Record
  <2>2. proc' = [proc EXCEPT ![p] = v]
    BY <1>0, <1>4 DEF Record
  <2>3. where \in Rewriting
    BY DEF Rewriting
  <2> HIDE DEF where
  <2>4. file[f] \in Seq(Line) /\ rest \in SUBSET File
    BY <1>0 DEF ProcType
  <2> HIDE DEF rest
  <2>5. v \in ProcType /\ v.at = where /\ v.plan = proc[p].plan /\ v.lines = file[f] /\ v.f = f
    BY <1>0, <2>3, <2>4 DEF ProcType, Where
  <2>6. PlanOK(v)
    BY <1>0, <2>1, <2>3, <2>5 DEF PlanOK, Promoting, Rewriting
  <2> HIDE DEF v
  <2>7. Moves(p, v)
    BY <2>2, <2>5, <2>6 DEF Moves
  <2>8. proc'[p] = v
    BY <2>7, MovesKeeps
  <2>9. FilesOK'
    <3>1. manifest' \subseteq Id
      BY <1>0, <2>1, <2>4, IdsTyped DEF FilesOK
    <3> QED
      BY <1>0, <2>1, <3>1 DEF FilesOK
  <2> QED
    BY <2>1, <2>3, <2>5, <2>7, <2>8, <2>9
<1>5. CASE \E f \in File : Record(p, f)
  BY <1>4, <1>5
<1>6. CASE Rewrite(p)
  <2> DEFINE f == proc[p].f
             lines == proc[p].lines
             ids == proc[p].plan[f]
             where == IF proc[p].at = "rewrite expired" THEN "expire" ELSE "evict"
             plan == [proc[p].plan EXCEPT ![f] = {}]
             v == [proc[p] EXCEPT !.at = where, !.lines = <<>>, !.f = "shared", !.plan = plan]
  <2>1. /\ proc[p].at \in Rewriting
        /\ file' = IF IdsOf(lines) \cap ids = {} THEN file ELSE [file EXCEPT ![f] = Kept(lines, ids)]
        /\ UNCHANGED <<now, projects, notes, manifest, queue, lock, acked, forced>>
    BY <1>6 DEF Rewrite, Rewriting
  <2>2. proc' = [proc EXCEPT ![p] = v]
    BY <1>0, <1>6 DEF Rewrite, ProcType
  <2>3. f \in File /\ lines \in Seq(Line) /\ plan \in [File -> SUBSET (Id \cup Line)]
        /\ proc[p].plan \in [File -> SUBSET Id] /\ plan \in [File -> SUBSET Id]
    BY <1>0, <2>1 DEF ProcType, PlanOK, Promoting, Rewriting
  <2>4. IdsOf(lines) \cap ids \subseteq manifest
    BY <2>1 DEF RecordedInv
  <2>5. where \in {"expire", "evict"}
    OBVIOUS
  <2> HIDE DEF where, plan, ids, lines
  <2>6. v \in ProcType /\ v.at = where /\ v.plan = plan
    <3>1. <<>> \in Seq(Line) /\ "shared" \in File
      BY EmptySeq DEF File
    <3> QED
      BY <1>0, <2>3, <2>5, <3>1 DEF ProcType, Where
  <2>7. PlanOK(v)
    BY <2>3, <2>5, <2>6 DEF PlanOK, Promoting
  <2> HIDE DEF v, f
  <2>8. Moves(p, v) /\ proc'[p] = v
    <3>1. Moves(p, v)
      BY <2>2, <2>6, <2>7 DEF Moves
    <3> QED
      BY <3>1, MovesKeeps
  <2>9. Kept(lines, ids) \in Seq(Line) /\ IdsOf(lines) \ ids \subseteq IdsOf(Kept(lines, ids))
    BY <2>3, KeptTyped
  <2>10. file' \in [File -> Seq(Line)]
    BY <1>0, <2>1, <2>3, <2>9
  <2>11. FilesOK'
    BY <1>0, <2>1, <2>10 DEF FilesOK
  <2>12. ASSUME NEW g \in File, NEW id \in IdsOf(file[g]) \ IdsOf(file'[g])
         PROVE  f = g => id \in manifest \/ id \notin IdsOf(lines)
    BY <1>0, <2>1, <2>3, <2>4, <2>9, <2>12
  <2> QED
    BY <2>1, <2>5, <2>6, <2>8, <2>11, <2>12 DEF Rewriting, f, lines
<1> QED
  BY <1>2, <1>3, <1>4, <1>5, <1>6
----------------------------------------------------------------------------
(* The build. *)

LEMMA CoerceTyped == ASSUME NEW rec \in Line, NEW profile PROVE CoerceStructuredRecord(rec, profile) \in Line
<1>1. ComputeTier(profile) \in Int
  BY DEF ComputeTier
<1> QED
  BY <1>1 DEF CoerceStructuredRecord, Line

LEMMA ConcatTyped == ASSUME NEW s \in Seq(Line), NEW t \in Seq(Line) PROVE s \o t \in Seq(Line)
  BY ConcatProperties

LEMMA SharedInboxTyped == ASSUME FilesOK PROVE SharedInbox \in Seq(Line)
<1> DEFINE old == file["dream"]
           dreams == [i \in DOMAIN old |-> CoerceStructuredRecord(old[i], Profile[old[i].id])]
           P == {i \in DOMAIN notes : ~RecentDuplicate(notes[i].id, file["shared"] \o dreams, now)}
           fresh == Subsequence(notes, P)
           Q == {i \in DOMAIN dreams : dreams[i].id \notin IdsOf(fresh)}
           new == Subsequence(dreams, Q)
<1>1. SharedInbox = fresh \o LastWins(new)
  BY DEF SharedInbox, Filter
<1>2. old \in Seq(Line) /\ notes \in Seq(Line)
  BY DEF FilesOK, File
<1>3. dreams \in Seq(Line)
  <2>1. dreams \in [1..Len(old) -> Line] /\ Len(old) \in Nat
    BY <1>2, SeqIs, CoerceTyped
  <2> QED
    BY <2>1, FunctionIsSeq
<1> HIDE DEF dreams
<1>4. P \in SUBSET DOMAIN notes
  OBVIOUS
<1> HIDE DEF P
<1>5. fresh \in Seq(Line)
  BY <1>2, <1>4, PartTyped
<1>6. Q \in SUBSET DOMAIN dreams
  OBVIOUS
<1> HIDE DEF fresh, Q
<1>7. new \in Seq(Line)
  BY <1>3, <1>6, PartTyped
<1> HIDE DEF new
<1> QED
  BY <1>1, <1>5, <1>7, LastWinsTyped, ConcatTyped

LEMMA SessionMemoryTyped ==
    ASSUME FilesOK, NEW records \in Seq(Line)
    PROVE  SessionMemory(records) \in Seq(Line)
<1> DEFINE P == {i \in DOMAIN records : records[i].id \notin IdsOf(file["session"])}
<1>1. SessionMemory(records) = file["session"] \o Subsequence(records, P)
  BY DEF SessionMemory, Filter
<1>2. P \in SUBSET DOMAIN records
  OBVIOUS
<1> HIDE DEF P
<1>3. Subsequence(records, P) \in Seq(Line) /\ file["session"] \in Seq(Line)
  BY <1>2, PartTyped DEF FilesOK, File
<1> QED
  BY <1>1, <1>3, ConcatTyped

Building == {"build shared", "fill shared", "build session", "truncate session", "fill session"}

LEMMA BuildSteps ==
    ASSUME StoreInv, NEW p \in Process, Build(p)
    PROVE  /\ FilesOK' /\ (\E v : Moves(p, v))
           /\ UNCHANGED <<now, projects, notes, manifest, queue, lock, acked, forced>>
           /\ proc[p].at \in Building \cup {"idle"} /\ proc'[p].at \in Building \cup {"idle"}
<1>0. /\ FilesOK /\ proc \in [Process -> ProcType] /\ proc[p] \in ProcType /\ PlanOK(proc[p])
      /\ file \in [File -> Seq(Line)]
  BY DEF StoreInv, ProcsOK, FilesOK
<1>1. ASSUME NEW where \in Building \cup {"idle"}, proc[p].at \in Building \cup {"idle"},
             NEW lines \in Seq(Line), NEW more \in Seq(Line),
             proc' = [proc EXCEPT ![p].at = where, ![p].lines = lines, ![p].more = more]
      PROVE  (\E v : Moves(p, v)) /\ proc'[p].at = where
  <2> DEFINE v == [proc[p] EXCEPT !.at = where, !.lines = lines, !.more = more]
  <2>1. proc' = [proc EXCEPT ![p] = v]
    BY <1>0, <1>1
  <2>2. v \in ProcType /\ v.at = where /\ v.plan = proc[p].plan
    BY <1>0 DEF ProcType, Where, Building
  <2>3. PlanOK(v)
    BY <1>0, <1>1, <2>2 DEF PlanOK, Promoting, Building
  <2> HIDE DEF v
  <2>4. Moves(p, v)
    BY <2>1, <2>2, <2>3 DEF Moves
  <2> QED
    BY <2>2, <2>4, MovesKeeps
<1>2. <<>> \in Seq(Line)
  BY EmptySeq
<1>3. CASE StartBuild(p)
  <2>1. proc[p].at = "idle" /\ UNCHANGED <<now, file, projects, notes, manifest, queue, lock, acked, forced>>
        /\ proc' = [proc EXCEPT ![p].at = "build shared", ![p].lines = SharedInbox, ![p].more = projects]
    BY <1>3 DEF StartBuild, Idles, At
  <2>2. (\E v : Moves(p, v)) /\ proc'[p].at = "build shared"
    <3>1. SharedInbox \in Seq(Line) /\ projects \in Seq(Line)
      BY <1>0, SharedInboxTyped DEF FilesOK
    <3> QED
      BY <1>1, <2>1, <3>1 DEF Building
  <2>3. FilesOK'
    BY <1>0, <2>1 DEF FilesOK
  <2> QED
    BY <2>1, <2>2, <2>3 DEF Building
<1>4. ASSUME NEW f \in File, NEW here \in Building, NEW next \in Building, Truncate(p, f, here, next)
      PROVE  /\ FilesOK' /\ (\E v : Moves(p, v)) /\ proc'[p].at = next /\ proc[p].at = here
             /\ UNCHANGED <<now, projects, notes, manifest, queue, lock, acked, forced>>
  <2>1. proc[p].at = here /\ file' = [file EXCEPT ![f] = <<>>] /\ Goto(p, next)
        /\ UNCHANGED <<now, projects, notes, manifest, queue, lock, acked, forced>>
    BY <1>4 DEF Truncate, At
  <2>2. (\E v : Moves(p, v)) /\ proc'[p].at = next
    BY <2>1, GotoMoves DEF Building, Where, Promoting
  <2>3. file' \in [File -> Seq(Line)]
    BY <1>0, <1>2, <2>1
  <2>4. FilesOK'
    BY <1>0, <2>1, <2>3 DEF FilesOK
  <2> QED
    BY <2>1, <2>2, <2>4
<1>5. ASSUME NEW f \in File, NEW here \in Building, NEW next \in Building \cup {"idle"}, FillFile(p, f, here, next)
      PROVE  /\ FilesOK' /\ (\E v : Moves(p, v)) /\ proc'[p].at = next /\ proc[p].at = here
             /\ UNCHANGED <<now, projects, notes, manifest, queue, lock, acked, forced>>
  <2> DEFINE v == [proc[p] EXCEPT !.at = next, !.lines = <<>>]
  <2>1. /\ proc[p].at = here
        /\ file' = IF proc[p].lines = <<>> THEN file ELSE [file EXCEPT ![f] = proc[p].lines]
        /\ UNCHANGED <<now, projects, notes, manifest, queue, lock, acked, forced>>
    BY <1>5 DEF FillFile, At
  <2>2. proc' = [proc EXCEPT ![p] = v]
    BY <1>0, <1>5 DEF FillFile
  <2>3. v \in ProcType /\ v.at = next /\ v.plan = proc[p].plan
    BY <1>0, <1>2 DEF ProcType, Where, Building
  <2>4. PlanOK(v)
    BY <1>0, <2>1, <2>3 DEF PlanOK, Promoting, Building
  <2> HIDE DEF v
  <2>5. Moves(p, v)
    BY <2>2, <2>3, <2>4 DEF Moves
  <2>6. proc'[p].at = next
    BY <2>3, <2>5, MovesKeeps
  <2>7. file' \in [File -> Seq(Line)]
    BY <1>0, <2>1 DEF ProcType
  <2>8. FilesOK'
    BY <1>0, <2>1, <2>7 DEF FilesOK
  <2> QED
    BY <2>1, <2>5, <2>6, <2>8
<1>6. CASE ReadSession(p)
  <2> DEFINE lines == SessionMemory(proc[p].more)
  <2>1. proc[p].at = "build session" /\ UNCHANGED <<now, file, projects, notes, manifest, queue, lock, acked, forced>>
        /\ proc' = [proc EXCEPT ![p].at = "truncate session", ![p].lines = lines, ![p].more = <<>>]
    BY <1>6 DEF ReadSession, At
  <2>2. lines \in Seq(Line)
    BY <1>0, SessionMemoryTyped DEF ProcType
  <2> HIDE DEF lines
  <2>3. (\E v : Moves(p, v)) /\ proc'[p].at = "truncate session"
    BY <1>1, <1>2, <2>1, <2>2 DEF Building
  <2>4. FilesOK'
    BY <1>0, <2>1 DEF FilesOK
  <2> QED
    BY <2>1, <2>3, <2>4 DEF Building
<1>7. CASE Truncate(p, "shared", "build shared", "fill shared")
  BY <1>4, <1>7 DEF File, Building
<1>8. CASE FillFile(p, "shared", "fill shared", "build session")
  BY <1>5, <1>8 DEF File, Building
<1>9. CASE Truncate(p, "session", "truncate session", "fill session")
  BY <1>4, <1>9 DEF File, Building
<1>10. CASE FillFile(p, "session", "fill session", "idle")
  BY <1>5, <1>10 DEF File, Building
<1> QED
  BY <1>3, <1>6, <1>7, <1>8, <1>9, <1>10 DEF Build
----------------------------------------------------------------------------
(* Promotion. *)

Candidate == [id : Id, score : Int, from : Int, to : Int, scored : Nat, review : BOOLEAN]

LEMMA ScoreTyped ==
    ASSUME NEW rec \in Line, NEW t \in Nat, NEW profile, profile.conf \in Nat
    PROVE  ScoreCandidate(rec, profile, t) \in Candidate
<1>1. rec.t \in Nat /\ rec.tier \in Int /\ rec.id \in Id
  BY DEF Line
<1>2. ScoreRecency(t - rec.t) \in Int
  <2> DEFINE age == t - rec.t
             past == IF age < 0 THEN 0 ELSE age \div (30 * Day)
  <2>1. past \in Nat
    BY <1>1 DEF Day
  <2> HIDE DEF past
  <2>2. past < 14 => HalfLives[past + 1] \in Int
    <3>1. \A k \in 1..14 : HalfLives[k] \in Int
      BY DEF HalfLives
    <3> QED
      BY <2>1, <3>1
  <2> QED
    BY <2>1, <2>2 DEF ScoreRecency, past
<1>3. ScoreSourceQuality(profile) \in Int
  BY DEF ScoreSourceQuality
<1> DEFINE total == 30 * ScoreRecency(t - rec.t) + 35 * 100 * profile.conf + 10 * ScoreSourceQuality(profile)
           score == total \div 100
           from == PromotionTier(rec)
<1>4. total \in Int
  BY <1>2, <1>3
<1> HIDE DEF total
<1>5. score \in Int
  BY <1>4
<1>6. from \in Int
  BY <1>1 DEF PromotionTier
<1>7. ScoreCandidate(rec, profile, t) =
        [id |-> rec.id, score |-> score, from |-> from, to |-> IF from + 1 > 4 THEN 4 ELSE from + 1,
         scored |-> t, review |-> score >= 4000 /\ score < 6500]
  BY DEF ScoreCandidate, total
<1> HIDE DEF score, from
<1> QED
  BY <1>1, <1>5, <1>6, <1>7 DEF Candidate

LEMMA QueueTyped ==
    ASSUME NEW lines \in Seq(Line), NEW t \in Nat, NEW alike
    PROVE  PromotionQueue(lines, Profile, t, alike) \in Seq(Entry)
<1> DEFINE P == {i \in DOMAIN lines : PromotionTier(lines[i]) \in 2..3}
           cands == Subsequence(lines, P)
           scored == [i \in DOMAIN cands |-> ScoreCandidate(cands[i], Profile[cands[i].id], t)]
           better == {ij \in (DOMAIN scored) \X (DOMAIN scored) :
                        \/ scored[ij[1]].score > scored[ij[2]].score
                        \/ scored[ij[1]].score = scored[ij[2]].score /\ ij[1] < ij[2]}
           ids == IdsOf(cands)
           sorted == Sorted(scored, better)
           with(e) == [id |-> e.id, score |-> e.score, from |-> e.from, to |-> e.to, scored |-> e.scored,
                       review |-> e.review, conflicts |-> {o \in ids \ {e.id} : {e.id, o} \in alike}]
<1>1. cands \in Seq(Line)
  <2>1. P \in SUBSET DOMAIN lines
    OBVIOUS
  <2> HIDE DEF P
  <2> QED
    BY <2>1, PartTyped
<1>2. PromotionQueue(lines, Profile, t, alike) = [i \in DOMAIN sorted |-> with(sorted[i])]
  BY DEF PromotionQueue, Filter
<1> HIDE DEF cands
<1>3. ids \subseteq Id
  BY <1>1, IdsTyped
<1> DEFINE n == Len(cands)
<1>4. n \in Nat /\ DOMAIN cands = 1..n /\ \A i \in 1..n : cands[i] \in Line
  BY <1>1, SeqIs
<1>5. scored \in Seq(Candidate) /\ DOMAIN scored = 1..n /\ \A i \in 1..n : scored[i] \in Candidate
  <2>1. \A i \in 1..n : Profile[cands[i].id].conf \in Nat
    BY <1>4, StoreAssumption DEF Line
  <2>2. \A i \in 1..n : ScoreCandidate(cands[i], Profile[cands[i].id], t) \in Candidate
    BY <1>4, <2>1, ScoreTyped
  <2>3. scored \in [1..n -> Candidate]
    BY <1>4, <2>2
  <2> HIDE DEF scored, n
  <2> QED
    BY <1>4, <2>3, FunctionIsSeq
<1> HIDE DEF scored, n
<1>6. \A i \in 1..n : scored[i].score \in Int
  BY <1>5 DEF Candidate
<1>7. \A i, j \in 1..n : <<i, j>> \in better <=>
         \/ scored[i].score > scored[j].score
         \/ scored[i].score = scored[j].score /\ i < j
  BY <1>5
<1> HIDE DEF better
<1>8. \A i, j \in 1..n : i = j \/ <<i, j>> \in better \/ <<j, i>> \in better
  <2> TAKE i, j \in 1..n
  <2> DEFINE a == scored[i].score
             b == scored[j].score
  <2>1. a \in Int /\ b \in Int /\ i \in Int /\ j \in Int
    BY <1>4, <1>6
  <2>2. /\ a > b \/ (a = b /\ i < j) => <<i, j>> \in better
        /\ b > a \/ (b = a /\ j < i) => <<j, i>> \in better
    BY <1>7
  <2> HIDE DEF a, b
  <2> QED
    BY <2>1, <2>2
<1>9. \A i, j \in 1..n : <<i, j>> \in better => i # j /\ <<j, i>> \notin better
  BY <1>4, <1>6, <1>7
<1>10. \A i, j, k \in 1..n : <<i, j>> \in better /\ <<j, k>> \in better => <<i, k>> \in better
  BY <1>4, <1>6, <1>7
<1>11. sorted \in Seq(Candidate)
  BY <1>5, <1>8, <1>9, <1>10, SortedTyped
<1> HIDE DEF sorted
<1>12. \A e \in Candidate : with(e) \in Entry
  BY <1>3 DEF Candidate, Entry
<1> HIDE DEF with
<1>13. Len(sorted) \in Nat /\ DOMAIN sorted = 1..Len(sorted) /\ \A i \in 1..Len(sorted) : sorted[i] \in Candidate
  BY <1>11, SeqIs
<1>14. PromotionQueue(lines, Profile, t, alike) \in [1..Len(sorted) -> Entry]
  BY <1>2, <1>12, <1>13
<1> QED
  BY <1>13, <1>14, FunctionIsSeq
\* compareEntries puts one of any entries first.
LEMMA BeforeHasFirst ==
    ASSUME NEW q \in Seq(Entry), NEW lines \in Seq(Line), NEW P \in SUBSET DOMAIN q, P # {}
    PROVE  \E i \in P : \A j \in P : Before(q, lines, i, j)
<1> DEFINE n == Len(q)
           access(i) == LastAccess(q[i], lines)
           Prior == {ij \in P \X P : ij[1] # ij[2] /\ Before(q, lines, ij[1], ij[2])}
           first == Ranked(P, Prior, 0)
<1>1. n \in Nat /\ DOMAIN q = 1..n /\ \A i \in 1..n : q[i] \in Entry
  BY SeqIs
<1>2. \A i \in P : i \in Int /\ q[i].score \in Int
  BY <1>1 DEF Entry
<1>3. \A i \in P : access(i) \in Int
  <2> TAKE i \in P
  <2>1. q[i].scored \in Nat
    BY <1>1 DEF Entry
  <2>2. q[i].id \in IdsOf(lines) => LastOf(lines, q[i].id).t \in Nat
    BY LastOfTyped DEF Line
  <2> QED
    BY <2>1, <2>2 DEF LastAccess
<1>4. \A i, j \in P : Before(q, lines, i, j) <=>
         \/ q[i].score > q[j].score
         \/ q[i].score = q[j].score /\ access(i) > access(j)
         \/ q[i].score = q[j].score /\ access(i) = access(j) /\ i <= j
  BY DEF Before
<1>5. \A i, j \in P : <<i, j>> \in Prior <=> i # j /\ Before(q, lines, i, j)
  OBVIOUS
<1> HIDE DEF access, Prior
<1>6. \A i, j \in P : i = j \/ <<i, j>> \in Prior \/ <<j, i>> \in Prior
  <2> TAKE i, j \in P
  <2> DEFINE a == q[i].score
             b == q[j].score
  <2>1. a \in Int /\ b \in Int /\ access(i) \in Int /\ access(j) \in Int /\ i \in Int /\ j \in Int
    BY <1>2, <1>3
  <2>2. Before(q, lines, i, j) <=> (a > b \/ (a = b /\ (access(i) > access(j) \/ (access(i) = access(j) /\ i <= j))))
    BY <1>4
  <2>4. Before(q, lines, j, i) <=> (b > a \/ (b = a /\ (access(j) > access(i) \/ (access(j) = access(i) /\ j <= i))))
    BY <1>4
  <2> HIDE DEF a, b
  <2>3. Before(q, lines, i, j) \/ Before(q, lines, j, i)
    BY <2>1, <2>2, <2>4
  <2> QED
    BY <1>5, <2>3
<1>7. \A i, j \in P : <<i, j>> \in Prior => i # j /\ <<j, i>> \notin Prior
  <2> SUFFICES ASSUME NEW i \in P, NEW j \in P, <<i, j>> \in Prior
               PROVE  i # j /\ <<j, i>> \notin Prior
    OBVIOUS
  <2> DEFINE a == q[i].score
             b == q[j].score
  <2>1. a \in Int /\ b \in Int /\ access(i) \in Int /\ access(j) \in Int /\ i \in Int /\ j \in Int
    BY <1>2, <1>3
  <2>2. i # j /\ (a > b \/ (a = b /\ (access(i) > access(j) \/ (access(i) = access(j) /\ i <= j))))
    BY <1>4, <1>5
  <2>3. Before(q, lines, j, i) => (b > a \/ (b = a /\ (access(j) > access(i) \/ (access(j) = access(i) /\ j <= i))))
    BY <1>4
  <2> HIDE DEF a, b
  <2>4. ~Before(q, lines, j, i)
    BY <2>1, <2>2, <2>3
  <2> QED
    BY <1>5, <2>2, <2>4
<1>8. \A i, j, k \in P : <<i, j>> \in Prior /\ <<j, k>> \in Prior => <<i, k>> \in Prior
  <2> SUFFICES ASSUME NEW i \in P, NEW j \in P, NEW k \in P, <<i, j>> \in Prior, <<j, k>> \in Prior
               PROVE  <<i, k>> \in Prior
    OBVIOUS
  <2> DEFINE a == q[i].score
             b == q[j].score
             c == q[k].score
  <2>1. a \in Int /\ b \in Int /\ c \in Int /\ access(i) \in Int /\ access(j) \in Int /\ access(k) \in Int
        /\ i \in Int /\ j \in Int /\ k \in Int
    BY <1>2, <1>3
  <2>2. i # j /\ j # k /\ Before(q, lines, i, j) /\ Before(q, lines, j, k)
    BY <1>5
  <2>3. a > b \/ (a = b /\ (access(i) > access(j) \/ (access(i) = access(j) /\ i <= j)))
    BY <1>4, <2>2
  <2>5. b > c \/ (b = c /\ (access(j) > access(k) \/ (access(j) = access(k) /\ j <= k)))
    BY <1>4, <2>2
  <2>6. Before(q, lines, i, k) <=> (a > c \/ (a = c /\ (access(i) > access(k) \/ (access(i) = access(k) /\ i <= k))))
    BY <1>4
  <2> HIDE DEF a, b, c
  <2>7. a > c \/ (a = c /\ (access(i) > access(k) \/ (access(i) = access(k) /\ i <= k)))
    BY <2>1, <2>3, <2>5
  <2>8. i # k
    <3> SUFFICES ASSUME i = k PROVE FALSE
      OBVIOUS
    <3>1. a = c /\ access(i) = access(k)
      BY DEF a, c
    <3>2. a = b /\ access(i) = access(j) /\ i <= j /\ j <= k
      BY <2>1, <2>3, <2>5, <3>1
    <3> QED
      BY <2>1, <2>2, <3>2
  <2>4. i # k /\ Before(q, lines, i, k)
    BY <2>6, <2>7, <2>8
  <2> QED
    BY <1>5, <2>4
<1>9. IsFiniteSet(P) /\ Cardinality(P) \in Nat
  BY <1>1, SubsequencePlaces
<1>10. Cardinality(P) # 0
  BY <1>9, FS_EmptySet
<1> HIDE DEF first
<1>11. first \in P /\ Cardinality({j \in P : <<j, first>> \in Prior}) = 0
  <2>1. \A k \in 0..(Cardinality(P) - 1) :
           Ranked(P, Prior, k) \in P /\ Cardinality({j \in P : <<j, Ranked(P, Prior, k)>> \in Prior}) = k
    BY <1>6, <1>7, <1>8, <1>9, RankedPlaces
  <2>2. 0 \in 0..(Cardinality(P) - 1)
    BY <1>9, <1>10
  <2> QED
    BY <2>1, <2>2 DEF first
<1>12. {j \in P : <<j, first>> \in Prior} = {}
  <2>1. {j \in P : <<j, first>> \in Prior} \in SUBSET P
    OBVIOUS
  <2> QED
    BY <1>9, <1>11, <2>1, FS_Subset, FS_EmptySet
<1>13. \A j \in P : j = first \/ <<first, j>> \in Prior
  BY <1>6, <1>11, <1>12
<1>14. Before(q, lines, first, first)
  BY <1>2, <1>3, <1>4, <1>11
<1> QED
  BY <1>5, <1>11, <1>13, <1>14

\* Being connected in the conflict graph is an equivalence.
LEMMA ComponentIs ==
    ASSUME NEW q
    PROVE  /\ \A i \in DOMAIN q : q[i].id \in Component(q, q[i].id)
           /\ \A x : \A y \in Component(q, x) :
                 x \in IdsOf(q) => Component(q, y) = Component(q, x)
<1> DEFINE nodes == IdsOf(q) \cup UNION {q[i].conflicts : i \in DOMAIN q}
           edge(x, y) == \E i \in DOMAIN q : \/ q[i].id = x /\ y \in q[i].conflicts
                                             \/ q[i].id = y /\ x \in q[i].conflicts
           closed(S) == \A x \in S, y \in nodes : edge(x, y) => y \in S
           comp(x) == {y \in nodes : \A S \in SUBSET nodes : x \in S /\ closed(S) => y \in S}
<1>1. \A x : Component(q, x) = comp(x)
  BY DEF Component
<1>2. \A x, y : edge(x, y) => edge(y, x)
  OBVIOUS
<1>3. \A i \in DOMAIN q : q[i].id \in nodes
  BY DEF IdsOf
<1>4. IdsOf(q) \subseteq nodes
  OBVIOUS
<1> HIDE DEF nodes, edge
<1>5. \A x \in nodes : x \in comp(x)
  OBVIOUS
<1>6. \A x : \A y \in comp(x) : comp(y) \subseteq comp(x)
  OBVIOUS
<1>7. ASSUME NEW x \in nodes, NEW y \in comp(x) PROVE x \in comp(y)
  <2> SUFFICES ASSUME NEW S \in SUBSET nodes, y \in S, closed(S), x \notin S PROVE FALSE
    OBVIOUS
  <2>1. closed(nodes \ S)
    BY <1>2
  <2>2. x \in nodes \ S /\ nodes \ S \in SUBSET nodes
    OBVIOUS
  <2>3. y \in nodes \ S
    BY <1>7, <2>1, <2>2
  <2> QED
    BY <2>3
<1>8. \A x \in nodes : \A y \in comp(x) : comp(y) = comp(x)
  BY <1>6, <1>7
<1> HIDE DEF comp
<1> QED
  BY <1>1, <1>3, <1>4, <1>5, <1>8

\* The first of the entries that conflict is the only one that is promoted.
LEMMA OnlyWinner ==
    ASSUME NEW q \in Seq(Entry), NEW lines \in Seq(Line), NEW i \in DOMAIN q
    PROVE  \E id : {q[j].id : j \in {k \in ResolveConflicts(q, lines).resolved :
                                       q[k].id \in Component(q, q[i].id)}} = {id}
<1> DEFINE alone(k) == Component(q, q[k].id) = {q[k].id}
           rivals(k) == {j \in DOMAIN q : q[j].id \in Component(q, q[k].id)}
           winner(k) == CHOOSE j \in rivals(k) : \A m \in rivals(k) : Before(q, lines, j, m)
           resolved == {k \in DOMAIN q : ~(~alone(k) /\ winner(k) # k)}
           C == Component(q, q[i].id)
<1>1. ResolveConflicts(q, lines).resolved = resolved
  BY DEF ResolveConflicts
<1>2. q[i].id \in C /\ \A k \in rivals(i) : Component(q, q[k].id) = C
  BY ComponentIs DEF IdsOf
<1>3. CASE alone(i)
  <2>1. {q[j].id : j \in {k \in resolved : q[k].id \in C}} = {q[i].id}
    BY <1>3
  <2> QED
    BY <1>1, <2>1
<1>4. CASE ~alone(i)
  <2> DEFINE w == winner(i)
  <2>1. w \in rivals(i)
    <3>1. rivals(i) \in SUBSET DOMAIN q /\ rivals(i) # {}
      BY <1>2
    <3> HIDE DEF rivals
    <3>2. \E j \in rivals(i) : \A m \in rivals(i) : Before(q, lines, j, m)
      BY <3>1, BeforeHasFirst
    <3> QED
      BY <3>2
  <2>2. \A k \in rivals(i) : rivals(k) = rivals(i)
    BY <1>2
  <2>3. \A k \in rivals(i) : winner(k) = w
    BY <2>2
  <2>4. \A k \in rivals(i) : ~alone(k)
    <3> TAKE k \in rivals(i)
    <3>1. Component(q, q[k].id) = C
      BY <1>2
    <3> QED
      BY <1>2, <1>4, <3>1
  <2>5. \A k \in DOMAIN q : k \in rivals(i) <=> q[k].id \in C
    OBVIOUS
  <2>6. w \in DOMAIN q
    BY <2>1
  <2> HIDE DEF rivals, winner, w, alone, C
  <2>7. \A k \in DOMAIN q : (k \in resolved /\ q[k].id \in C) <=> k = w
    BY <2>1, <2>3, <2>4, <2>5, <2>6
  <2> HIDE DEF resolved
  <2>9. resolved \subseteq DOMAIN q
    BY DEF resolved
  <2>8. {k \in resolved : q[k].id \in C} = {w}
    BY <2>6, <2>7, <2>9
  <2>10. {q[j].id : j \in {k \in resolved : q[k].id \in C}} = {q[w].id}
    BY <2>8
  <2> QED
    BY <1>1, <2>10 DEF C
<1> QED
  BY <1>3, <1>4
LEMMA ResolvedTierTyped ==
    ASSUME NEW q \in Seq(Entry), NEW lines \in Seq(Line), NEW id
    PROVE  ResolvedTier(q, lines, id) \in Int
<1> DEFINE mine == {i \in ResolveConflicts(q, lines).resolved : q[i].id = id}
           first == CHOOSE i \in mine : \A j \in mine : Before(q, lines, i, j)
<1>1. ResolvedTier(q, lines, id) = IF mine = {} THEN 0 ELSE q[first].to
  BY DEF ResolvedTier
<1>2. ResolveConflicts(q, lines).resolved \subseteq DOMAIN q
  BY DEF ResolveConflicts
<1>3. mine \in SUBSET DOMAIN q
  BY <1>2
<1> HIDE DEF mine
<1>4. mine # {} => first \in DOMAIN q
  BY <1>3, BeforeHasFirst
<1> HIDE DEF first
<1>5. \A k \in DOMAIN q : q[k].to \in Int
  <2>1. \A k \in DOMAIN q : q[k] \in Entry
    BY SeqIs
  <2> QED
    BY <2>1 DEF Entry
<1> QED
  BY <1>1, <1>4, <1>5

LEMMA PromoteTyped ==
    ASSUME NEW rec \in Line, NEW tier \in Int PROVE Promote(rec, tier) \in Line
<1> DEFINE a == [rec EXCEPT !.tier = tier]
           promos == IF rec.promos >= 1 THEN 2 ELSE 1
           b == [a EXCEPT !.promos = promos]
<1>1. a \in Line
  BY DEF Line
<1>2. promos \in Int
  OBVIOUS
<1>3. Promote(rec, tier) = b
  BY DEF Promote
<1> HIDE DEF a, promos
<1>4. b \in Line
  BY <1>1, <1>2 DEF Line
<1> QED
  BY <1>3, <1>4

LEMMA ChangedTyped ==
    ASSUME NEW lines \in Seq(Line), NEW changes \in SUBSET Line
    PROVE  Changed(lines, changes) \in Seq(Line) /\ IdsOf(Changed(lines, changes)) = IdsOf(lines)
<1> DEFINE n == Len(lines)
           new == Changed(lines, changes)
           change(id) == CHOOSE c \in changes : c.id = id
<1>1. n \in Nat /\ DOMAIN lines = 1..n /\ \A i \in 1..n : lines[i] \in Line
  BY SeqIs
<1>2. new = [i \in 1..n |-> IF lines[i].id \in {c.id : c \in changes} THEN change(lines[i].id) ELSE lines[i]]
  BY <1>1 DEF Changed
<1>3. \A id \in {c.id : c \in changes} : change(id) \in changes /\ change(id).id = id
  OBVIOUS
<1> HIDE DEF new, n, change
<1>4. \A i \in 1..n : new[i] \in Line /\ new[i].id = lines[i].id
  BY <1>1, <1>2, <1>3
<1>5. new \in [1..n -> Line]
  BY <1>2, <1>4
<1>6. new \in Seq(Line) /\ DOMAIN new = 1..n
  BY <1>1, <1>5, FunctionIsSeq
<1>7. IdsOf(new) = IdsOf(lines)
  BY <1>1, <1>4, <1>6 DEF IdsOf
<1> QED
  BY <1>6, <1>7 DEF new

LEMMA PromotionSteps ==
    ASSUME StoreInv, NEW p \in Process, Promotion(p)
    PROVE  /\ FilesOK'
           /\ (\E v : Moves(p, v)) \/ proc' = proc
           /\ UNCHANGED <<now, projects, notes, manifest, lock, acked, forced>>
           /\ proc[p].at \in Promoting \cup {"idle"} /\ proc'[p].at \in Promoting \cup {"idle"}
           /\ \A f \in File : \A id \in IdsOf(file[f]) \ IdsOf(file'[f]) :
                 proc[p].at \in Promoting /\ (proc[p].f = f => id \notin IdsOf(proc[p].lines))
<1>0. /\ FilesOK /\ proc \in [Process -> ProcType] /\ proc[p] \in ProcType /\ PlanOK(proc[p])
      /\ file \in [File -> Seq(Line)] /\ queue \in Seq(Entry) /\ Listing(file) \in Seq(Line)
  <2>1. FilesOK /\ proc \in [Process -> ProcType] /\ PlanOK(proc[p])
    BY DEF StoreInv, ProcsOK
  <2>2. file \in [File -> Seq(Line)] /\ queue \in Seq(Entry)
    BY <2>1 DEF FilesOK
  <2> QED
    BY <2>1, <2>2, ListingTyped
<1>1. CASE Score(p)
  <2>1. /\ proc[p].at = "idle" /\ queue' = PromotionQueue(Listing(file), Profile, now, Alike)
        /\ UNCHANGED <<now, file, projects, notes, manifest, lock, proc, acked, forced>>
    BY <1>1 DEF Score, Idles, At
  <2>2. now \in Nat
    BY <1>0, StoreAssumption DEF FilesOK
  <2>3. queue' \in Seq(Entry)
    BY <1>0, <2>1, <2>2, QueueTyped
  <2>4. FilesOK'
    BY <1>0, <2>1, <2>3 DEF FilesOK
  <2> QED
    BY <2>1, <2>4
<1>2. CASE Resolve(p)
  <2> DEFINE all == Listing(file)
             ids == {id \in IdsOf(queue) \cap IdsOf(all) : ResolvedTier(queue, all, id) # 0}
             change(id) == Promote(LastOf(all, id), ResolvedTier(queue, all, id))
             changes == [f \in File |-> {change(id) : id \in {x \in ids : SourceFile(x) = f}}]
             todo == {f \in File : changes[f] # {}}
             v == [proc[p] EXCEPT !.at = "promote", !.plan = changes, !.todo = todo]
  <2>1. /\ proc[p].at = "idle" /\ UNCHANGED <<now, file, queue, projects, notes, manifest, lock, acked, forced>>
    BY <1>2 DEF Resolve, Idles, At
  <2>2. proc' = [proc EXCEPT ![p] = v]
    BY <1>0, <1>2 DEF Resolve, LoadStructuredRecords
  <2>3. \A id \in ids : change(id) \in Line
    BY <1>0, LastOfTyped, ResolvedTierTyped, PromoteTyped
  <2> HIDE DEF change
  <2>4. changes \in [File -> SUBSET Line]
    BY <2>3
  <2> HIDE DEF changes
  <2>5. todo \in SUBSET File
    OBVIOUS
  <2> HIDE DEF todo
  <2>6. v \in ProcType /\ v.at = "promote" /\ v.plan = changes
    <3>1. changes \in [File -> SUBSET (Id \cup Line)]
      BY <2>4
    <3> QED
      BY <1>0, <2>5, <3>1 DEF ProcType, Where, Promoting
  <2>7. PlanOK(v)
    BY <2>4, <2>6 DEF PlanOK, Promoting
  <2> HIDE DEF v
  <2>8. Moves(p, v)
    BY <2>2, <2>6, <2>7 DEF Moves
  <2>9. proc'[p].at = "promote"
    BY <2>6, <2>8, MovesKeeps
  <2>10. FilesOK'
    BY <1>0, <2>1 DEF FilesOK
  <2> QED
    BY <2>1, <2>8, <2>9, <2>10 DEF Promoting
<1>3. ASSUME NEW f \in File, PromoteRead(p, f)
      PROVE  /\ FilesOK' /\ (\E v : Moves(p, v)) /\ proc[p].at = "promote" /\ proc'[p].at = "promote write"
             /\ UNCHANGED <<now, file, queue, projects, notes, manifest, lock, acked, forced>>
  <2> DEFINE rest == proc[p].todo \ {f}
             v == [proc[p] EXCEPT !.at = "promote write", !.f = f, !.lines = file[f], !.todo = rest]
  <2>1. proc[p].at = "promote" /\ UNCHANGED <<now, file, queue, projects, notes, manifest, lock, acked, forced>>
    BY <1>3 DEF PromoteRead, At
  <2>2. proc' = [proc EXCEPT ![p] = v]
    BY <1>0, <1>3 DEF PromoteRead
  <2>3. rest \in SUBSET File /\ file[f] \in Seq(Line)
    BY <1>0 DEF ProcType
  <2> HIDE DEF rest
  <2>4. v \in ProcType /\ v.at = "promote write" /\ v.plan = proc[p].plan
    BY <1>0, <2>3 DEF ProcType, Where, Promoting
  <2>5. PlanOK(v)
    BY <1>0, <2>1, <2>4 DEF PlanOK, Promoting
  <2> HIDE DEF v
  <2>6. Moves(p, v)
    BY <2>2, <2>4, <2>5 DEF Moves
  <2>7. proc'[p].at = "promote write"
    BY <2>4, <2>6, MovesKeeps
  <2>8. FilesOK'
    BY <1>0, <2>1 DEF FilesOK
  <2> QED
    BY <2>1, <2>6, <2>7, <2>8
<1>4. CASE PromoteWrite(p)
  <2> DEFINE f == proc[p].f
             lines == proc[p].lines
             new == Changed(lines, proc[p].plan[f])
             plan == [proc[p].plan EXCEPT ![f] = {}]
             v == [proc[p] EXCEPT !.at = "promote", !.lines = <<>>, !.plan = plan]
  <2>1. /\ proc[p].at = "promote write" /\ file' = [file EXCEPT ![f] = new]
        /\ UNCHANGED <<now, queue, projects, notes, manifest, lock, acked, forced>>
    BY <1>4 DEF PromoteWrite, At
  <2>2. Done(p) \/ proc' = [proc EXCEPT ![p] = v]
    BY <1>0, <1>4 DEF PromoteWrite, ProcType
  <2>3. f \in File /\ lines \in Seq(Line) /\ proc[p].plan \in [File -> SUBSET Line]
    BY <1>0, <2>1 DEF ProcType, PlanOK, Promoting
  <2>4. plan \in [File -> SUBSET Line] /\ proc[p].plan[f] \in SUBSET Line
    BY <2>3
  <2>5. new \in Seq(Line) /\ IdsOf(new) = IdsOf(lines)
    BY <2>3, <2>4, ChangedTyped
  <2> HIDE DEF new, plan, lines, f
  <2>6. v \in ProcType /\ v.at = "promote" /\ v.plan = plan
    <3>1. <<>> \in Seq(Line) /\ plan \in [File -> SUBSET (Id \cup Line)]
      BY <2>4, EmptySeq
    <3> QED
      BY <1>0, <3>1 DEF ProcType, Where, Promoting
  <2>7. PlanOK(v)
    BY <2>4, <2>6 DEF PlanOK, Promoting
  <2> HIDE DEF v
  <2>8. (\E w : Moves(p, w)) /\ proc'[p].at \in {"idle", "promote"}
    <3>1. CASE Done(p)
      BY <3>1, DoneMoves
    <3>2. CASE proc' = [proc EXCEPT ![p] = v]
      <4>1. Moves(p, v)
        BY <2>6, <2>7, <3>2 DEF Moves
      <4> QED
        BY <2>6, <4>1, MovesKeeps
    <3> QED
      BY <2>2, <3>1, <3>2
  <2>9. file' \in [File -> Seq(Line)]
    BY <1>0, <2>1, <2>5
  <2>10. FilesOK'
    BY <1>0, <2>1, <2>9 DEF FilesOK
  <2>11. ASSUME NEW g \in File, NEW id \in IdsOf(file[g]) \ IdsOf(file'[g]), f = g
         PROVE  id \notin IdsOf(lines)
    BY <1>0, <2>1, <2>5, <2>11
  <2> QED
    BY <2>1, <2>8, <2>10, <2>11 DEF Promoting, f, lines
<1>5. CASE \E f \in File : PromoteRead(p, f)
  BY <1>3, <1>5 DEF Promoting
<1> QED
  BY <1>1, <1>2, <1>4, <1>5 DEF Promotion
----------------------------------------------------------------------------
(* Writers. *)

LEMMA BareTyped == ASSUME NEW id \in Id, NEW t \in Nat PROVE BareRecord(id, t) \in Line /\ BareRecord(id, t).id = id
  BY DEF BareRecord, Line

\* The records of a batch are those of its facts.
LEMMA OrderTyped ==
    ASSUME NEW S \in SUBSET Id, IsFiniteSet(S), NEW t \in Nat, NEW order, order = SetToSeq(S),
           NEW records, records = [i \in DOMAIN order |-> BareRecord(order[i], t)]
    PROVE  records \in Seq(Line) /\ IdsOf(records) = S
<1> DEFINE n == Cardinality(S)
<1>1. n \in Nat /\ ExistsBijection(1..n, S)
  BY FS_CardinalityType
<1>2. \E f \in [1..n -> S] : IsInjective(f)
  BY <1>1 DEF ExistsBijection, Bijection, Injection
<1>3. order \in [1..n -> S] /\ IsInjective(order)
  BY <1>2 DEF SetToSeq
<1>4. IsFiniteSet(1..n) /\ Cardinality(1..n) = n
  BY <1>1, FS_Interval
<1> HIDE DEF n
<1>5. order \in Injection(1..n, S)
  BY <1>3 DEF Injection
<1>6. order \in Surjection(1..n, S)
  <2>1. Cardinality(1..n) = Cardinality(S)
    BY <1>4 DEF n
  <2> QED
    BY <1>5, <2>1, FS_Injection
<1>7. \A id \in S : \E i \in 1..n : order[i] = id
  BY <1>6 DEF Surjection
<1>8. DOMAIN order = 1..n /\ \A i \in 1..n : order[i] \in S /\ order[i] \in Id
  BY <1>3
<1>9. \A i \in 1..n : records[i] \in Line /\ records[i].id = order[i]
  BY <1>8, BareTyped
<1>10. records \in [1..n -> Line]
  BY <1>8, <1>9
<1>11. records \in Seq(Line) /\ DOMAIN records = 1..n
  BY <1>1, <1>10, FunctionIsSeq DEF n
<1> QED
  BY <1>7, <1>8, <1>9, <1>11 DEF IdsOf

LEMMA AppendTyped ==
    ASSUME NEW s \in Seq(Line), NEW x \in Line
    PROVE  Append(s, x) \in Seq(Line) /\ IdsOf(Append(s, x)) = IdsOf(s) \cup {x.id}
<1> DEFINE n == Len(s)
           t == Append(s, x)
<1>1. /\ n \in Nat /\ DOMAIN s = 1..n /\ t \in Seq(Line) /\ DOMAIN t = 1..(n + 1)
      /\ \A i \in 1..n : t[i] = s[i]
      /\ t[n + 1] = x
  BY AppendProperties, SeqIs
<1> HIDE DEF n, t
<1>2. 1..(n + 1) = (1..n) \cup {n + 1}
  BY <1>1
<1> QED
  BY <1>1, <1>2 DEF IdsOf, t

LEMMA TailTyped ==
    ASSUME NEW s \in Seq(Line), s # <<>>
    PROVE  Head(s) \in Line /\ Tail(s) \in Seq(Line) /\ IdsOf(s) = IdsOf(Tail(s)) \cup {Head(s).id}
<1> DEFINE n == Len(s)
           t == Tail(s)
<1>1. /\ n \in Nat /\ n # 0 /\ DOMAIN s = 1..n /\ t \in Seq(Line) /\ DOMAIN t = 1..(n - 1)
      /\ \A i \in 1..(n - 1) : t[i] = s[i + 1]
      /\ Head(s) = s[1] /\ Head(s) \in Line
  BY HeadTailProperties, SeqIs
<1> HIDE DEF n, t
<1>2. \A i \in 1..n : i = 1 \/ (i - 1 \in 1..(n - 1) /\ s[i] = t[i - 1])
  BY <1>1
<1>3. 1 \in 1..n /\ \A i \in 1..(n - 1) : i + 1 \in 1..n /\ t[i] = s[i + 1]
  BY <1>1
<1>6. \A i \in 1..n : s[i].id = s[1].id \/ \E j \in 1..(n - 1) : s[i].id = t[j].id
  BY <1>2
<1>4. IdsOf(s) \subseteq IdsOf(t) \cup {s[1].id}
  <2> SUFFICES ASSUME NEW id \in IdsOf(s), id # s[1].id PROVE id \in IdsOf(t)
    OBVIOUS
  <2>1. PICK i \in DOMAIN s : id = s[i].id
    BY DEF IdsOf
  <2>2. PICK j \in 1..(n - 1) : s[i].id = t[j].id
    BY <1>1, <1>6, <2>1
  <2> QED
    BY <1>1, <2>1, <2>2 DEF IdsOf
<1>7. \A i \in 1..(n - 1) : \E j \in 1..n : t[i].id = s[j].id
  BY <1>3
<1>8. s[1].id \in IdsOf(s)
  BY <1>1, <1>3 DEF IdsOf
<1>9. IdsOf(t) \subseteq IdsOf(s)
  <2> SUFFICES ASSUME NEW id \in IdsOf(t) PROVE id \in IdsOf(s)
    OBVIOUS
  <2>1. PICK i \in DOMAIN t : id = t[i].id
    BY DEF IdsOf
  <2>2. PICK j \in 1..n : t[i].id = s[j].id
    BY <1>1, <1>7, <2>1
  <2> QED
    BY <1>1, <2>1, <2>2 DEF IdsOf
<1>5. IdsOf(t) \cup {s[1].id} \subseteq IdsOf(s)
  BY <1>8, <1>9
<1> QED
  BY <1>1, <1>4, <1>5 DEF t

Writing == {"write", "project", "command"}

\* Of a batch of facts each is in projects, or among what is still to be written.
OnTheWay(v, lines) ==
    v.at \in Writing =>
        /\ v.plan["shared"] \subseteq Facts \cup Commands
        /\ v.plan["shared"] \subseteq IdsOf(lines) \cup IdsOf(v.more)
        /\ v.at = "project" => v.more # <<>>

ServedInv ==
    /\ acked \subseteq (Facts \cup Commands) \cap IdsOf(projects)
    /\ \A p \in Process : OnTheWay(proc[p], projects)

LEMMA OnTheWayKept ==
    ASSUME NEW v, NEW lines, NEW more, IdsOf(lines) \subseteq IdsOf(more), OnTheWay(v, lines)
    PROVE  OnTheWay(v, more)
  BY DEF OnTheWay

\* A step that loses nothing of projects and acknowledges nothing.
LEMMA ServedKept ==
    ASSUME StoreInv, ServedInv, NEW p \in Process, NEW v, Moves(p, v) \/ proc' = proc,
           IdsOf(projects) \subseteq IdsOf(projects'), acked' = acked, OnTheWay(proc'[p], projects')
    PROVE  ServedInv'
<1>1. \A q \in Process \ {p} : proc'[q] = proc[q]
  BY MovesKeeps
<1>2. \A q \in Process : OnTheWay(proc'[q], projects')
  BY <1>1, OnTheWayKept DEF ServedInv
<1>3. acked' \subseteq (Facts \cup Commands) \cap IdsOf(projects')
  BY DEF ServedInv
<1> QED
  BY <1>2, <1>3 DEF ServedInv, OnTheWay, IdsOf
LEMMA WriteSteps ==
    ASSUME StoreInv, ServedInv, NEW p \in Process, Write(p) \/ Command(p)
    PROVE  /\ FilesOK' /\ (\E v : Moves(p, v))
           /\ UNCHANGED <<now, notes, manifest, lock, queue, forced>>
           /\ proc[p].at \in Writing \cup {"idle"} /\ proc'[p].at \in Writing \cup {"idle"}
           /\ \A f \in File : IdsOf(file[f]) \subseteq IdsOf(file'[f])
           /\ ServedInv'
<1>0. /\ FilesOK /\ proc \in [Process -> ProcType] /\ proc[p] \in ProcType /\ PlanOK(proc[p])
      /\ file \in [File -> Seq(Line)] /\ projects \in Seq(Line) /\ now \in Nat
      /\ Facts \cup Commands \subseteq Id
  <2>1. FilesOK /\ proc \in [Process -> ProcType] /\ PlanOK(proc[p])
    BY DEF StoreInv, ProcsOK
  <2> QED
    BY <2>1, StoreAssumption DEF FilesOK, Id
<1>1. ASSUME NEW S \in SUBSET (Facts \cup Commands), IsFiniteSet(S), NEW where \in {"write", "command"},
             proc[p].at = "idle", UNCHANGED <<now, file, projects, notes, manifest, lock, queue, acked, forced>>,
             proc' = [proc EXCEPT ![p].at = where, ![p].plan["shared"] = S,
               ![p].more = LET order == SetToSeq(S) IN [i \in DOMAIN order |-> BareRecord(order[i], now)]]
      PROVE  /\ FilesOK' /\ (\E v : Moves(p, v)) /\ proc'[p].at = where
             /\ ServedInv => ServedInv'
  <2> DEFINE order == SetToSeq(S)
             records == [i \in DOMAIN order |-> BareRecord(order[i], now)]
             plan == [proc[p].plan EXCEPT !["shared"] = S]
             v == [proc[p] EXCEPT !.at = where, !.plan = plan, !.more = records]
  <2>1. proc' = [proc EXCEPT ![p] = v]
    BY <1>0, <1>1 DEF ProcType
  <2>2. records \in Seq(Line) /\ IdsOf(records) = S
    <3>1. S \in SUBSET Id
      BY <1>0
    <3> HIDE DEF order
    <3>2. order = SetToSeq(S)
      BY DEF order
    <3> QED
      BY <1>0, <1>1, <3>1, <3>2, OrderTyped
  <2> HIDE DEF order, records
  <2>3. plan \in [File -> SUBSET Id] /\ plan \in [File -> SUBSET (Id \cup Line)] /\ plan["shared"] = S
    <3>1. proc[p].plan \in [File -> SUBSET Id] /\ "shared" \in File /\ S \in SUBSET Id
      BY <1>0, <1>1 DEF PlanOK, Promoting, File
    <3> QED
      BY <3>1
  <2> HIDE DEF plan
  <2>4. v \in ProcType /\ v.at = where /\ v.plan = plan /\ v.more = records
    BY <1>0, <2>2, <2>3 DEF ProcType, Where
  <2>5. PlanOK(v)
    BY <2>3, <2>4 DEF PlanOK, Promoting
  <2> HIDE DEF v
  <2>6. Moves(p, v)
    BY <2>1, <2>4, <2>5 DEF Moves
  <2>7. proc'[p] = v
    BY <2>6, MovesKeeps
  <2>8. FilesOK'
    BY <1>0, <1>1 DEF FilesOK
  <2>9. OnTheWay(proc'[p], projects')
    BY <2>2, <2>3, <2>4, <2>7 DEF OnTheWay
  <2>10. ServedInv => ServedInv'
    BY <1>1, <2>6, <2>9, ServedKept
  <2> QED
    BY <2>4, <2>6, <2>7, <2>8, <2>10
<1>2. ASSUME NEW S \in SUBSET (Facts \cap setting.arrives), StartWrite(p, S)
      PROVE  /\ FilesOK' /\ (\E v : Moves(p, v)) /\ proc[p].at = "idle" /\ proc'[p].at = "write"
             /\ UNCHANGED <<now, file, notes, manifest, lock, queue, forced>> /\ (ServedInv => ServedInv')
  <2>1. /\ proc[p].at = "idle" /\ IsFiniteSet(S) /\ S \in SUBSET (Facts \cup Commands)
        /\ UNCHANGED <<now, file, projects, notes, manifest, lock, queue, acked, forced>>
        /\ proc' = [proc EXCEPT ![p].at = "write", ![p].plan["shared"] = S,
               ![p].more = LET order == SetToSeq(S) IN [i \in DOMAIN order |-> BareRecord(order[i], now)]]
    BY <1>2 DEF StartWrite, Idles, At
  <2> QED
    BY <1>1, <2>1
<1>3. ASSUME NEW S \in SUBSET (Commands \cap setting.arrives), StartCommand(p, S)
      PROVE  /\ FilesOK' /\ (\E v : Moves(p, v)) /\ proc[p].at = "idle" /\ proc'[p].at = "command"
             /\ UNCHANGED <<now, file, notes, manifest, lock, queue, forced>> /\ (ServedInv => ServedInv')
  <2>1. /\ proc[p].at = "idle" /\ IsFiniteSet(S) /\ S \in SUBSET (Facts \cup Commands)
        /\ UNCHANGED <<now, file, projects, notes, manifest, lock, queue, acked, forced>>
        /\ proc' = [proc EXCEPT ![p].at = "command", ![p].plan["shared"] = S,
               ![p].more = LET order == SetToSeq(S) IN [i \in DOMAIN order |-> BareRecord(order[i], now)]]
    BY <1>3 DEF StartCommand, Idles, At
  <2> QED
    BY <1>1, <2>1
<1>4. CASE WriteCanonical(p)
  <2> DEFINE new == Append(file["shared"], Head(proc[p].more))
  <2>1. /\ proc[p].at = "write" /\ proc[p].more # <<>> /\ file' = [file EXCEPT !["shared"] = new]
        /\ Goto(p, "project") /\ UNCHANGED <<now, projects, notes, manifest, lock, queue, acked, forced>>
    BY <1>0, <1>4 DEF WriteCanonical, At, File
  <2>2. Moves(p, [proc[p] EXCEPT !.at = "project"]) /\ proc'[p].at = "project"
        /\ proc'[p].plan = proc[p].plan /\ proc'[p].more = proc[p].more
    BY <2>1, GotoMoves DEF Where, Promoting
  <2>3. new \in Seq(Line) /\ IdsOf(file["shared"]) \subseteq IdsOf(new)
    <3>1. proc[p].more \in Seq(Line) /\ file["shared"] \in Seq(Line)
      BY <1>0 DEF ProcType, File
    <3> QED
      BY <2>1, <3>1, TailTyped, AppendTyped
  <2> HIDE DEF new
  <2>4. file' \in [File -> Seq(Line)] /\ \A f \in File : IdsOf(file[f]) \subseteq IdsOf(file'[f])
    BY <1>0, <2>1, <2>3
  <2>5. FilesOK'
    BY <1>0, <2>1, <2>4 DEF FilesOK
  <2>6. ServedInv => ServedInv'
    <3>1. ServedInv => OnTheWay(proc'[p], projects')
      BY <2>1, <2>2 DEF ServedInv, OnTheWay, Writing
    <3> QED
      BY <2>1, <2>2, <3>1, ServedKept
  <2> QED
    BY <2>1, <2>2, <2>4, <2>5, <2>6 DEF Writing
<1>5. CASE WriteProjection(p) \/ AppendFact(p)
  <2> DEFINE rest == Tail(proc[p].more)
             where == IF proc[p].at = "project" THEN "write" ELSE "command"
             v == [proc[p] EXCEPT !.at = where, !.more = rest]
  <2>1. /\ proc[p].at \in {"project", "command"} /\ projects' = Append(projects, Head(proc[p].more))
        /\ UNCHANGED <<now, file, notes, manifest, lock, queue, acked, forced>>
    BY <1>5 DEF WriteProjection, AppendFact, At
  <2>2. proc' = [proc EXCEPT ![p] = v]
    <3>1. CASE WriteProjection(p)
      BY <1>0, <3>1 DEF WriteProjection, At
    <3>2. CASE AppendFact(p)
      <4>1. proc' = [proc EXCEPT ![p] = [proc[p] EXCEPT !.more = rest]] /\ proc[p].at = "command"
        BY <1>0, <3>2 DEF AppendFact, At
      <4> HIDE DEF rest
      <4>2. [proc[p] EXCEPT !.more = rest] = v
        BY <1>0, <4>1 DEF ProcType
      <4> QED
        BY <4>1, <4>2
    <3> QED
      BY <1>5, <3>1, <3>2
  <2>6. proc[p].more # <<>>
    BY <1>5 DEF WriteProjection, AppendFact, At, ServedInv, OnTheWay, Writing
  <2>4. proc[p].more \in Seq(Line)
    BY <1>0 DEF ProcType
  <2>5. where \in {"write", "command"}
    OBVIOUS
  <2>11. Head(proc[p].more) \in Line /\ rest \in Seq(Line)
        /\ IdsOf(proc[p].more) = IdsOf(rest) \cup {Head(proc[p].more).id}
    BY <2>4, <2>6, TailTyped
  <2>12. projects' \in Seq(Line) /\ IdsOf(projects') = IdsOf(projects) \cup {Head(proc[p].more).id}
    BY <1>0, <2>1, <2>11, AppendTyped
  <2> HIDE DEF rest, where
  <2>13. v \in ProcType /\ v.at = where /\ v.plan = proc[p].plan /\ v.more = rest
    BY <1>0, <2>5, <2>11 DEF ProcType, Where
  <2>14. PlanOK(v)
    BY <1>0, <2>1, <2>5, <2>13 DEF PlanOK, Promoting
  <2> HIDE DEF v
  <2>15. Moves(p, v)
    BY <2>2, <2>13, <2>14 DEF Moves
  <2>16. proc'[p] = v
    BY <2>15, MovesKeeps
  <2>17. FilesOK'
    BY <1>0, <2>1, <2>12 DEF FilesOK
  <2>18. ServedInv => OnTheWay(proc'[p], projects')
    <3> SUFFICES ASSUME ServedInv PROVE OnTheWay(proc'[p], projects')
      OBVIOUS
    <3>1. OnTheWay(proc[p], projects)
      BY DEF ServedInv
    <3> QED
      BY <2>1, <2>5, <2>11, <2>12, <2>13, <2>16, <3>1 DEF OnTheWay, Writing
  <2>19. ServedInv => ServedInv'
    BY <2>1, <2>12, <2>15, <2>18, ServedKept
  <2> QED
    BY <2>1, <2>5, <2>13, <2>15, <2>16, <2>17, <2>19 DEF Writing
<1>6. CASE Acknowledge(p)
  <2>1. /\ proc[p].at \in Writing /\ proc[p].more = <<>> /\ acked' = acked \cup proc[p].plan["shared"] /\ Done(p)
        /\ UNCHANGED <<now, file, projects, notes, manifest, lock, queue, forced>>
    BY <1>6 DEF Acknowledge, At, Writing
  <2>2. Moves(p, Idle) /\ proc'[p].at = "idle" /\ \A q \in Process \ {p} : proc'[q] = proc[q]
    <3>1. Moves(p, Idle) /\ proc'[p].at = "idle"
      BY <2>1, DoneMoves
    <3> QED
      BY <3>1, MovesKeeps
  <2>3. FilesOK'
    BY <1>0, <2>1 DEF FilesOK
  <2>4. ServedInv => ServedInv'
    <3> SUFFICES ASSUME ServedInv PROVE ServedInv'
      OBVIOUS
    <3>1. IdsOf(proc[p].more) = {}
      BY <2>1 DEF IdsOf
    <3>2. proc[p].plan["shared"] \subseteq (Facts \cup Commands) \cap IdsOf(projects)
      BY <2>1, <3>1 DEF ServedInv, OnTheWay
    <3>3. acked' \subseteq (Facts \cup Commands) \cap IdsOf(projects')
      BY <2>1, <3>2 DEF ServedInv
    <3>4. OnTheWay(proc'[p], projects')
      BY <2>2 DEF OnTheWay, Writing
    <3>5. \A q \in Process : OnTheWay(proc'[q], projects')
      BY <2>1, <2>2, <3>4 DEF ServedInv
    <3> QED
      BY <3>3, <3>5 DEF ServedInv, OnTheWay, IdsOf
  <2> QED
    BY <2>1, <2>2, <2>3, <2>4
<1>7. CASE EndCommand(p)
  <2>1. /\ proc[p].at \in Writing /\ Done(p)
        /\ UNCHANGED <<now, file, projects, notes, manifest, lock, queue, acked, forced>>
    BY <1>7 DEF EndCommand, At, Writing
  <2>2. Moves(p, Idle) /\ proc'[p].at = "idle"
    BY <2>1, DoneMoves
  <2>3. FilesOK'
    BY <1>0, <2>1 DEF FilesOK
  <2>4. ServedInv'
    <3>1. OnTheWay(proc'[p], projects')
      BY <2>2 DEF OnTheWay, Writing
    <3> QED
      BY <2>1, <2>2, <3>1, ServedKept DEF IdsOf
  <2> QED
    BY <2>1, <2>2, <2>3, <2>4
<1> QED
  BY <1>2, <1>3, <1>4, <1>5, <1>6, <1>7 DEF Write, Command, Writing
----------------------------------------------------------------------------
(* The whole. *)

Inv == StoreInv /\ LockInv /\ RecordedInv /\ ServedInv

LEMMA InvInit == Init => Inv
<1> SUFFICES ASSUME Init PROVE Inv
  OBVIOUS
<1>1. <<>> \in Seq(Line) /\ <<>> \in Seq(Entry)
  BY EmptySeq
<1>2. /\ now = 0 /\ file = [f \in File |-> <<>>] /\ projects = <<>> /\ notes = <<>> /\ manifest = {}
      /\ lock = Nobody /\ queue = <<>> /\ acked = {} /\ forced = FALSE /\ proc = [p \in Process |-> Idle]
  BY DEF Init
<1>3. FilesOK
  BY <1>1, <1>2, StoreAssumption DEF FilesOK
<1>4. \A p \in Process : proc[p] = Idle
  BY <1>2
<1>5. ProcsOK
  <2>1. proc \in [Process -> ProcType]
    BY <1>2, IdleTyped
  <2> HIDE DEF PlanOK
  <2> QED
    BY <1>4, <2>1, IdleTyped DEF ProcsOK
<1>6. \A p \in Process : proc[p].at = "idle"
  BY <1>4, IdleTyped
<1> QED
  BY <1>2, <1>3, <1>5, <1>6
  DEF Inv, StoreInv, LockInv, RecordedInv, ServedInv, OnTheWay, Writing, Holding, Rewriting

\* A step of p that leaves the lock alone and writes no file of the archiver's.
LEMMA ElsewhereKept ==
    ASSUME Inv, NEW p \in Process, NEW v, Moves(p, v) \/ proc' = proc,
           UNCHANGED <<lock, forced>>, manifest \subseteq manifest',
           proc'[p].at \in Holding => proc[p].at \in Holding,
           proc'[p].at # "recreate",
           proc'[p].at \in Rewriting =>
              IdsOf(proc'[p].lines) \cap proc'[p].plan[proc'[p].f] \subseteq manifest'
    PROVE  LockInv' /\ RecordedInv'
<1>1. \A q \in Process \ {p} : proc'[q] = proc[q]
  BY MovesKeeps DEF Inv
<1>2. LockInv'
  <2>1. LockInv
    BY DEF Inv
  <2> QED
    BY <1>1, <2>1 DEF LockInv
<1>3. \A q \in Process \ {p} : proc'[q].at \in Rewriting =>
        IdsOf(proc'[q].lines) \cap proc'[q].plan[proc'[q].f] \subseteq manifest'
  BY <1>1 DEF Inv, RecordedInv
<1>4. RecordedInv'
  <2>1. \A q \in Process : proc'[q].at \in Rewriting =>
          IdsOf(proc'[q].lines) \cap proc'[q].plan[proc'[q].f] \subseteq manifest'
    BY <1>3
  <2> QED
    BY <2>1 DEF RecordedInv, IdsOf
<1> QED
  BY <1>2, <1>4

\* What happens outside the scripts, and kills.
LEMMA OutsideSteps ==
    ASSUME Inv,
           (\E id \in Sessions : Hook(id)) \/ (\E id \in Notes : Note(id)) \/ (\E id \in Dreams : Dream(id))
             \/ (\E t \in Times : Tick(t))
    PROVE  Inv' /\ proc' = proc
<1>0. FilesOK /\ ProcsOK /\ file \in [File -> Seq(Line)] /\ now \in Nat /\ Notes \cup Sessions \cup Dreams \subseteq Id
      /\ projects \in Seq(Line) /\ notes \in Seq(Line)
  BY StoreAssumption DEF Inv, StoreInv, FilesOK, Id
<1>1. proc' = proc /\ UNCHANGED <<manifest, lock, queue, acked, forced>>
  BY DEF Hook, Note, Dream, Tick
<1>2. FilesOK' /\ IdsOf(projects) \subseteq IdsOf(projects')
  <2>1. ASSUME NEW id \in Sessions, Hook(id) PROVE FilesOK' /\ IdsOf(projects) \subseteq IdsOf(projects')
    <3>1. projects' = Append(projects, BareRecord(id, now)) /\ UNCHANGED <<now, file, notes>>
      BY <2>1 DEF Hook
    <3>2. BareRecord(id, now) \in Line
      BY <1>0, BareTyped
    <3>3. projects' \in Seq(Line) /\ IdsOf(projects) \subseteq IdsOf(projects')
      BY <1>0, <3>1, <3>2, AppendTyped
    <3> QED
      BY <1>0, <1>1, <3>1, <3>3 DEF FilesOK
  <2>2. ASSUME NEW id \in Notes, Note(id) PROVE FilesOK' /\ IdsOf(projects) \subseteq IdsOf(projects')
    <3>1. notes' = Append(notes, BuildRecord(id, now, Profile[id])) /\ UNCHANGED <<now, file, projects>>
      BY <2>2 DEF Note
    <3>2. BuildRecord(id, now, Profile[id]) \in Line
      <4>1. ComputeTier(Profile[id]) \in Int
        BY DEF ComputeTier
      <4>2. DaysToLive(Profile[id].scope) * Day \in Nat
        <5>1. DaysToLive(Profile[id].scope) \in {7, 30, 90, 180}
          BY DEF DaysToLive
        <5> QED
          BY <5>1 DEF Day
      <4>3. now + DaysToLive(Profile[id].scope) * Day \in Nat
        BY <1>0, <4>2
      <4> QED
        BY <1>0, <4>1, <4>3 DEF BuildRecord, Line
    <3>3. notes' \in Seq(Line)
      BY <1>0, <3>1, <3>2, AppendTyped
    <3> QED
      BY <1>0, <1>1, <3>1, <3>3 DEF FilesOK, IdsOf
  <2>3. ASSUME NEW id \in Dreams, Dream(id) PROVE FilesOK' /\ IdsOf(projects) \subseteq IdsOf(projects')
    <3> DEFINE new == Append(file["dream"], BareRecord(id, now))
    <3>1. file' = [file EXCEPT !["dream"] = new] /\ UNCHANGED <<now, projects, notes>>
      BY <1>0, <2>3 DEF Dream, File
    <3>2. BareRecord(id, now) \in Line /\ file["dream"] \in Seq(Line)
      BY <1>0, BareTyped DEF File
    <3>3. new \in Seq(Line)
      BY <3>2, AppendTyped
    <3> HIDE DEF new
    <3>4. file' \in [File -> Seq(Line)]
      BY <1>0, <3>1, <3>3
    <3> QED
      BY <1>0, <1>1, <3>1, <3>4 DEF FilesOK, IdsOf
  <2>4. ASSUME NEW t \in Times, Tick(t) PROVE FilesOK' /\ IdsOf(projects) \subseteq IdsOf(projects')
    BY <1>0, <1>1, <2>4 DEF Tick, FilesOK, IdsOf
  <2> QED
    BY <2>1, <2>2, <2>3, <2>4
<1>3. ProcsOK'
  BY <1>0, <1>1 DEF ProcsOK, PlanOK
<1>4. LockInv' /\ RecordedInv'
  BY <1>1 DEF Inv, LockInv, RecordedInv, IdsOf
<1>5. ServedInv'
  <2>1. \A p \in Process : OnTheWay(proc'[p], projects')
    BY <1>1, <1>2, OnTheWayKept DEF Inv, ServedInv
  <2>2. acked' \subseteq (Facts \cup Commands) \cap IdsOf(projects')
    BY <1>1, <1>2 DEF Inv, ServedInv
  <2> QED
    BY <2>1, <2>2 DEF ServedInv, OnTheWay, IdsOf
<1> QED
  BY <1>1, <1>2, <1>3, <1>4, <1>5 DEF Inv, StoreInv

LEMMA KillSteps ==
    ASSUME Inv, NEW p \in Process, Crash(p) \/ Revive(p)
    PROVE  /\ FilesOK' /\ (\E v : Moves(p, v)) /\ proc'[p].at \in {"idle", "killed"}
           /\ UNCHANGED <<now, file, projects, notes, manifest, lock, queue, acked, forced>>
<1>1. StoreInv /\ FilesOK
  BY DEF Inv, StoreInv
<1>2. UNCHANGED <<now, file, projects, notes, manifest, lock, queue, acked, forced>>
  BY DEF Crash, Revive
<1>3. FilesOK'
  BY <1>1, <1>2 DEF FilesOK
<1> DEFINE v == [Idle EXCEPT !.at = "killed"]
<1>4. CASE Crash(p)
  <2>1. Moves(p, v)
    BY <1>4, IdleTyped DEF Moves, Crash
  <2> QED
    BY <1>1, <1>2, <1>3, <2>1, MovesKeeps, IdleTyped
<1>5. CASE Revive(p)
  <2>1. Done(p)
    BY <1>5 DEF Revive
  <2> QED
    BY <1>1, <1>2, <1>3, <2>1, DoneMoves
<1> QED
  BY <1>4, <1>5
\* What a step of a script takes out of a file.
Loses(p) ==
    \A f \in File : \A id \in IdsOf(file[f]) \ IdsOf(file'[f]) :
        proc[p].at \in Building \cup {"idle"} \/ (proc[p].f = f => id \in manifest \/ id \notin IdsOf(proc[p].lines))

LEMMA ScriptSteps ==
    ASSUME Inv, NEW p \in Process,
           Archive(p) \/ Build(p) \/ Promotion(p) \/ Write(p) \/ Command(p) \/ Crash(p) \/ Revive(p)
    PROVE  /\ Inv' /\ \A q \in Process \ {p} : proc'[q] = proc[q]
           /\ Loses(p)
<1>0. StoreInv /\ LockInv /\ RecordedInv /\ ServedInv
  BY DEF Inv
<1>1. ASSUME NEW v, Moves(p, v) \/ proc' = proc, FilesOK'
      PROVE  StoreInv' /\ \A q \in Process \ {p} : proc'[q] = proc[q]
  <2>1. CASE Moves(p, v)
    BY <1>0, <1>1, <2>1, MovesKeeps DEF StoreInv
  <2>2. CASE proc' = proc
    BY <1>0, <1>1, <2>2 DEF StoreInv, ProcsOK, PlanOK
  <2> QED
    BY <1>1, <2>1, <2>2
<1>2. ASSUME NEW v, Moves(p, v) \/ proc' = proc, UNCHANGED <<projects, acked>>, proc'[p].at \notin Writing
      PROVE  ServedInv'
  BY <1>0, <1>2, ServedKept DEF OnTheWay
<1>3. CASE Locks(p)
  <2>1. /\ FilesOK' /\ (\E v : Moves(p, v)) /\ LockInv'
        /\ UNCHANGED <<now, file, projects, notes, manifest, queue, acked>>
        /\ proc'[p].at \in Takes \cup {"idle", "fill", "scan", "unlock"}
    BY <1>0, <1>3, LockSteps
  <2>2. PICK v : Moves(p, v)
    BY <2>1
  <2>3. StoreInv' /\ \A q \in Process \ {p} : proc'[q] = proc[q]
    BY <1>1, <2>1, <2>2
  <2>4. ServedInv'
    BY <1>2, <2>1, <2>2 DEF Writing, Takes
  <2>5. RecordedInv'
    <3>1. proc'[p].at \notin Rewriting
      BY <2>1 DEF Rewriting, Takes
    <3>2. \A q \in Process : proc'[q].at \in Rewriting =>
            IdsOf(proc'[q].lines) \cap proc'[q].plan[proc'[q].f] \subseteq manifest'
      BY <1>0, <2>1, <2>3, <3>1 DEF RecordedInv
    <3> QED
      BY <3>2 DEF RecordedInv, IdsOf
  <2> QED
    BY <2>1, <2>3, <2>4, <2>5 DEF Inv, Loses, IdsOf
<1>4. CASE Scan(p) \/ Budget(p) \/ (\E f \in File : Record(p, f)) \/ Rewrite(p)
  <2>1. /\ FilesOK' /\ (\E v : Moves(p, v)) /\ manifest \subseteq manifest'
        /\ UNCHANGED <<now, projects, notes, queue, lock, acked, forced>>
        /\ proc[p].at \in {"scan", "expire", "evict"} \cup Rewriting
        /\ proc'[p].at \in {"expire", "evict"} \cup Rewriting
        /\ proc'[p].at \in Rewriting =>
             IdsOf(proc'[p].lines) \cap proc'[p].plan[proc'[p].f] \subseteq manifest'
        /\ Loses(p)
    BY <1>0, <1>4, ArchiveSteps DEF Loses
  <2>2. PICK v : Moves(p, v)
    BY <2>1
  <2>3. StoreInv' /\ \A q \in Process \ {p} : proc'[q] = proc[q]
    BY <1>1, <2>1, <2>2
  <2>4. ServedInv'
    BY <1>2, <2>1, <2>2 DEF Writing, Rewriting
  <2>5. LockInv' /\ RecordedInv'
    <3>1. proc[p].at \in Holding /\ proc'[p].at # "recreate"
      BY <2>1 DEF Holding, Rewriting
    <3> QED
      BY <2>1, <2>2, <3>1, ElsewhereKept
  <2> QED
    BY <2>1, <2>3, <2>4, <2>5 DEF Inv
<1>5. ASSUME FilesOK', NEW v, Moves(p, v) \/ proc' = proc,
             UNCHANGED <<projects, acked, lock, forced, manifest>>,
             proc'[p].at \in Building \cup Promoting \cup {"idle", "killed"}
      PROVE  Inv' /\ \A q \in Process \ {p} : proc'[q] = proc[q]
  <2>1. StoreInv' /\ \A q \in Process \ {p} : proc'[q] = proc[q]
    BY <1>1, <1>5
  <2>2. ServedInv'
    BY <1>2, <1>5 DEF Writing, Building, Promoting
  <2>3. LockInv' /\ RecordedInv'
    <3>1. proc'[p].at \notin Holding /\ proc'[p].at # "recreate" /\ proc'[p].at \notin Rewriting
      BY <1>5 DEF Holding, Rewriting, Building, Promoting
    <3> QED
      BY <1>5, <3>1, ElsewhereKept
  <2> QED
    BY <2>1, <2>2, <2>3 DEF Inv
<1>6. CASE Build(p)
  <2>1. /\ FilesOK' /\ (\E v : Moves(p, v))
        /\ UNCHANGED <<projects, manifest, lock, acked, forced>>
        /\ proc[p].at \in Building \cup {"idle"} /\ proc'[p].at \in Building \cup {"idle"}
    BY <1>0, <1>6, BuildSteps
  <2>2. PICK v : Moves(p, v)
    BY <2>1
  <2> QED
    BY <1>5, <2>1, <2>2 DEF Loses
<1>7. CASE Promotion(p)
  <2>1. /\ FilesOK' /\ ((\E v : Moves(p, v)) \/ proc' = proc)
        /\ UNCHANGED <<projects, manifest, lock, acked, forced>>
        /\ proc'[p].at \in Promoting \cup {"idle"}
        /\ Loses(p)
    BY <1>0, <1>7, PromotionSteps DEF Loses
  <2>2. PICK v : Moves(p, v) \/ proc' = proc
    BY <2>1
  <2> QED
    BY <1>5, <2>1, <2>2
<1>8. CASE Write(p) \/ Command(p)
  <2>1. /\ FilesOK' /\ (\E v : Moves(p, v)) /\ ServedInv'
        /\ UNCHANGED <<manifest, lock, forced>>
        /\ proc'[p].at \in Writing \cup {"idle"}
        /\ \A f \in File : IdsOf(file[f]) \subseteq IdsOf(file'[f])
    BY <1>0, <1>8, WriteSteps
  <2>2. PICK v : Moves(p, v)
    BY <2>1
  <2>3. StoreInv' /\ \A q \in Process \ {p} : proc'[q] = proc[q]
    BY <1>1, <2>1, <2>2
  <2>4. LockInv' /\ RecordedInv'
    <3>1. proc'[p].at \notin Holding /\ proc'[p].at # "recreate" /\ proc'[p].at \notin Rewriting
      BY <2>1 DEF Holding, Rewriting, Writing
    <3> QED
      BY <2>1, <2>2, <3>1, ElsewhereKept
  <2> QED
    BY <2>1, <2>3, <2>4 DEF Inv, Loses
<1>9. CASE Crash(p) \/ Revive(p)
  <2>1. /\ FilesOK' /\ (\E v : Moves(p, v)) /\ proc'[p].at \in {"idle", "killed"}
        /\ UNCHANGED <<now, file, projects, notes, manifest, lock, queue, acked, forced>>
    BY <1>9, KillSteps
  <2>2. PICK v : Moves(p, v)
    BY <2>1
  <2> QED
    BY <1>5, <2>1, <2>2 DEF Loses, IdsOf
<1> QED
  BY <1>3, <1>4, <1>6, <1>7, <1>8, <1>9 DEF Archive, Locks

LEMMA InvNext == Inv /\ [Next]_vars => Inv'
<1> SUFFICES ASSUME Inv, [Next]_vars PROVE Inv'
  OBVIOUS
<1>1. CASE \E p \in Process : Archive(p) \/ Build(p) \/ Promotion(p) \/ Write(p) \/ Command(p)
                              \/ Crash(p) \/ Revive(p)
  BY <1>1, ScriptSteps
<1>2. CASE (\E id \in Sessions : Hook(id)) \/ (\E id \in Notes : Note(id)) \/ (\E id \in Dreams : Dream(id))
             \/ (\E t \in Times : Tick(t))
  BY <1>2, OutsideSteps
<1>3. CASE UNCHANGED vars
  <2>1. UNCHANGED <<now, file, projects, notes, manifest, lock, queue, proc, acked, forced>>
    BY <1>3 DEF vars
  <2>2. StoreInv'
    BY <2>1 DEF Inv, StoreInv, FilesOK, ProcsOK, PlanOK
  <2>3. LockInv' /\ RecordedInv'
    BY <2>1 DEF Inv, LockInv, RecordedInv, IdsOf
  <2>4. ServedInv'
    BY <2>1 DEF Inv, ServedInv, OnTheWay, IdsOf
  <2> QED
    BY <2>2, <2>3, <2>4 DEF Inv
<1> QED
  BY <1>1, <1>2, <1>3 DEF Next

LEMMA Invariance == Spec => []Inv
  BY InvInit, InvNext, PTL DEF Spec
----------------------------------------------------------------------------
(* What it comes to. *)

\* Two archivers run at once only after one of them has taken over a lock
\* (acquireLock in memory-archival.js): while nothing is forced, whoever is in
\* the archiver's phases owns the lock.
THEOREM ArchiversExclude == Spec => []OneArchiverUnlessForced
<1>1. Inv => OneArchiverUnlessForced
  BY DEF Inv, LockInv, OneArchiverUnlessForced, Inside, Holding, Rewriting
<1> QED
  BY <1>1, Invariance, PTL

\* The rename of a rewritten file (archiveRecordsFromFile, and the promotion
\* resolver's write) takes away no id that was in the file when it was read,
\* unless the manifest has it.
THEOREM RewritesLoseOnlyLate == Spec => RewriteLosesOnlyLate
<1> DEFINE Removes(p, f) ==
              /\ proc[p].at \in {"rewrite expired", "rewrite evicted", "promote write"}
              /\ proc'[p].at # "killed" /\ proc'[p] # proc[p] /\ proc[p].f = f
              => \A id \in IdsOf(file[f]) \ IdsOf(file'[f]) :
                    id \in manifest \/ id \notin IdsOf(proc[p].lines)
<1>1. Inv /\ [Next]_vars => [\A p \in Process, f \in File : Removes(p, f)]_vars
  <2> SUFFICES ASSUME Inv, Next, NEW p \in Process, NEW f \in File,
                      proc[p].at \in {"rewrite expired", "rewrite evicted", "promote write"},
                      proc'[p] # proc[p], proc[p].f = f,
                      NEW id \in IdsOf(file[f]) \ IdsOf(file'[f])
               PROVE  id \in manifest \/ id \notin IdsOf(proc[p].lines)
    OBVIOUS
  <2>1. PICK q \in Process : \/ Archive(q) \/ Build(q) \/ Promotion(q) \/ Write(q) \/ Command(q)
                             \/ Crash(q) \/ Revive(q)
    BY OutsideSteps DEF Next
  <2>2. /\ \A r \in Process \ {q} : proc'[r] = proc[r]
        /\ Loses(q)
    BY <2>1, ScriptSteps
  <2>3. q = p
    BY <2>2
  <2> QED
    BY <2>2, <2>3 DEF Loses, Building
<1>2. RewriteLosesOnlyLate <=> [][\A p \in Process, f \in File : Removes(p, f)]_vars
  BY DEF RewriteLosesOnlyLate
<1> QED
  BY <1>1, <1>2, Invariance, PTL DEF Spec

\* Of the entries that conflict, directly or through others, resolveConflicts
\* promotes one and no more, whatever their scores and times.
THEOREM ConflictsHaveOneWinner == Spec => []OneWinner
<1>1. Inv => OneWinner
  <2> SUFFICES ASSUME Inv, NEW i \in DOMAIN queue
               PROVE  Cardinality({queue[j].id : j \in {k \in ResolveConflicts(queue, Listing(file)).resolved :
                                          queue[k].id \in Component(queue, queue[i].id)}}) = 1
    BY DEF OneWinner
  <2>1. queue \in Seq(Entry) /\ Listing(file) \in Seq(Line)
    BY ListingTyped DEF Inv, StoreInv, FilesOK
  <2>2. \E id : {queue[j].id : j \in {k \in ResolveConflicts(queue, Listing(file)).resolved :
                                          queue[k].id \in Component(queue, queue[i].id)}} = {id}
    BY <2>1, OnlyWinner
  <2> QED
    BY <2>2, FS_Singleton
<1> QED
  BY <1>1, Invariance, PTL

\* What is read from projects has every line that is no failure, the newest
\* first.
LEMMA NewestShown ==
    ASSUME FilesOK, NEW i \in DOMAIN projects, projects[i].id \notin Failed, NEW limit \in Nat,
           Cardinality({j \in i..Len(projects) : projects[j].id \notin Failed}) <= limit
    PROVE  \E k \in 1..Len(ReadProjectFacts(limit)) : ReadProjectFacts(limit)[k] = projects[i]
<1> DEFINE n == Len(projects)
           P == {j \in DOMAIN projects : projects[j].id \notin Failed}
           sub == Subsequence(projects, P)
           facts == Reverse(sub)
           m == Cardinality(P)
           A == {j \in P : j <= i}
           B == {j \in P : j >= i}
           C == {j \in i..n : projects[j].id \notin Failed}
           c == Cardinality(C)
           k == Cardinality(A)
<1>1. n \in Nat /\ DOMAIN projects = 1..n /\ projects \in Seq(Line) /\ \A j \in 1..n : projects[j] \in Line
  BY SeqIs DEF FilesOK
<1> HIDE DEF n
<1>2. P \in SUBSET (1..n) /\ i \in P
  BY <1>1
<1>3. C = B
  BY <1>1, <1>2
<1>4. IsFiniteSet(P) /\ m \in Nat /\ sub = [j \in 1..m |-> projects[Place(P, j)]]
      /\ k \in 1..m /\ Place(P, k) = i
  <2> HIDE DEF P
  <2>1. IsFiniteSet(P) /\ m \in Nat
    BY <1>1, <1>2, SubsequencePlaces
  <2>2. sub = [j \in 1..m |-> projects[Place(P, j)]]
    BY DEF Subsequence
  <2>3. \A h \in P : Cardinality({j \in P : j <= h}) \in 1..m /\ Place(P, Cardinality({j \in P : j <= h})) = h
    BY <1>1, <1>2, SubsequencePlaces
  <2>4. k \in 1..m /\ Place(P, k) = i
    BY <1>2, <2>3
  <2> HIDE DEF k
  <2> QED
    BY <2>1, <2>2, <2>4
<1>5. sub \in Seq(Line) /\ Len(sub) = m
  BY <1>1, <1>2, SubsequenceTyped
<1>6. c = m + 1 - k
  <2>1. A \cup B = P /\ A \cap B = {i}
    BY <1>1, <1>2
  <2>2. IsFiniteSet(A) /\ IsFiniteSet(B)
    <3>1. A \in SUBSET P /\ B \in SUBSET P
      OBVIOUS
    <3> HIDE DEF A, B, P
    <3> QED
      BY <1>4, <3>1, FS_Subset
  <2>3. Cardinality(B) = c
    BY <1>3
  <2> HIDE DEF A, B, P, C, c
  <2>4. Cardinality(P) = Cardinality(A) + Cardinality(B) - Cardinality({i})
    BY <2>1, <2>2, FS_Union
  <2>5. Cardinality({i}) = 1 /\ Cardinality(A) \in Nat /\ Cardinality(B) \in Nat
    BY <2>2, FS_Singleton, FS_CardinalityType
  <2> QED
    BY <2>3, <2>4, <2>5
<1>7. sub[k] = projects[i]
  BY <1>4
<1> HIDE DEF P, sub, m, A, B, C, c, k
<1>8. facts = [j \in 1..m |-> sub[(m - j) + 1]]
  BY <1>5 DEF Reverse
<1>9. facts \in Seq(Line) /\ Len(facts) = m
  <2>1. \A j \in 1..m : (m - j) + 1 \in 1..m
    BY <1>4
  <2>2. \A j \in 1..m : sub[j] \in Line
    BY <1>5, SeqIs
  <2>3. facts \in [1..m -> Line]
    BY <1>8, <2>1, <2>2
  <2> HIDE DEF facts
  <2> QED
    BY <1>4, <2>3, FunctionIsSeq
<1>10. c \in 1..m /\ facts[c] = projects[i]
  <2>1. c \in 1..m /\ (m - c) + 1 = k
    BY <1>4, <1>6
  <2> HIDE DEF facts
  <2> QED
    BY <1>7, <1>8, <2>1
<1>11. ReadProjectFacts(limit) = SubSeq(facts, 1, Lesser(limit, m))
  BY <1>9 DEF ReadProjectFacts, Filter, P, sub
<1> HIDE DEF facts
<1> DEFINE cut == Lesser(limit, m)
<1>12. cut \in 0..m /\ c <= cut
  BY <1>4, <1>10 DEF Lesser, c, C, n
<1> HIDE DEF cut
<1>13. Len(SubSeq(facts, 1, cut)) = cut /\ \A j \in 1..cut : SubSeq(facts, 1, cut)[j] = facts[j]
  BY <1>4, <1>9, <1>12, SubSeqProperties
<1>14. c \in 1..cut
  BY <1>4, <1>10, <1>12
<1> QED
  BY <1>10, <1>11, <1>13, <1>14 DEF cut

LEMMA FactsTyped == ASSUME FilesOK, NEW limit \in Nat
                    PROVE ReadProjectFacts(limit) \in Seq(Line) /\ Len(ReadProjectFacts(limit)) <= limit
<1> DEFINE P == {j \in DOMAIN projects : projects[j].id \notin Failed}
           sub == Subsequence(projects, P)
           facts == Reverse(sub)
           m == Len(sub)
           cut == Lesser(limit, m)
<1>1. P \in SUBSET DOMAIN projects /\ projects \in Seq(Line)
  BY DEF FilesOK
<1> HIDE DEF P
<1>2. sub \in Seq(Line)
  BY <1>1, PartTyped
<1> HIDE DEF sub
<1>3. m \in Nat /\ \A j \in 1..m : sub[j] \in Line
  BY <1>2, SeqIs
<1>4. facts = [j \in 1..m |-> sub[(m - j) + 1]]
  BY DEF Reverse
<1> HIDE DEF m
<1>5. \A j \in 1..m : (m - j) + 1 \in 1..m
  BY <1>3
<1>6. facts \in [1..m -> Line]
  BY <1>3, <1>4, <1>5
<1> HIDE DEF facts
<1>7. facts \in Seq(Line) /\ Len(facts) = m
  BY <1>3, <1>6, FunctionIsSeq
<1>8. ReadProjectFacts(limit) = SubSeq(facts, 1, cut)
  BY <1>7 DEF ReadProjectFacts, Filter, P, sub, facts
<1>9. cut \in 0..m /\ cut <= limit
  BY <1>3 DEF Lesser
<1> HIDE DEF cut
<1>10. Len(SubSeq(facts, 1, cut)) = cut /\ SubSeq(facts, 1, cut) \in Seq(Line)
  BY <1>3, <1>7, <1>9, SubSeqProperties
<1> QED
  BY <1>8, <1>9, <1>10

\* A fact that a canonical write acknowledged is found by every search that asks
\* for it, whatever the command line and the hook append meanwhile, and a boot or CONTEXT.md shows it as long as
\* there is room for the facts that came after it; a failed extraction takes no
\* room (readProjectFacts, collectSearchDocuments, loadRecentFacts).
THEOREM FactsAreServed == Spec => []AckedIsServed
<1>1. Inv => AckedIsServed
  <2> SUFFICES ASSUME Inv, NEW id \in acked
               PROVE  /\ SearchAnswers({id}, 1) = {{id}}
                      /\ \A i \in DOMAIN projects :
                            projects[i].id = id
                            /\ Cardinality({j \in i..Len(projects) : projects[j].id \notin Failed}) <= Show
                            => id \in IdsOf(BootContext(Show)) \cap IdsOf(ContextFacts)
    BY DEF AckedIsServed
  <2>1. FilesOK /\ projects \in Seq(Line) /\ Show \in Nat
    BY StoreAssumption DEF Inv, StoreInv, FilesOK
  <2>2. id \in IdsOf(projects) /\ id \notin Failed
    BY StoreAssumption DEF Inv, ServedInv
  <2>3. SearchAnswers({id}, 1) = {{id}}
    <3> DEFINE P == {j \in DOMAIN projects : projects[j].id \notin Failed}
               sub == Subsequence(projects, P)
    <3>1. SearchDocuments = IdsOf(sub)
      BY DEF SearchDocuments, Filter
    <3>2. PICK j \in P : projects[j].id = id
      BY <2>2 DEF IdsOf
    <3>3. P \in SUBSET DOMAIN projects
      OBVIOUS
    <3> HIDE DEF P
    <3>4. \E k \in DOMAIN sub : sub[k] = projects[j]
      BY <2>1, <3>3, PartTyped
    <3> HIDE DEF sub
    <3>5. SearchDocuments \cap {id} = {id}
      BY <3>1, <3>2, <3>4 DEF IdsOf
    <3>6. Cardinality({id}) = 1 /\ Cardinality({}) = 0
      BY FS_Singleton, FS_EmptySet
    <3>7. Lesser(1, Cardinality(SearchDocuments \cap {id})) = 1
      BY <3>5, <3>6 DEF Lesser
    <3>8. SearchAnswers({id}, 1) = {ids \in SUBSET {id} : Cardinality(ids) = 1}
      BY <3>5, <3>7 DEF SearchAnswers
    <3>9. \A ids \in SUBSET {id} : ids = {} \/ ids = {id}
      OBVIOUS
    <3>10. \A ids \in SUBSET {id} : Cardinality(ids) = 1 <=> ids = {id}
      BY <3>6, <3>9
    <3> QED
      BY <3>8, <3>10
  <2>4. ASSUME NEW i \in DOMAIN projects, projects[i].id = id,
               Cardinality({j \in i..Len(projects) : projects[j].id \notin Failed}) <= Show
        PROVE  id \in IdsOf(BootContext(Show)) /\ id \in IdsOf(ContextFacts)
    <3> DEFINE facts == ReadProjectFacts(Show)
               m == Len(facts)
    <3>1. PICK k \in 1..m : facts[k] = projects[i]
      BY <2>1, <2>2, <2>4, NewestShown
    <3>2. facts \in Seq(Line) /\ m \in Nat /\ m <= Show /\ DOMAIN facts = 1..m
      BY <2>1, FactsTyped, SeqIs
    <3>3. ContextFacts = facts
      BY DEF ContextFacts
    <3>4. BootContext(Show) = SubSeq(facts, 1, m)
      <4>1. Lesser(Show, m) = m
        <5> HIDE DEF m
        <5> QED
          BY <2>1, <3>2 DEF Lesser
      <4> QED
        BY <4>1 DEF BootContext
    <3> HIDE DEF facts, m
    <3>5. SubSeq(facts, 1, m) = facts
      <4>1. DOMAIN SubSeq(facts, 1, m) = 1..m /\ \A j \in 1..m : SubSeq(facts, 1, m)[j] = facts[j]
            /\ SubSeq(facts, 1, m) \in Seq(Line)
        BY <3>2, SubSeqProperties, SeqIs DEF m
      <4> QED
        BY <3>2, <4>1, SeqEqual DEF m
    <3> QED
      BY <2>4, <3>1, <3>2, <3>3, <3>4, <3>5 DEF IdsOf
  <2> QED
    BY <2>3, <2>4
<1> QED
  BY <1>1, Invariance, PTL
=============================================================================
