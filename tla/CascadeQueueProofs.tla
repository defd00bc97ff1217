------------------------- MODULE CascadeQueueProofs -------------------------
(***************************************************************************)
(* Proofs about CascadeQueue for every number of producers, workers, rows, *)
(* batch sizes and crashes, and about GeneratedLayers for every number of  *)
(* processes, records, files' lengths and limits.                          *)
(***************************************************************************)
EXTENDS CascadeQueue, GeneratedLayers, SequenceTheorems, TLAPS

\* The ids handed out are exactly those of the rows that ever existed.
LsnsAreDense == \A l \in Lsn : status[l] = "absent" <=> l > last

\* A batch holds rows that exist.
BatchExists == \A w \in Worker : \A l \in batch[w] : l <= last

\* What a worker is about to ack is in the sink.
AckingApplied ==
    \A w \in Worker : \A l \in Lsn : pc[w] = "acking" /\ At(w, l) => l \in applied

\* What precedes a row of a batch is in the batch, in the sink or given back.
BatchCloses ==
    \A w \in Worker : \A l \in batch[w], m \in Lsn :
        m < l => m \in batch[w] \cup applied \cup failed

IInv ==
    /\ TypeOK
    /\ LsnsAreDense /\ BatchExists /\ AckingApplied /\ BatchCloses
    /\ ProcessedWasApplied /\ AppliedInOrder

-----------------------------------------------------------------------------
(* Type correctness *)

LEMMA TypeInit == Init => TypeOK
BY CascadeAssumption DEF Init, TypeOK, Lsn

\* Advancing takes a row from the batch.
LEMMA AdvanceEffect ==
    ASSUME TypeOK, NEW w \in Worker, NEW l \in Lsn, Advance(w, l)
    PROVE  /\ pc' \in [Worker -> {"down", "idle", "claiming", "applying", "acking", "failing"}]
           /\ batch' \in [Worker -> SUBSET Lsn]
           /\ pc'[w] \in {"idle", "applying"}
           /\ batch'[w] = batch[w] \ {l}
           /\ \A v \in Worker \ {w} : pc'[v] = pc[v] /\ batch'[v] = batch[v]
BY DEF Advance, TypeOK

\* Marking a row, as ack does, turns queued rows into processed ones only.
LEMMA AckEffect ==
    ASSUME TypeOK, NEW w \in Worker, NEW l \in Lsn, Ack(w, l)
    PROVE  /\ status' \in [Lsn -> {"absent", "queued", "processed", "pruned"}]
           /\ \A m \in Lsn : \/ status'[m] = status[m]
                             \/ m = l /\ status[m] = "queued" /\ status'[m] = "processed"
<1>1. CASE owner[l] = w /\ status[l] = "queued"
  <2>1. status' = [status EXCEPT ![l] = "processed"]
    BY <1>1 DEF Ack
  <2>2. QED BY <1>1, <2>1 DEF TypeOK
<1>2. CASE ~(owner[l] = w /\ status[l] = "queued")
  <2>1. status' = status
    BY <1>2 DEF Ack
  <2>2. QED BY <2>1 DEF TypeOK
<1>3. QED BY <1>1, <1>2

\* Deleting rows, as prune does, turns processed rows into pruned ones only.
LEMMA PruneEffect ==
    ASSUME TypeOK, Prune
    PROVE  /\ status' \in [Lsn -> {"absent", "queued", "processed", "pruned"}]
           /\ \A m \in Lsn : \/ status'[m] = status[m]
                             \/ status[m] = "processed" /\ status'[m] = "pruned"
<1>1. PICK old \in SUBSET {l \in Lsn : status[l] = "processed"} :
        status' = [l \in Lsn |-> IF l \in old THEN "pruned" ELSE status[l]]
  BY DEF Prune
<1>2. QED BY <1>1 DEF TypeOK

\* Inserting a row gives it the next id.
LEMMA InsertEffect ==
    ASSUME TypeOK, NEW p \in Producer, Insert(p)
    PROVE  /\ last + 1 \in Lsn /\ last' = last + 1
           /\ status' = [status EXCEPT ![last + 1] = "queued"]
           /\ status' \in [Lsn -> {"absent", "queued", "processed", "pruned"}]
           /\ row' \in [Lsn -> Event \cup {None}]
<1>1. last + 1 \in Lsn
  BY CascadeAssumption DEF Insert, TypeOK, Lsn
<1>2. QED BY <1>1 DEF Insert, TypeOK

LEMMA TypeStep == TypeOK /\ [Next]_vars => TypeOK'
<1> SUFFICES ASSUME TypeOK, [Next]_vars PROVE TypeOK'
  OBVIOUS
<1> USE DEF TypeOK
<1>1. ASSUME NEW p \in Producer, Enqueue(p) PROVE TypeOK'
  BY <1>1 DEF Enqueue, tableVars, workerVars
<1>2. ASSUME NEW p \in Producer, Insert(p) PROVE TypeOK'
  <2>1. last' \in 0..MaxLsn
    BY <1>2, InsertEffect DEF Lsn
  <2>2. QED BY <1>2, <2>1, InsertEffect DEF Insert, workerVars
<1>3. ASSUME NEW w \in Worker, Start(w) PROVE TypeOK'
  BY <1>3 DEF Start, tableVars
<1>4. ASSUME NEW w \in Worker, Select(w) PROVE TypeOK'
  <2>1. PICK s \in SUBSET Queued : batch' = [batch EXCEPT ![w] = s]
    BY <1>4 DEF Select
  <2>2. QED BY <1>4, <2>1 DEF Select, tableVars, Queued
<1>5. ASSUME NEW w \in Worker, Claim(w) PROVE TypeOK'
  BY <1>5 DEF Claim
<1>6. ASSUME NEW w \in Worker, Throw(w) PROVE TypeOK'
  BY <1>6 DEF Throw, tableVars
<1>7. ASSUME NEW w \in Worker, Crash(w) PROVE TypeOK'
  BY <1>7 DEF Crash, tableVars
<1>8. ASSUME NEW w \in Worker, NEW l \in Lsn, Apply(w, l) PROVE TypeOK'
  BY <1>8 DEF Apply, tableVars
<1>9. ASSUME NEW w \in Worker, NEW l \in Lsn, Ack(w, l) PROVE TypeOK'
  <2>1. Advance(w, l)
    BY <1>9 DEF Ack
  <2>2. QED BY <1>9, <2>1, AdvanceEffect, AckEffect DEF Ack
<1>10. ASSUME NEW w \in Worker, NEW l \in Lsn, Fail(w, l) PROVE TypeOK'
  <2>1. Advance(w, l)
    BY <1>10 DEF Fail
  <2>2. owner' \in [Lsn -> Worker \cup {None}]
    BY <1>10 DEF Fail
  <2>3. QED BY <1>10, <2>1, <2>2, AdvanceEffect DEF Fail
<1>11. CASE Prune
  BY <1>11, PruneEffect DEF Prune, workerVars
<1>12. CASE UNCHANGED vars
  BY <1>12 DEF vars, tableVars, workerVars
<1>13. QED
  BY <1>1, <1>2, <1>3, <1>4, <1>5, <1>6, <1>7, <1>8, <1>9, <1>10, <1>11, <1>12 DEF Next

\* The queue, its workers and its sink keep their types.
THEOREM CascadeTypeOK == Spec => []TypeOK
BY TypeInit, TypeStep, PTL DEF Spec

-----------------------------------------------------------------------------
(* The inductive invariant *)

LEMMA IInit == Init => IInv
<1> SUFFICES ASSUME Init PROVE IInv
  OBVIOUS
<1>1. TypeOK
  BY TypeInit
<1>2. QED
  BY <1>1, CascadeAssumption
  DEF Init, IInv, TypeOK, Lsn, LsnsAreDense, BatchExists, AckingApplied, BatchCloses,
      ProcessedWasApplied, AppliedInOrder

\* A step that only moves a worker that is about to ack nothing.
LEMMA StillIInv ==
    ASSUME IInv, TypeOK', UNCHANGED <<last, status, batch, applied, failed>>,
           \A w \in Worker : pc'[w] = "acking" => pc[w] = "acking"
    PROVE  IInv'
BY DEF IInv, LsnsAreDense, BatchExists, AckingApplied, BatchCloses,
       ProcessedWasApplied, AppliedInOrder, At

LEMMA InsertIInv ==
    ASSUME IInv, TypeOK', NEW p \in Producer, Insert(p)
    PROVE  IInv'
<1> USE DEF IInv
<1>1. /\ last' = last + 1 /\ last + 1 \in Lsn
      /\ status' = [status EXCEPT ![last + 1] = "queued"]
  BY InsertEffect
<1>2. UNCHANGED <<pc, batch, applied, failed>>
  BY DEF Insert, workerVars
<1>3. LsnsAreDense'
  BY <1>1 DEF LsnsAreDense, TypeOK, Lsn
<1>4. BatchExists'
  BY <1>1, <1>2 DEF BatchExists, TypeOK, Lsn
<1>5. ProcessedWasApplied'
  BY <1>1, <1>2 DEF ProcessedWasApplied, TypeOK
<1>6. AckingApplied' /\ BatchCloses' /\ AppliedInOrder'
  BY <1>2 DEF AckingApplied, BatchCloses, AppliedInOrder, At
<1>7. QED BY <1>3, <1>4, <1>5, <1>6

LEMMA SelectIInv ==
    ASSUME IInv, TypeOK', NEW w \in Worker, Select(w)
    PROVE  IInv'
<1> USE DEF IInv
<1>1. PICK s \in SUBSET Queued : /\ Lowest(s, Limit[w])
                                 /\ batch' = [batch EXCEPT ![w] = s]
  BY DEF Select
<1>2. /\ UNCHANGED <<last, status, applied, failed>>
      /\ pc' = [pc EXCEPT ![w] = "claiming"]
  BY DEF Select, tableVars
<1>3. batch'[w] = s /\ \A v \in Worker \ {w} : batch'[v] = batch[v] /\ pc'[v] = pc[v]
  BY <1>1, <1>2 DEF TypeOK
<1>4. \A l \in s : l \in Lsn /\ status[l] = "queued" /\ l <= last
  BY DEF Queued, LsnsAreDense, TypeOK, Lsn
<1>5. BatchExists'
  BY <1>2, <1>3, <1>4 DEF BatchExists
<1>6. AckingApplied'
  BY <1>2, <1>3 DEF AckingApplied, At, TypeOK
<1>7. BatchCloses'
  <2>1. ASSUME NEW l \in s, NEW m \in Lsn, m < l PROVE m \in s \cup applied \cup failed
    <3>1. status[m] # "absent"
      BY <2>1, <1>4 DEF LsnsAreDense, TypeOK, Lsn
    <3>2. CASE status[m] = "queued"
      BY <3>2, <2>1, <1>1, <1>4 DEF Lowest, Queued, Lsn
    <3>3. CASE status[m] \in {"processed", "pruned"}
      BY <3>3 DEF ProcessedWasApplied
    <3>4. QED BY <3>1, <3>2, <3>3 DEF TypeOK
  <2>2. QED BY <2>1, <1>2, <1>3 DEF BatchCloses
<1>8. LsnsAreDense' /\ ProcessedWasApplied' /\ AppliedInOrder'
  BY <1>2 DEF LsnsAreDense, ProcessedWasApplied, AppliedInOrder
<1>9. QED BY <1>5, <1>6, <1>7, <1>8

LEMMA ApplyIInv ==
    ASSUME IInv, TypeOK', NEW w \in Worker, NEW l \in Lsn, Apply(w, l)
    PROVE  IInv'
<1> USE DEF IInv
<1>1. /\ UNCHANGED <<last, status, batch, failed>>
      /\ applied' = applied \cup {l}
      /\ pc' = [pc EXCEPT ![w] = "acking"]
      /\ At(w, l)
  BY DEF Apply, tableVars
<1>2. AckingApplied'
  <2>1. ASSUME NEW v \in Worker, NEW m \in Lsn, pc'[v] = "acking", At(v, m)
        PROVE  m \in applied'
    <3>1. CASE v = w
      <4>1. m = l
        BY <3>1, <2>1, <1>1 DEF At, Lsn
      <4>2. QED BY <4>1, <1>1
    <3>2. CASE v # w
      BY <3>2, <2>1, <1>1 DEF AckingApplied, TypeOK
    <3>3. QED BY <3>1, <3>2
  <2>2. QED BY <2>1, <1>1 DEF AckingApplied, At
<1>3. AppliedInOrder'
  <2>1. ASSUME NEW m \in Lsn, m < l PROVE m \in applied \cup failed
    <3>1. m \notin batch[w]
      BY <2>1, <1>1 DEF At, Lsn
    <3>2. QED BY <3>1, <2>1, <1>1 DEF BatchCloses, At
  <2>2. QED BY <2>1, <1>1 DEF AppliedInOrder
<1>4. LsnsAreDense' /\ BatchExists' /\ BatchCloses' /\ ProcessedWasApplied'
  BY <1>1 DEF LsnsAreDense, BatchExists, BatchCloses, ProcessedWasApplied
<1>5. QED BY <1>2, <1>3, <1>4

\* Taking a row that was applied or given back from a batch.
LEMMA AdvanceIInv ==
    ASSUME IInv, TypeOK', NEW w \in Worker, NEW l \in Lsn, Advance(w, l),
           UNCHANGED <<last, applied>>, failed \subseteq failed',
           l \in applied \cup failed'
    PROVE  BatchExists' /\ AckingApplied' /\ BatchCloses' /\ AppliedInOrder'
<1> USE DEF IInv
<1>1. /\ pc'[w] \in {"idle", "applying"}
      /\ batch'[w] = batch[w] \ {l}
      /\ \A v \in Worker \ {w} : pc'[v] = pc[v] /\ batch'[v] = batch[v]
  BY AdvanceEffect
<1>2. BatchExists'
  BY <1>1 DEF BatchExists
<1>3. AckingApplied'
  BY <1>1 DEF AckingApplied, At
<1>4. BatchCloses'
  BY <1>1 DEF BatchCloses
<1>5. AppliedInOrder'
  BY DEF AppliedInOrder
<1>6. QED BY <1>2, <1>3, <1>4, <1>5

LEMMA AckIInv ==
    ASSUME IInv, TypeOK', NEW w \in Worker, NEW l \in Lsn, Ack(w, l)
    PROVE  IInv'
<1> USE DEF IInv
<1>1. l \in applied
  BY DEF Ack, AckingApplied
<1>2. Advance(w, l) /\ UNCHANGED <<last, applied, failed>>
  BY DEF Ack
<1>3. BatchExists' /\ AckingApplied' /\ BatchCloses' /\ AppliedInOrder'
  BY <1>1, <1>2, AdvanceIInv
<1>4. LsnsAreDense' /\ ProcessedWasApplied'
  BY <1>1, <1>2, AckEffect DEF LsnsAreDense, ProcessedWasApplied
<1>5. QED BY <1>3, <1>4

LEMMA FailIInv ==
    ASSUME IInv, TypeOK', NEW w \in Worker, NEW l \in Lsn, Fail(w, l)
    PROVE  IInv'
<1> USE DEF IInv
<1>1. Advance(w, l) /\ UNCHANGED <<last, status, applied>> /\ failed' = failed \cup {l}
  BY DEF Fail
<1>2. BatchExists' /\ AckingApplied' /\ BatchCloses' /\ AppliedInOrder'
  BY <1>1, AdvanceIInv
<1>3. LsnsAreDense' /\ ProcessedWasApplied'
  BY <1>1 DEF LsnsAreDense, ProcessedWasApplied
<1>4. QED BY <1>2, <1>3

LEMMA CrashIInv ==
    ASSUME IInv, TypeOK', NEW w \in Worker, Crash(w)
    PROVE  IInv'
<1> USE DEF IInv
<1>1. /\ UNCHANGED <<last, status, applied, failed>>
      /\ pc' = [pc EXCEPT ![w] = "down"]
      /\ batch' = [batch EXCEPT ![w] = {}]
  BY DEF Crash, tableVars
<1>2. batch'[w] = {} /\ \A v \in Worker \ {w} : batch'[v] = batch[v] /\ pc'[v] = pc[v]
  BY <1>1 DEF TypeOK
<1>3. BatchExists' /\ AckingApplied' /\ BatchCloses'
  BY <1>1, <1>2 DEF BatchExists, AckingApplied, BatchCloses, At
<1>4. LsnsAreDense' /\ ProcessedWasApplied' /\ AppliedInOrder'
  BY <1>1 DEF LsnsAreDense, ProcessedWasApplied, AppliedInOrder
<1>5. QED BY <1>3, <1>4

LEMMA PruneIInv == ASSUME IInv, TypeOK', Prune PROVE IInv'
<1> USE DEF IInv
<1>1. UNCHANGED <<last, pc, batch, applied, failed>>
  BY DEF Prune, workerVars
<1>2. LsnsAreDense' /\ ProcessedWasApplied'
  BY <1>1, PruneEffect DEF LsnsAreDense, ProcessedWasApplied
<1>3. BatchExists' /\ AckingApplied' /\ BatchCloses' /\ AppliedInOrder'
  BY <1>1 DEF BatchExists, AckingApplied, BatchCloses, AppliedInOrder, At
<1>4. QED BY <1>2, <1>3

LEMMA IStep == IInv /\ [Next]_vars => IInv'
<1> SUFFICES ASSUME IInv, [Next]_vars PROVE IInv'
  OBVIOUS
<1> TypeOK /\ TypeOK'
  BY TypeStep DEF IInv
<1>1. ASSUME NEW p \in Producer, Enqueue(p) PROVE IInv'
  BY <1>1, StillIInv DEF Enqueue, tableVars, workerVars
<1>2. ASSUME NEW p \in Producer, Insert(p) PROVE IInv'
  BY <1>2, InsertIInv
<1>3. ASSUME NEW w \in Worker, Start(w) PROVE IInv'
  <2>1. \A v \in Worker : pc'[v] = "acking" => pc[v] = "acking"
    BY <1>3 DEF Start, TypeOK
  <2>2. QED BY <1>3, <2>1, StillIInv DEF Start, tableVars
<1>4. ASSUME NEW w \in Worker, Select(w) PROVE IInv'
  BY <1>4, SelectIInv
<1>5. ASSUME NEW w \in Worker, Claim(w) PROVE IInv'
  <2>1. \A v \in Worker : pc'[v] = "acking" => pc[v] = "acking"
    BY <1>5 DEF Claim, TypeOK
  <2>2. QED BY <1>5, <2>1, StillIInv DEF Claim
<1>6. ASSUME NEW w \in Worker, Throw(w) PROVE IInv'
  <2>1. \A v \in Worker : pc'[v] = "acking" => pc[v] = "acking"
    BY <1>6 DEF Throw, TypeOK
  <2>2. QED BY <1>6, <2>1, StillIInv DEF Throw, tableVars
<1>7. ASSUME NEW w \in Worker, Crash(w) PROVE IInv'
  BY <1>7, CrashIInv
<1>8. ASSUME NEW w \in Worker, NEW l \in Lsn, Apply(w, l) PROVE IInv'
  BY <1>8, ApplyIInv
<1>9. ASSUME NEW w \in Worker, NEW l \in Lsn, Ack(w, l) PROVE IInv'
  BY <1>9, AckIInv
<1>10. ASSUME NEW w \in Worker, NEW l \in Lsn, Fail(w, l) PROVE IInv'
  BY <1>10, FailIInv
<1>11. CASE Prune
  BY <1>11, PruneIInv
<1>12. CASE UNCHANGED vars
  BY <1>12, StillIInv DEF vars, tableVars, workerVars
<1>13. QED
  BY <1>1, <1>2, <1>3, <1>4, <1>5, <1>6, <1>7, <1>8, <1>9, <1>10, <1>11, <1>12 DEF Next

\* The inductive invariant holds, for any number of workers and crashes.
THEOREM CascadeIInv == Spec => []IInv
BY IInit, IStep, PTL DEF Spec

\* Only changes the sink received are marked or pruned.
THEOREM CascadeProcessedWasApplied == Spec => []ProcessedWasApplied
<1>1. IInv => ProcessedWasApplied
  BY DEF IInv
<1>2. QED BY <1>1, CascadeIInv, PTL

\* A change first reaches the sink after all older ones no worker gave back.
THEOREM CascadeAppliedInOrder == Spec => []AppliedInOrder
<1>1. IInv => AppliedInOrder
  BY DEF IInv
<1>2. QED BY <1>1, CascadeIInv, PTL

-----------------------------------------------------------------------------
(* The queue implements at-least-once delivery *)

posted == {l \in Lsn : status[l] # "absent"}
retired == {l \in Lsn : status[l] \in {"processed", "pruned"}}

LEMMA DeliveryInit == Init => Delivery!Init
BY DEF Init, Delivery!Init

\* Steps that leave every row's life and the sink alone are stuttering.
LEMMA Stutters ==
    ASSUME UNCHANGED <<status, applied>> PROVE UNCHANGED Delivery!deliveryVars
BY DEF Delivery!deliveryVars

LEMMA DeliveryStep == IInv /\ [Next]_vars => [Delivery!Next]_(Delivery!deliveryVars)
<1> SUFFICES ASSUME IInv, [Next]_vars
             PROVE  Delivery!Next \/ UNCHANGED Delivery!deliveryVars
  OBVIOUS
<1> USE DEF IInv
<1>1. ASSUME NEW p \in Producer, Enqueue(p) PROVE UNCHANGED Delivery!deliveryVars
  BY <1>1, Stutters DEF Enqueue, tableVars
<1>2. ASSUME NEW p \in Producer, Insert(p) PROVE Delivery!Next
  <2>1. /\ last + 1 \in Lsn
        /\ status' = [status EXCEPT ![last + 1] = "queued"]
        /\ applied' = applied
    BY <1>2, InsertEffect DEF Insert
  <2>2. status[last + 1] = "absent"
    BY <2>1 DEF LsnsAreDense, TypeOK, Lsn
  <2>3. PICK e \in Lsn : e = last + 1
    BY <2>1
  <2>4. Delivery!Post(e)
    BY <2>1, <2>2, <2>3 DEF Delivery!Post, TypeOK
  <2>5. QED BY <2>4 DEF Delivery!Next
<1>3. ASSUME NEW w \in Worker, Start(w) PROVE UNCHANGED Delivery!deliveryVars
  BY <1>3, Stutters DEF Start, tableVars
<1>4. ASSUME NEW w \in Worker, Select(w) PROVE UNCHANGED Delivery!deliveryVars
  BY <1>4, Stutters DEF Select, tableVars
<1>5. ASSUME NEW w \in Worker, Claim(w) PROVE UNCHANGED Delivery!deliveryVars
  BY <1>5, Stutters DEF Claim
<1>6. ASSUME NEW w \in Worker, Throw(w) PROVE UNCHANGED Delivery!deliveryVars
  BY <1>6, Stutters DEF Throw, tableVars
<1>7. ASSUME NEW w \in Worker, Crash(w) PROVE UNCHANGED Delivery!deliveryVars
  BY <1>7, Stutters DEF Crash, tableVars
<1>8. ASSUME NEW w \in Worker, NEW l \in Lsn, Apply(w, l) PROVE Delivery!Next
  <2>1. status' = status /\ applied' = applied \cup {l}
    BY <1>8 DEF Apply, tableVars
  <2>2. status[l] # "absent"
    BY <1>8 DEF Apply, At, BatchExists, LsnsAreDense, TypeOK, Lsn
  <2>3. Delivery!Deliver(l)
    BY <2>1, <2>2 DEF Delivery!Deliver
  <2>4. QED BY <2>3 DEF Delivery!Next
<1>9. ASSUME NEW w \in Worker, NEW l \in Lsn, Ack(w, l)
      PROVE  Delivery!Next \/ UNCHANGED Delivery!deliveryVars
  <2>1. l \in applied /\ applied' = applied
    BY <1>9 DEF Ack, AckingApplied
  <2>2. CASE owner[l] = w /\ status[l] = "queued"
    <3>1. status' = [status EXCEPT ![l] = "processed"]
      BY <1>9, <2>2 DEF Ack
    <3>2. Delivery!Retire(l)
      BY <2>1, <2>2, <3>1 DEF Delivery!Retire, TypeOK
    <3>3. QED BY <3>2 DEF Delivery!Next
  <2>3. CASE ~(owner[l] = w /\ status[l] = "queued")
    BY <1>9, <2>3, Stutters DEF Ack
  <2>4. QED BY <2>2, <2>3
<1>10. ASSUME NEW w \in Worker, NEW l \in Lsn, Fail(w, l)
       PROVE  UNCHANGED Delivery!deliveryVars
  BY <1>10, Stutters DEF Fail
<1>11. CASE Prune
  <2>1. applied' = applied
    BY <1>11 DEF Prune
  <2>2. posted' = posted /\ retired' = retired
    BY <1>11, PruneEffect DEF posted, retired
  <2>3. UNCHANGED Delivery!deliveryVars
    BY <2>1, <2>2 DEF posted, retired, Delivery!deliveryVars
  <2>4. QED BY <2>3
<1>12. CASE UNCHANGED vars
  BY <1>12, Stutters DEF vars, tableVars
<1>13. QED
  BY <1>1, <1>2, <1>3, <1>4, <1>5, <1>6, <1>7, <1>8, <1>9, <1>10, <1>11, <1>12 DEF Next

\* The queue implements at-least-once delivery: what is posted is not lost, and
\* retired only once it was delivered.
THEOREM CascadeDeliversAtLeastOnce == Spec => DeliversAtLeastOnce
BY DeliveryInit, DeliveryStep, CascadeIInv, PTL DEF Spec, DeliversAtLeastOnce, Delivery!Spec

-----------------------------------------------------------------------------
(* The diff of two record sets *)

\* Skipping what did not change loses nothing: the diff, applied to the records
\* it was made from, gives the current ones, and it names each record at most
\* once, to be written or to be deleted.
THEOREM DiffIsExact ==
    ASSUME NEW I, NEW J, NEW H, NEW previous \in [I -> H], NEW current \in [J -> H]
    PROVE  LET diff == DiffByHash(previous, current)
           IN  Patched(previous, diff) = current /\ DOMAIN diff.upserts \cap diff.deletes = {}
<1> DEFINE diff == DiffByHash(previous, current)
           changed == {i \in J : i \in I => previous[i] # current[i]}
<1>1. /\ diff.upserts = [id \in changed |-> current[id]]
      /\ diff.deletes = I \ J
  BY DEF DiffByHash
<1>2. (I \ diff.deletes) \cup DOMAIN diff.upserts = J
  BY <1>1
<1>3. ASSUME NEW id \in J
      PROVE  (IF id \in DOMAIN diff.upserts THEN diff.upserts[id] ELSE previous[id]) = current[id]
  BY <1>1
<1>4. Patched(previous, diff) = current
  <2>1. Patched(previous, diff) =
          [id \in J |-> IF id \in DOMAIN diff.upserts THEN diff.upserts[id] ELSE previous[id]]
    BY <1>2 DEF Patched
  <2>2. QED BY <2>1, <1>3
<1>5. DOMAIN diff.upserts \cap diff.deletes = {}
  BY <1>1
<1>6. QED BY <1>4, <1>5

----------------------------------------------------------------------------
(* The generated layers. *)

\* The signed files' lines.  Of two readings, one after the other, the layers are
\* the same and the inputs have grown, if nobody has rewritten a layer.
Sheets == [Signed -> Seq(Line)]
SheetOf(s) == [f \in Signed |-> s[f]]
Alike(a, b) == \A f \in {"inbox", "session", "tasks"} : a[f] = b[f]
Grown(a, b) == \A f \in {"imports", "board"} : a[f] = b[f] \/ Len(a[f]) < Len(b[f])

LEMMA SheetIs ==
    /\ Signature = SheetOf(store) /\ Contents = SheetOf(store) /\ Signed \subseteq File
    /\ store \in [File -> Seq(Line)] => SheetOf(store) \in Sheets
<1>1. {Reported[k] : k \in DOMAIN Reported} = Signed
  BY DEF Reported, Signed
<1>2. Signed \subseteq File
  BY DEF Signed, File, Input
<1> QED
  BY <1>1, <1>2 DEF Signature, Contents, SheetOf, Sheets

LEMMA GrownAgain ==
    ASSUME NEW a \in Sheets, NEW b \in Sheets, NEW c \in Sheets, Grown(a, b), Grown(b, c)
    PROVE  Grown(a, c)
<1> SUFFICES ASSUME NEW f \in {"imports", "board"} PROVE a[f] = c[f] \/ Len(a[f]) < Len(c[f])
  BY DEF Grown
<1>1. Len(a[f]) \in Nat /\ Len(b[f]) \in Nat /\ Len(c[f]) \in Nat
  BY DEF Sheets, Signed
<1>2. (a[f] = b[f] \/ Len(a[f]) < Len(b[f])) /\ (b[f] = c[f] \/ Len(b[f]) < Len(c[f]))
  BY DEF Grown
<1> QED
  BY <1>1, <1>2

\* A reading after a signature and before what is the same as that is the same.
LEMMA GrownBack ==
    ASSUME NEW a \in Sheets, NEW b \in Sheets, Alike(a, b), Grown(a, b), Grown(b, a)
    PROVE  a = b
<1>1. ASSUME NEW f \in {"imports", "board"} PROVE a[f] = b[f]
  <2>1. Len(a[f]) \in Nat /\ Len(b[f]) \in Nat
    BY DEF Sheets, Signed
  <2> QED
    BY <2>1 DEF Grown
<1>2. \A f \in Signed : a[f] = b[f]
  BY <1>1 DEF Alike, Signed
<1> QED
  BY <1>2 DEF Sheets

\* A file that gets longer is not what it was before.
LEMMA LongerIs ==
    ASSUME NEW s \in Seq(Line), NEW t \in Seq(Line)
    PROVE  s \o t \in Seq(Line) /\ (s \o t = s \/ Len(s) < Len(s \o t))
<1>1. s \o t \in Seq(Line) /\ Len(s \o t) = Len(s) + Len(t) /\ Len(s) \in Nat /\ Len(t) \in Nat
  BY ConcatProperties
<1>2. CASE Len(t) = 0
  <2>1. t = <<>>
    BY <1>2, EmptySeq
  <2> QED
    BY <1>1, <2>1
<1> QED
  BY <1>1, <1>2

\* What a rebuild reads and merges are lines.
LEMMA InboxTyped ==
    ASSUME NEW notes \in Seq(Line), NEW dreams \in Seq(Line)
    PROVE  InboxOf(notes, dreams) \in Seq(Line)
<1> DEFINE P == {i \in DOMAIN dreams : /\ dreams[i] \notin ToSet(notes)
                                       /\ \A j \in 1..(i - 1) : dreams[j] # dreams[i]}
<1>1. Len(dreams) \in Nat /\ P \in SUBSET (1..Len(dreams)) /\ \A i \in P : dreams[i] \in Line
  OBVIOUS
<1>2. InboxOf(notes, dreams) = notes \o Subsequence(dreams, P)
  BY DEF InboxOf
<1> HIDE DEF P
<1>3. Subsequence(dreams, P) \in Seq(Line)
  BY <1>1, SubsequenceTyped
<1> QED
  BY <1>2, <1>3, LongerIs

LEMMA MergedIs ==
    ASSUME NEW s \in Seq(Line), NEW files, files.session \in Seq(Line), files.projects \in Seq(Line)
    PROVE  Merged(s, files) \in Seq(Line)
<1> DEFINE u == files.session
           t == files.projects
           P == {i \in DOMAIN t : t[i] \notin ToSet(s)}
           rest == Subsequence(t, P)
<1>1. Len(t) \in Nat /\ P \in SUBSET (1..Len(t)) /\ \A i \in P : t[i] \in Line
  OBVIOUS
<1>2. Merged(s, files) = s \o files.session \o rest
  BY DEF Merged, Filter
<1> HIDE DEF P, t
<1>3. rest \in Seq(Line)
  BY <1>1, SubsequenceTyped
<1> HIDE DEF rest
<1>0. u \in Seq(Line)
  OBVIOUS
<1> HIDE DEF u
<1>4. s \o u \in Seq(Line)
  BY <1>0, LongerIs
<1> QED
  BY <1>2, <1>3, <1>4, LongerIs DEF u

\* What is written over an empty file is all that is in it.
LEMMA OverIs ==
    ASSUME NEW new \in Seq(Line), NEW old \in Seq(Line)
    PROVE  Over(new, old) \in Seq(Line) /\ (old = <<>> => Over(new, old) = new)
<1>1. Len(new) \in Nat /\ Len(old) \in Nat
  OBVIOUS
<1> DEFINE rest == SubSeq(old, Len(new) + 1, Len(old))
<1>2. rest \in Seq(Line)
  <2>1. ASSUME NEW i \in (Len(new) + 1)..Len(old) PROVE old[i] \in Line
    BY <1>1, <2>1
  <2> QED
    BY <1>1, <2>1, SubSeqProperties
<1>3. old = <<>> => rest = <<>>
  <2> SUFFICES ASSUME old = <<>> PROVE rest = <<>>
    OBVIOUS
  <2>1. Len(old) = 0
    BY EmptySeq
  <2> QED
    BY <1>1, <2>1, SubSeqProperties, EmptySeq
<1>4. Over(new, old) = new \o rest
  BY DEF Over
<1> HIDE DEF rest
<1>5. new \o <<>> = new
  BY ConcatEmptySeq
<1> QED
  BY <1>2, <1>3, <1>4, <1>5, LongerIs

----------------------------------------------------------------------------

\* A process's state has seven fields; what a dream has queued are ids.
Shaped(x) ==
    /\ x = [at |-> x.at, sig |-> x.sig, files |-> x.files, queue |-> x.queue, lock |-> x.lock, calm |-> x.calm,
            then |-> x.then]
    /\ x.queue \in Seq(Id)

Shown(s) == [inbox |-> s.inbox, session |-> s.session, tasks |-> s.tasks]

\* What a rebuild has read are lines, and as long as nobody else writes it has
\* the layers it wrote, which its artifacts describe.
BuildRuns(at, files, calm, s, a, c) ==
    /\ at \in {"inbox", "fill inbox", "merge"} =>
         /\ files.inbox \in Seq(Line) /\ files.tasks \in Seq(Line)
         /\ files.session \in Seq(Line) /\ files.projects \in Seq(Line)
    /\ at \in {"session", "fill session", "tasks", "fill tasks"} =>
         /\ files.session \in Seq(Line) /\ files.tasks \in Seq(Line)
         /\ files = [inbox |-> files.inbox, session |-> files.session, tasks |-> files.tasks]
    /\ calm =>
        /\ at = "fill inbox" => s.inbox = <<>>
        /\ at \in {"merge", "session", "fill session", "tasks", "fill tasks"} => files.inbox = s.inbox
        /\ at = "fill session" => s.session = <<>>
        /\ at \in {"tasks", "fill tasks"} => files.session = s.session
        /\ at = "fill tasks" => s.tasks = <<>>
        /\ at \in {"layers", "body", "meta", "nav"} => files = Shown(s)
        /\ at \in {"body", "meta", "nav"} => a.layers.sig = SheetOf(s) /\ a.layers.body = LayerSummary(files)
        /\ at \in {"meta", "nav"} => c.body = Body(files)
        /\ at = "nav" => c.meta = Meta(files)

\* The pack is made from what it signs; a dream and the hygiene report sign what
\* they read or, of what is not a layer, something from before it.
ReportRuns(at, sig, files, calm, s) ==
    /\ at = "pack" /\ calm => files = SheetOf(s)
    /\ at \in {"analyse", "read"} => /\ sig \in Sheets
                                     /\ calm => Alike(sig, SheetOf(s)) /\ Grown(sig, SheetOf(s))
    /\ at \in {"write", "append"} => /\ sig \in Sheets /\ files \in Sheets /\ Grown(files, SheetOf(s))
                                     /\ calm => Alike(sig, files) /\ Grown(sig, files)

Runs(at, sig, files, calm, s, a, c) == BuildRuns(at, files, calm, s, a, c) /\ ReportRuns(at, sig, files, calm, s)

\* An artifact shows what it signs, or what the inputs have become since.
Tells(x, n, s) ==
    \E v \in Sheets : /\ x.sig \in Sheets /\ x.body = Generated(n, v)
                      /\ Alike(x.sig, v) /\ Grown(x.sig, v) /\ Grown(v, SheetOf(s))
Told(a, s) ==
    /\ \A n \in {"layers", "handoff"} : a[n] # Missing /\ a[n].calm => a[n].body = Generated(n, a[n].sig)
    /\ \A n \in {"dream", "hygiene"} : a[n] # Missing /\ a[n].calm => Tells(a[n], n, s)

LayersInv ==
    /\ store \in [File -> Seq(Line)]
    /\ art = [n \in Artifact |-> art[n]] /\ context = [c \in Context |-> context[c]]
    /\ proc = [p \in Process |-> proc[p]]
    /\ \A p \in Process : /\ Shaped(proc[p])
                          /\ Runs(proc[p].at, proc[p].sig, proc[p].files, proc[p].calm, store, art, context)
    /\ Told(art, store)

LEMMA IdleRuns ==
    ASSUME NEW at \in {"idle", "sign", "busy", "break", "dispose", "delete"},
           NEW s, NEW a, NEW c, NEW sig, NEW files, NEW calm
    PROVE  Runs(at, sig, files, calm, s, a, c)
  BY DEF Runs, BuildRuns, ReportRuns

LEMMA StillTold ==
    ASSUME NEW s \in [File -> Seq(Line)], NEW s2 \in [File -> Seq(Line)], NEW a,
           Grown(SheetOf(s), SheetOf(s2)), Told(a, s)
    PROVE  Told(a, s2)
<1>1. SheetOf(s) \in Sheets /\ SheetOf(s2) \in Sheets
  BY DEF SheetOf, Sheets, Signed, File, Input
<1>2. ASSUME NEW n, Tells(a[n], n, s) PROVE Tells(a[n], n, s2)
  BY <1>1, <1>2, GrownAgain DEF Tells
<1> QED
  BY <1>2 DEF Told

\* Process p goes on without writing.
LEMMA QuietKeeps ==
    ASSUME LayersInv, NEW p \in Process, NEW x, Go(p, x), UNCHANGED <<store, art, context>>,
           Shaped(x), Runs(x.at, x.sig, x.files, x.calm, store, art, context)
    PROVE  LayersInv'
<1>1. /\ proc' = [q \in Process |-> proc'[q]] /\ proc'[p] = x
      /\ \A q \in Process \ {p} : proc'[q] = proc[q]
  BY DEF LayersInv, Go
<1>2. ASSUME NEW q \in Process
      PROVE  /\ Shaped(proc'[q])
             /\ Runs(proc'[q].at, proc'[q].sig, proc'[q].files, proc'[q].calm, store, art, context)
  BY <1>1 DEF LayersInv
<1> QED
  BY <1>1, <1>2 DEF LayersInv

\* What another process has read stays in order when somebody writes.
LEMMA OthersRun ==
    ASSUME LayersInv, NEW q \in Process, NEW rewriting \in BOOLEAN, proc'[q] = Stirred(q, rewriting),
           store' \in [File -> Seq(Line)], Grown(SheetOf(store), SheetOf(store')),
           ~rewriting => Alike(SheetOf(store), SheetOf(store'))
    PROVE  /\ Shaped(proc'[q])
           /\ Runs(proc'[q].at, proc'[q].sig, proc'[q].files, proc'[q].calm, store', art', context')
<1> DEFINE y == proc[q]
           S == SheetOf(store)
           T == SheetOf(store')
<1>0. Shaped(y) /\ Runs(y.at, y.sig, y.files, y.calm, store, art, context) /\ store \in [File -> Seq(Line)]
  BY DEF LayersInv
<1>1. S \in Sheets /\ T \in Sheets /\ Grown(S, T) /\ (~rewriting => Alike(S, T))
  BY <1>0 DEF SheetOf, Sheets, Signed, File, Input
<1>2. ReportRuns(y.at, y.sig, y.files, y.calm, store)
  BY <1>0 DEF Runs
<1> HIDE DEF S, T
<1>3. /\ y.at \in {"analyse", "read"} => y.sig \in Sheets /\ (y.calm => Alike(y.sig, S) /\ Grown(y.sig, S))
      /\ y.at \in {"write", "append"} => /\ y.sig \in Sheets /\ y.files \in Sheets /\ Grown(y.files, S)
                                         /\ y.calm => Alike(y.sig, y.files) /\ Grown(y.sig, y.files)
  BY <1>2 DEF ReportRuns, S
<1>4. y.at \in {"write", "append"} => Grown(y.files, T)
  BY <1>1, <1>3, GrownAgain
<1>5. CASE Disturbs(y.at, rewriting)
  <2>1. proc'[q] = [y EXCEPT !.calm = FALSE]
    BY <1>5 DEF Stirred
  <2>2. proc'[q] = [at |-> y.at, sig |-> y.sig, files |-> y.files, queue |-> y.queue, lock |-> y.lock,
                    calm |-> FALSE, then |-> y.then]
    BY <1>0, <2>1 DEF Shaped
  <2>3. Shaped(proc'[q])
    BY <1>0, <2>2 DEF Shaped
  <2>4. proc'[q].at = y.at /\ proc'[q].sig = y.sig /\ proc'[q].files = y.files /\ ~proc'[q].calm
    BY <2>2
  <2>5. BuildRuns(y.at, y.files, proc'[q].calm, store', art', context')
    BY <1>0, <2>4 DEF Runs, BuildRuns
  <2>6. ReportRuns(y.at, y.sig, y.files, proc'[q].calm, store')
    BY <1>3, <1>4, <2>4 DEF ReportRuns, T
  <2> QED
    BY <2>3, <2>4, <2>5, <2>6 DEF Runs
<1>6. CASE ~Disturbs(y.at, rewriting)
  <2>1. proc'[q] = y /\ y.at \notin Rebuilding \cup {"pack"} /\ (y.at \in {"analyse", "read"} => ~rewriting)
    BY <1>6 DEF Stirred, Disturbs
  <2>2. BuildRuns(y.at, y.files, y.calm, store', art', context')
    BY <2>1 DEF BuildRuns, Rebuilding
  <2>3. y.at \in {"analyse", "read"} /\ y.calm => Alike(y.sig, T) /\ Grown(y.sig, T)
    <3> SUFFICES ASSUME y.at \in {"analyse", "read"}, y.calm PROVE Alike(y.sig, T) /\ Grown(y.sig, T)
      OBVIOUS
    <3>1. Grown(y.sig, T)
      BY <1>1, <1>3, GrownAgain
    <3>2. Alike(y.sig, T)
      BY <1>1, <1>3, <2>1 DEF Alike
    <3> QED
      BY <3>1, <3>2
  <2>4. ReportRuns(y.at, y.sig, y.files, y.calm, store')
    BY <1>3, <1>4, <2>1, <2>3 DEF ReportRuns, T
  <2> QED
    BY <1>0, <2>1, <2>2, <2>4 DEF Runs
<1> QED
  BY <1>5, <1>6

\* Process p writes, or rewrites a layer, and goes on.
LEMMA WritingKeeps ==
    ASSUME LayersInv, NEW p \in Process, NEW x, NEW rewriting \in BOOLEAN,
           IF rewriting THEN GoRewriting(p, x) ELSE GoWriting(p, x),
           store' \in [File -> Seq(Line)], Grown(SheetOf(store), SheetOf(store')),
           ~rewriting => Alike(SheetOf(store), SheetOf(store')),
           art' = [n \in Artifact |-> art'[n]], context' = [c \in Context |-> context'[c]],
           Told(art', store'),
           Shaped(x), Runs(x.at, x.sig, x.files, x.calm, store', art', context')
    PROVE  LayersInv'
<1>1. /\ proc' = [q \in Process |-> proc'[q]] /\ proc'[p] = x
      /\ \A q \in Process \ {p} : proc'[q] = Stirred(q, rewriting)
  BY DEF GoWriting, GoRewriting
<1>2. ASSUME NEW q \in Process
      PROVE  /\ Shaped(proc'[q])
             /\ Runs(proc'[q].at, proc'[q].sig, proc'[q].files, proc'[q].calm, store', art', context')
  <2>1. CASE q = p
    BY <1>1, <2>1
  <2>2. CASE q # p
    BY <1>1, <2>2, OthersRun
  <2> QED
    BY <2>1, <2>2
<1> QED
  BY <1>1, <1>2 DEF LayersInv

\* The states a process goes to.
LEMMA GetsIs ==
    ASSUME NEW p, NEW where, NEW sig, NEW files, NEW queue \in Seq(Id), NEW lock
    PROVE  LET x == Gets(p, where, sig, files, queue, lock)
           IN  /\ Shaped(x) /\ x.at = where /\ x.sig = sig /\ x.files = files /\ x.queue = queue
               /\ x.lock = lock /\ x.calm = proc[p].calm
  BY DEF Gets, Shaped

LEMMA BeginsIs ==
    ASSUME NEW p, NEW where, NEW sig, NEW files
    PROVE  LET x == Begins(p, where, sig, files)
           IN  Shaped(x) /\ x.at = where /\ x.sig = sig /\ x.files = files /\ x.queue = <<>> /\ x.lock = "none"
  BY EmptySeq DEF Begins, Shaped

LEMMA IdleIs ==
    ASSUME NEW p
    PROVE  /\ Shaped(Idle) /\ Idle.at = "idle" /\ Idle.lock = "none"
           /\ Shaped(Finished(p)) /\ Finished(p).at = "idle" /\ Finished(p).lock = "none"
           /\ Shaped(Leaving(p)) /\ Leaving(p).at = "dispose" /\ Leaving(p).lock = proc[p].lock
<1>1. Shaped(Idle) /\ Idle.at = "idle" /\ Idle.lock = "none"
  BY EmptySeq DEF Idle, Shaped
<1> DEFINE rest == IF Refreshing(p) THEN Tail(proc[p].then) ELSE <<>>
<1>2. Finished(p) = [Idle EXCEPT !.then = rest]
  BY DEF Finished
<1> HIDE DEF rest
<1>3. Finished(p) = [at |-> "idle", sig |-> Missing, files |-> Missing, queue |-> <<>>, lock |-> "none",
                     calm |-> TRUE, then |-> rest]
  BY <1>2 DEF Idle
<1>5. Shaped(Finished(p)) /\ Finished(p).at = "idle" /\ Finished(p).lock = "none"
  BY <1>3, EmptySeq DEF Shaped
<1>4. Shaped(Leaving(p)) /\ Leaving(p).at = "dispose" /\ Leaving(p).lock = proc[p].lock
  BY EmptySeq DEF Leaving, Shaped
<1> QED
  BY <1>1, <1>4, <1>5

\* A process writes a file: the inputs have grown, and only if it is a layer the
\* layers are different.
LEMMA GrownOf ==
    ASSUME NEW s \in [File -> Seq(Line)], NEW f \in File, NEW v \in Seq(Line), NEW s2, s2 = [s EXCEPT ![f] = v],
           f \in {"imports", "board"} => Len(s[f]) < Len(v)
    PROVE  /\ s2 \in [File -> Seq(Line)] /\ s2[f] = v /\ \A g \in File \ {f} : s2[g] = s[g]
           /\ Grown(SheetOf(s), SheetOf(s2))
           /\ f \notin {"inbox", "session", "tasks"} => Alike(SheetOf(s), SheetOf(s2))
<1>1. s2 \in [File -> Seq(Line)] /\ s2[f] = v /\ \A g \in File \ {f} : s2[g] = s[g]
  OBVIOUS
<1>2. \A g \in Signed : g \in File /\ SheetOf(s)[g] = s[g] /\ SheetOf(s2)[g] = s2[g]
  BY SheetIs DEF SheetOf
<1>3. Grown(SheetOf(s), SheetOf(s2))
  BY <1>1, <1>2 DEF Grown, Signed
<1>4. f \notin {"inbox", "session", "tasks"} => Alike(SheetOf(s), SheetOf(s2))
  BY <1>1, <1>2 DEF Alike, Signed
<1> QED
  BY <1>1, <1>3, <1>4

LEMMA InitialLayers == LayersInit => LayersInv
<1> SUFFICES ASSUME LayersInit PROVE LayersInv
  OBVIOUS
<1>1. store \in [File -> Seq(Line)]
  BY EmptySeq DEF LayersInit
<1>2. art = [n \in Artifact |-> art[n]] /\ context = [c \in Context |-> context[c]] /\ proc = [p \in Process |-> proc[p]]
  BY DEF LayersInit
<1>3. ASSUME NEW p \in Process
      PROVE  Shaped(proc[p]) /\ Runs(proc[p].at, proc[p].sig, proc[p].files, proc[p].calm, store, art, context)
  BY IdleIs, IdleRuns DEF LayersInit
<1>4. Told(art, store)
  BY DEF Told, LayersInit, Artifact, Script
<1> QED
  BY <1>1, <1>2, <1>3, <1>4 DEF LayersInv

LEMMA ArriveKeeps ==
    ASSUME LayersInv, NEW id \in Id, Arrive(id)
    PROVE  LayersInv'
<1> DEFINE home == HomeOf(id)
           longer == Append(store[home], Plain(id))
<1>1. /\ home \in File /\ store[home] \in Seq(Line) /\ Plain(id) \in Line /\ store \in [File -> Seq(Line)]
      /\ home \notin {"inbox", "session", "tasks"}
  BY DEF LayersInv, HomeOf, File, Input, Plain, Line
<1>2. store' = [store EXCEPT ![home] = longer]
  BY DEF Arrive
<1> HIDE DEF home
<1>3. longer \in Seq(Line) /\ Len(store[home]) < Len(longer)
  BY <1>1
<1> HIDE DEF longer
<1>4. store' \in [File -> Seq(Line)] /\ Grown(SheetOf(store), SheetOf(store')) /\ Alike(SheetOf(store), SheetOf(store'))
  BY <1>1, <1>2, <1>3, GrownOf
<1>0. Told(art, store)
  BY DEF LayersInv
<1>9. Told(art, store')
  BY <1>0, <1>1, <1>4, StillTold
<1>5. Told(art', store')
  BY <1>9 DEF Arrive
<1>6. /\ proc' = [q \in Process |-> proc'[q]] /\ UNCHANGED <<art, context>>
      /\ \A q \in Process : proc'[q] = Stirred(q, FALSE)
  BY DEF Arrive
<1>7. ASSUME NEW q \in Process
      PROVE  /\ Shaped(proc'[q])
             /\ Runs(proc'[q].at, proc'[q].sig, proc'[q].files, proc'[q].calm, store', art', context')
  BY <1>4, <1>6, OthersRun
<1> QED
  BY <1>4, <1>5, <1>6, <1>7 DEF LayersInv
\* The fields of a process that goes on.
LEMMA TurnsIs ==
    ASSUME LayersInv, NEW p \in Process, NEW where
    PROVE  LET x == Turns(p, where)
           IN  /\ Shaped(x) /\ x.at = where /\ x.sig = proc[p].sig /\ x.files = proc[p].files
               /\ x.queue = proc[p].queue /\ x.lock = proc[p].lock /\ x.calm = proc[p].calm
<1>1. proc[p].queue \in Seq(Id)
  BY DEF LayersInv, Shaped
<1> QED
  BY <1>1, GetsIs DEF Turns

LEMMA BuildReadKeeps ==
    ASSUME LayersInv, NEW p \in Process, BuildRead(p)
    PROVE  LayersInv'
<1> DEFINE files == [inbox |-> InboxOf(store.notes, store.dream), session |-> store.imports,
              projects |-> store.projects, tasks |-> store.board, imports |-> store.imports, board |-> store.board]
           x == Begins(p, "inbox", Missing, files)
<1>1. store \in [File -> Seq(Line)] /\ {"notes", "dream", "imports", "projects", "board"} \subseteq File
  BY DEF LayersInv, File, Input
<1>2. /\ files.inbox \in Seq(Line) /\ files.tasks \in Seq(Line)
      /\ files.session \in Seq(Line) /\ files.projects \in Seq(Line)
  BY <1>1, InboxTyped
<1>3. Go(p, x) /\ UNCHANGED <<store, art, context>>
  BY DEF BuildRead
<1> HIDE DEF files
<1>4. Shaped(x) /\ x.at = "inbox" /\ x.files = files
  BY BeginsIs
<1> HIDE DEF x
<1>5. Runs(x.at, x.sig, x.files, x.calm, store, art, context)
  BY <1>2, <1>4 DEF Runs, BuildRuns, ReportRuns
<1> QED
  BY <1>3, <1>4, <1>5, QuietKeeps

\* A rebuild puts something else into a layer.
LEMMA RewriteKeeps ==
    ASSUME LayersInv, NEW p \in Process, NEW f \in {"inbox", "session", "tasks"}, NEW v \in Seq(Line),
           NEW next, GoRewriting(p, Turns(p, next)), store' = [store EXCEPT ![f] = v], UNCHANGED <<art, context>>,
           BuildRuns(next, proc[p].files, proc[p].calm, store', art, context),
           next \notin {"pack", "analyse", "read", "write", "append"}
    PROVE  LayersInv'
<1> DEFINE x == Turns(p, next)
<1>1. store \in [File -> Seq(Line)] /\ f \in File /\ f \notin {"imports", "board"}
  BY DEF LayersInv, File, Input
<1>2. store' \in [File -> Seq(Line)] /\ Grown(SheetOf(store), SheetOf(store'))
  BY <1>1, GrownOf
<1>3. Told(art, store)
  BY DEF LayersInv
<1>4. Told(art, store')
  BY <1>1, <1>2, <1>3, StillTold
<1>5. Told(art', store') /\ art' = [n \in Artifact |-> art'[n]] /\ context' = [c \in Context |-> context'[c]]
  BY <1>4 DEF LayersInv
<1>6. Shaped(x) /\ x.at = next /\ x.sig = proc[p].sig /\ x.files = proc[p].files /\ x.calm = proc[p].calm
  BY TurnsIs
<1>7. ReportRuns(next, proc[p].sig, proc[p].files, proc[p].calm, store')
  BY DEF ReportRuns
<1>8. GoRewriting(p, x)
  OBVIOUS
<1> HIDE DEF x
<1>9. Runs(x.at, x.sig, x.files, x.calm, store', art', context')
  BY <1>6, <1>7 DEF Runs
<1>10. IF TRUE THEN GoRewriting(p, x) ELSE GoWriting(p, x)
  BY <1>8
<1> QED
  BY <1>2, <1>5, <1>6, <1>9, <1>10, WritingKeeps

LEMMA TruncateKeeps ==
    ASSUME LayersInv, NEW p \in Process, NEW f \in {"inbox", "session", "tasks"}, NEW next, Truncate(p, f, next),
           <<f, next>> \in {<<"inbox", "fill inbox">>, <<"session", "fill session">>, <<"tasks", "fill tasks">>}
    PROVE  LayersInv'
<1> DEFINE y == proc[p]
<1>1. /\ BuildRuns(f, y.files, y.calm, store, art, context) /\ store \in [File -> Seq(Line)]
      /\ {"inbox", "session", "tasks"} \subseteq File
  BY DEF LayersInv, Truncate, Doing, Runs, File
<1>2. GoRewriting(p, Turns(p, next)) /\ store' = [store EXCEPT ![f] = <<>>] /\ UNCHANGED <<art, context>>
  BY DEF Truncate
<1>3. store'[f] = <<>> /\ \A g \in File \ {f} : store'[g] = store[g]
  BY <1>1, <1>2
<1>4. BuildRuns(next, y.files, y.calm, store', art, context)
  BY <1>1, <1>3 DEF BuildRuns
<1>5. <<>> \in Seq(Line) /\ next \notin {"pack", "analyse", "read", "write", "append"}
  BY EmptySeq
<1> QED
  BY <1>2, <1>4, <1>5, RewriteKeeps

LEMMA FillKeeps ==
    ASSUME LayersInv, NEW p \in Process, NEW f \in {"inbox", "session", "tasks"}, NEW here, NEW next,
           FillFile(p, f, here, next),
           <<f, here, next>> \in {<<"inbox", "fill inbox", "merge">>, <<"session", "fill session", "tasks">>,
                                 <<"tasks", "fill tasks", "layers">>}
    PROVE  LayersInv'
<1> DEFINE y == proc[p]
           v == Over(y.files[f], store[f])
<1>1. /\ BuildRuns(here, y.files, y.calm, store, art, context) /\ store \in [File -> Seq(Line)]
      /\ {"inbox", "session", "tasks"} \subseteq File
  BY DEF LayersInv, FillFile, Doing, Runs, File
<1>2. GoRewriting(p, Turns(p, next)) /\ store' = [store EXCEPT ![f] = v] /\ UNCHANGED <<art, context>>
  BY DEF FillFile
<1>3. y.files[f] \in Seq(Line) /\ store[f] \in Seq(Line) /\ (y.calm => store[f] = <<>>)
  BY <1>1 DEF BuildRuns
<1>4. v \in Seq(Line) /\ (y.calm => v = y.files[f])
  BY <1>3, OverIs
<1> HIDE DEF v
<1>5. store'[f] = v /\ \A g \in File \ {f} : store'[g] = store[g]
  BY <1>1, <1>2
<1>6. BuildRuns(next, y.files, y.calm, store', art, context)
  <2>1. CASE f = "inbox"
    BY <1>1, <1>4, <1>5, <2>1 DEF BuildRuns
  <2>2. CASE f = "session"
    BY <1>1, <1>4, <1>5, <2>2 DEF BuildRuns
  <2>3. CASE f = "tasks"
    <3>1. y.calm => y.files = Shown(store')
      BY <1>1, <1>4, <1>5, <2>3 DEF BuildRuns, Shown
    <3> QED
      BY <2>3, <3>1 DEF BuildRuns
  <2> QED
    BY <2>1, <2>2, <2>3
<1>7. next \notin {"pack", "analyse", "read", "write", "append"}
  OBVIOUS
<1> QED
  BY <1>2, <1>4, <1>6, <1>7, RewriteKeeps

LEMMA BuildWriteKeeps ==
    ASSUME LayersInv, NEW p \in Process, BuildInbox(p) \/ BuildSession(p) \/ BuildTasks(p)
    PROVE  LayersInv'
  BY TruncateKeeps, FillKeeps DEF BuildInbox, BuildSession, BuildTasks

LEMMA BuildMergeKeeps ==
    ASSUME LayersInv, NEW p \in Process, BuildMerge(p)
    PROVE  LayersInv'
<1> DEFINE y == proc[p]
           merged == Merged(store.session, y.files)
           files == [inbox |-> y.files.inbox, session |-> merged, tasks |-> y.files.tasks]
           x == Gets(p, "session", Missing, files, <<>>, "none")
<1>1. Runs("merge", y.sig, y.files, y.calm, store, art, context)
  BY DEF LayersInv, BuildMerge, Doing
<1>2. /\ y.files.inbox \in Seq(Line) /\ y.files.tasks \in Seq(Line)
      /\ y.files.session \in Seq(Line) /\ y.files.projects \in Seq(Line)
      /\ y.calm => y.files.inbox = store.inbox
  BY <1>1 DEF Runs, BuildRuns
<1>3. store.session \in Seq(Line)
  BY DEF LayersInv, File
<1>4. merged \in Seq(Line)
  BY <1>2, <1>3, MergedIs
<1>5. Go(p, x) /\ UNCHANGED <<store, art, context>>
  BY DEF BuildMerge
<1> HIDE DEF merged
<1>6. /\ files.session \in Seq(Line) /\ files.tasks \in Seq(Line) /\ files.inbox = y.files.inbox
      /\ files = [inbox |-> files.inbox, session |-> files.session, tasks |-> files.tasks]
  BY <1>2, <1>4
<1> HIDE DEF files
<1>7. Shaped(x) /\ x.at = "session" /\ x.files = files /\ x.calm = y.calm
  <2>1. <<>> \in Seq(Id)
    BY EmptySeq
  <2> QED
    BY <2>1 DEF Gets, Shaped
<1> HIDE DEF x
<1>8. Runs(x.at, x.sig, x.files, x.calm, store, art, context)
  BY <1>2, <1>6, <1>7 DEF Runs, BuildRuns, ReportRuns
<1> QED
  BY <1>5, <1>7, <1>8, QuietKeeps
\* A process writes an artifact, or the context, and the files stay as they are.
LEMMA PublishKeeps ==
    ASSUME LayersInv, NEW p \in Process, NEW x, GoWriting(p, x), UNCHANGED store,
           art' = [n \in Artifact |-> art'[n]], context' = [c \in Context |-> context'[c]],
           Told(art', store),
           Shaped(x), Runs(x.at, x.sig, x.files, x.calm, store, art', context')
    PROVE  LayersInv'
<1>1. store' \in [File -> Seq(Line)] /\ Grown(SheetOf(store), SheetOf(store')) /\ Alike(SheetOf(store), SheetOf(store'))
  BY DEF LayersInv, Grown, Alike
<1>2. Told(art', store') /\ Runs(x.at, x.sig, x.files, x.calm, store', art', context')
  OBVIOUS
<1>3. IF FALSE THEN GoRewriting(p, x) ELSE GoWriting(p, x)
  OBVIOUS
<1> QED
  BY <1>1, <1>2, <1>3, WritingKeeps

\* A calm build or pack signs what it shows.
LEMMA ToldOne ==
    ASSUME NEW a, NEW s, NEW n \in Artifact, NEW v, NEW a2, a = [m \in Artifact |-> a[m]],
           Told(a, s), a2 = [a EXCEPT ![n] = v],
           n \in {"layers", "handoff"} => (v.calm => v.body = Generated(n, v.sig)),
           n \in {"dream", "hygiene"} => (v.calm => Tells(v, n, s))
    PROVE  Told(a2, s) /\ a2 = [m \in Artifact |-> a2[m]] /\ a2[n] = v /\ \A m \in Artifact \ {n} : a2[m] = a[m]
<1>1. a2 = [m \in Artifact |-> IF m = n THEN v ELSE a[m]]
  OBVIOUS
<1>2. a2 = [m \in Artifact |-> a2[m]] /\ a2[n] = v /\ \A m \in Artifact \ {n} : a2[m] = a[m]
  BY <1>1
<1>3. {"layers", "handoff", "dream", "hygiene"} \subseteq Artifact
  BY DEF Artifact, Script
<1>4. ASSUME NEW m \in {"layers", "handoff"}, a2[m] # Missing, a2[m].calm
      PROVE  a2[m].body = Generated(m, a2[m].sig)
  BY <1>2, <1>3, <1>4 DEF Told
<1>5. ASSUME NEW m \in {"dream", "hygiene"}, a2[m] # Missing, a2[m].calm
      PROVE  Tells(a2[m], m, s)
  BY <1>2, <1>3, <1>5 DEF Told
<1> QED
  BY <1>2, <1>4, <1>5 DEF Told

LEMMA BuildLayersKeeps ==
    ASSUME LayersInv, NEW p \in Process, BuildLayers(p)
    PROVE  LayersInv'
<1> DEFINE y == proc[p]
           v == [sig |-> Signature, calm |-> y.calm, body |-> LayerSummary(y.files)]
           x == Turns(p, "body")
<1>1. Runs("layers", y.sig, y.files, y.calm, store, art, context)
  BY DEF LayersInv, BuildLayers, Doing
<1>2. art' = [art EXCEPT !["layers"] = v] /\ GoWriting(p, x) /\ UNCHANGED <<store, context>>
  BY DEF BuildLayers
<1>3. y.calm => y.files = Shown(store)
  BY <1>1 DEF Runs, BuildRuns
<1>4. Signature = SheetOf(store) /\ LayersOf(SheetOf(store)) = Shown(store)
  BY SheetIs DEF SheetOf, LayersOf, Shown, Signed
<1>5. v.sig = SheetOf(store) /\ v.body = LayerSummary(y.files) /\ v.calm = y.calm
  BY <1>4
<1>6. v.calm => v.body = Generated("layers", v.sig)
  BY <1>3, <1>4, <1>5 DEF Generated
<1> HIDE DEF v
<1>7. "layers" \in Artifact /\ art = [n \in Artifact |-> art[n]] /\ context = [c \in Context |-> context[c]]
      /\ Told(art, store)
  BY DEF LayersInv, Artifact, Script
<1>8. Told(art', store) /\ art' = [n \in Artifact |-> art'[n]] /\ art'["layers"] = v
  BY <1>2, <1>6, <1>7, ToldOne
<1>9. Shaped(x) /\ x.at = "body" /\ x.sig = y.sig /\ x.files = y.files /\ x.calm = y.calm
  BY TurnsIs
<1>10. GoWriting(p, x)
  BY <1>2
<1> HIDE DEF x
<1>11. Runs(x.at, x.sig, x.files, x.calm, store, art', context')
  BY <1>3, <1>5, <1>8, <1>9 DEF Runs, BuildRuns, ReportRuns
<1> QED
  BY <1>2, <1>7, <1>8, <1>9, <1>10, <1>11, PublishKeeps

LEMMA BuildContextKeeps ==
    ASSUME LayersInv, NEW p \in Process, BuildBody(p) \/ BuildMeta(p) \/ BuildNav(p)
    PROVE  LayersInv'
<1> DEFINE y == proc[p]
<1>0. Runs(y.at, y.sig, y.files, y.calm, store, art, context)
  BY DEF LayersInv
<1>1. UNCHANGED <<store, art>>
  BY DEF BuildBody, BuildMeta, BuildNav, BuildContext
<1>2. art' = [n \in Artifact |-> art'[n]] /\ Told(art', store)
  BY <1>1 DEF LayersInv
<1>3. context = [c \in Context |-> context[c]] /\ {"body", "meta", "nav"} \subseteq Context
  BY DEF LayersInv, Context
<1>4. CASE BuildBody(p)
  <2> DEFINE x == Turns(p, "meta")
  <2>1. y.at = "body" /\ context' = [context EXCEPT !["body"] = Body(y.files)] /\ GoWriting(p, x)
    BY <1>4 DEF BuildBody, BuildContext, Doing
  <2>2. context' = [c \in Context |-> context'[c]] /\ context'["body"] = Body(y.files)
    BY <1>3, <2>1
  <2>3. Shaped(x) /\ x.at = "meta" /\ x.sig = y.sig /\ x.files = y.files /\ x.calm = y.calm
    BY TurnsIs
  <2> HIDE DEF x
  <2>4. Runs(x.at, x.sig, x.files, x.calm, store, art', context')
    BY <1>0, <1>1, <2>1, <2>2, <2>3 DEF Runs, BuildRuns, ReportRuns
  <2> QED
    BY <1>1, <1>2, <2>1, <2>2, <2>3, <2>4, PublishKeeps
<1>5. CASE BuildMeta(p)
  <2> DEFINE x == Turns(p, "nav")
  <2>1. y.at = "meta" /\ context' = [context EXCEPT !["meta"] = Meta(y.files)] /\ GoWriting(p, x)
    BY <1>5 DEF BuildMeta, BuildContext, Doing
  <2>2. /\ context' = [c \in Context |-> context'[c]] /\ context'["meta"] = Meta(y.files)
        /\ context'["body"] = context["body"]
    BY <1>3, <2>1
  <2>3. Shaped(x) /\ x.at = "nav" /\ x.sig = y.sig /\ x.files = y.files /\ x.calm = y.calm
    BY TurnsIs
  <2> HIDE DEF x
  <2>4. Runs(x.at, x.sig, x.files, x.calm, store, art', context')
    BY <1>0, <1>1, <2>1, <2>2, <2>3 DEF Runs, BuildRuns, ReportRuns
  <2> QED
    BY <1>1, <1>2, <2>1, <2>2, <2>3, <2>4, PublishKeeps
<1>6. CASE BuildNav(p)
  <2> DEFINE x == Finished(p)
  <2>1. context' = [context EXCEPT !["nav"] = Navigation(y.files)] /\ GoWriting(p, x)
    BY <1>6 DEF BuildNav, BuildContext
  <2>2. context' = [c \in Context |-> context'[c]]
    BY <1>3, <2>1
  <2>3. Shaped(x) /\ x.at = "idle"
    BY IdleIs
  <2> HIDE DEF x
  <2>4. Runs(x.at, x.sig, x.files, x.calm, store, art', context')
    BY <2>3, IdleRuns
  <2> QED
    BY <1>1, <1>2, <2>1, <2>2, <2>3, <2>4, PublishKeeps
<1> QED
  BY <1>4, <1>5, <1>6

LEMMA BuildKeeps ==
    ASSUME LayersInv, NEW p \in Process, Build(p)
    PROVE  LayersInv'
  BY BuildReadKeeps, BuildWriteKeeps, BuildMergeKeeps, BuildLayersKeeps, BuildContextKeeps DEF Build
\* A script that has written its artifact ends.
LEMMA ReportKeeps ==
    ASSUME LayersInv, NEW p \in Process, NEW n \in {"handoff", "dream", "hygiene"}, NEW v, NEW x, GoWriting(p, x),
           art' = [art EXCEPT ![n] = v], UNCHANGED <<store, context>>, Shaped(x), x.at \in {"idle", "dispose"},
           n = "handoff" => (v.calm => v.body = Generated(n, v.sig)),
           n # "handoff" => (v.calm => Tells(v, n, store))
    PROVE  LayersInv'
<1>1. n \in Artifact /\ art = [m \in Artifact |-> art[m]] /\ context = [c \in Context |-> context[c]] /\ Told(art, store)
  BY DEF LayersInv, Artifact, Script
<1>2. /\ n \in {"layers", "handoff"} => (v.calm => v.body = Generated(n, v.sig))
      /\ n \in {"dream", "hygiene"} => (v.calm => Tells(v, n, store))
  OBVIOUS
<1>3. Told(art', store) /\ art' = [m \in Artifact |-> art'[m]]
  BY <1>1, <1>2, ToldOne
<1>4. Runs(x.at, x.sig, x.files, x.calm, store, art', context')
  BY IdleRuns
<1>5. context' = [c \in Context |-> context'[c]]
  BY <1>1
<1> QED
  BY <1>3, <1>4, <1>5, PublishKeeps

LEMMA ReportsKeep ==
    ASSUME LayersInv, NEW p \in Process, HandoffRead(p) \/ HandoffWrite(p) \/ HygieneSign(p) \/ HygieneWrite(p)
    PROVE  LayersInv'
<1> DEFINE y == proc[p]
<1>0. /\ Runs(y.at, y.sig, y.files, y.calm, store, art, context)
      /\ Signature = SheetOf(store) /\ Contents = SheetOf(store) /\ SheetOf(store) \in Sheets
  BY SheetIs DEF LayersInv
<1>1. CASE HandoffRead(p)
  <2> DEFINE x == Begins(p, "pack", Missing, Contents)
  <2>1. Go(p, x) /\ UNCHANGED <<store, art, context>>
    BY <1>1 DEF HandoffRead
  <2>2. Shaped(x) /\ x.at = "pack" /\ x.files = Contents
    BY BeginsIs
  <2> HIDE DEF x
  <2>3. Runs(x.at, x.sig, x.files, x.calm, store, art, context)
    BY <1>0, <2>2 DEF Runs, BuildRuns, ReportRuns
  <2> QED
    BY <2>1, <2>2, <2>3, QuietKeeps
<1>2. CASE HandoffWrite(p)
  <2> DEFINE x == Finished(p)
             v == [sig |-> Signature, calm |-> y.calm, body |-> Generated("handoff", y.files)]
  <2>1. GoWriting(p, x) /\ art' = [art EXCEPT !["handoff"] = v] /\ UNCHANGED <<store, context>> /\ y.at = "pack"
    BY <1>2 DEF HandoffWrite, Doing
  <2>2. v.calm => v.body = Generated("handoff", v.sig)
    BY <1>0, <2>1 DEF Runs, ReportRuns
  <2>3. Shaped(x) /\ x.at = "idle"
    BY IdleIs
  <2> HIDE DEF x, v
  <2>4. "handoff" = "handoff" => (v.calm => v.body = Generated("handoff", v.sig))
    BY <2>2
  <2> QED
    BY <2>1, <2>3, <2>4, ReportKeeps
<1>3. CASE HygieneSign(p)
  <2> DEFINE x == Begins(p, "analyse", Signature, Missing)
  <2>1. Go(p, x) /\ UNCHANGED <<store, art, context>>
    BY <1>3 DEF HygieneSign
  <2>2. Shaped(x) /\ x.at = "analyse" /\ x.sig = Signature
    BY BeginsIs
  <2> HIDE DEF x
  <2>3. Alike(Signature, SheetOf(store)) /\ Grown(Signature, SheetOf(store))
    BY <1>0 DEF Grown, Alike
  <2>4. Runs(x.at, x.sig, x.files, x.calm, store, art, context)
    BY <1>0, <2>2, <2>3 DEF Runs, BuildRuns, ReportRuns
  <2> QED
    BY <2>1, <2>2, <2>4, QuietKeeps
<1>4. CASE HygieneWrite(p)
  <2> DEFINE x == Finished(p)
             v == [sig |-> y.sig, calm |-> y.calm, body |-> Generated("hygiene", Contents)]
  <2>1. GoWriting(p, x) /\ art' = [art EXCEPT !["hygiene"] = v] /\ UNCHANGED <<store, context>> /\ y.at = "analyse"
    BY <1>4 DEF HygieneWrite, Doing
  <2>2. y.calm => y.sig \in Sheets /\ Alike(y.sig, SheetOf(store)) /\ Grown(y.sig, SheetOf(store))
    BY <1>0, <2>1 DEF Runs, ReportRuns
  <2>3. v.sig = y.sig /\ v.calm = y.calm /\ v.body = Generated("hygiene", SheetOf(store)) /\ Grown(SheetOf(store), SheetOf(store))
    BY <1>0 DEF Grown
  <2>4. Shaped(x) /\ x.at = "idle"
    BY IdleIs
  <2> HIDE DEF x, v
  <2>5. v.calm => Tells(v, "hygiene", store)
    BY <1>0, <2>2, <2>3 DEF Tells
  <2> QED
    BY <2>1, <2>4, <2>5, ReportKeeps
<1> QED
  BY <1>1, <1>2, <1>3, <1>4

\* Somebody's lock file goes away, and p is somewhere it has read nothing.
LEMMA UnlinkKeeps ==
    ASSUME LayersInv, NEW p \in Process, NEW x, proc' = [Unlinking EXCEPT ![p] = x],
           UNCHANGED <<store, art, context>>, Shaped(x), x.at \in {"idle", "sign"}
    PROVE  LayersInv'
<1>1. /\ proc' = [q \in Process |-> proc'[q]] /\ proc'[p] = x
      /\ \A q \in Process \ {p} : proc'[q] = IF q \in Held THEN [proc[q] EXCEPT !.lock = "unlinked"] ELSE proc[q]
  BY DEF Unlinking
<1>2. ASSUME NEW q \in Process
      PROVE  /\ Shaped(proc'[q])
             /\ Runs(proc'[q].at, proc'[q].sig, proc'[q].files, proc'[q].calm, store, art, context)
  <2> DEFINE y == proc[q]
  <2>0. Shaped(y) /\ Runs(y.at, y.sig, y.files, y.calm, store, art, context)
    BY DEF LayersInv
  <2>1. CASE q = p
    BY <1>1, <2>1, IdleRuns
  <2>2. CASE q # p /\ q \notin Held
    BY <1>1, <2>0, <2>2
  <2>3. CASE q # p /\ q \in Held
    <3>1. proc'[q] = [y EXCEPT !.lock = "unlinked"]
      BY <1>1, <2>3
    <3>2. proc'[q] = [at |-> y.at, sig |-> y.sig, files |-> y.files, queue |-> y.queue, lock |-> "unlinked",
                      calm |-> y.calm, then |-> y.then] /\ y.queue \in Seq(Id)
      BY <2>0, <3>1 DEF Shaped
    <3>3. Shaped(proc'[q])
      BY <3>2 DEF Shaped
    <3>4. proc'[q].at = y.at /\ proc'[q].sig = y.sig /\ proc'[q].files = y.files /\ proc'[q].calm = y.calm
      BY <3>2
    <3> QED
      BY <2>0, <3>3, <3>4
  <2> QED
    BY <2>1, <2>2, <2>3
<1> QED
  BY <1>1, <1>2 DEF LayersInv

\* A process goes, without writing, to where it has read nothing.
LEMMA EmptyHandedKeeps ==
    ASSUME LayersInv, NEW p \in Process, NEW x, Go(p, x), UNCHANGED <<store, art, context>>,
           Shaped(x), x.at \in {"idle", "sign", "busy", "break", "dispose", "delete"}
    PROVE  LayersInv'
<1>1. Runs(x.at, x.sig, x.files, x.calm, store, art, context)
  BY IdleRuns
<1> QED
  BY <1>1, QuietKeeps
\* What a dream has queued are ids, a different one in each place.
LEMMA QueueIs ==
    ASSUME NEW queued \in SUBSET Candidates, store \in [File -> Seq(Line)]
    PROVE  /\ SetToSeq({r.id : r \in queued}) \in Seq(Id)
           /\ \A i \in DOMAIN SetToSeq({r.id : r \in queued}) : \E q \in queued : SetToSeq({r.id : r \in queued})[i] = q.id
           /\ \A i, j \in DOMAIN SetToSeq({r.id : r \in queued}) :
                 SetToSeq({r.id : r \in queued})[i] = SetToSeq({r.id : r \in queued})[j] => i = j
<1> DEFINE S == {r.id : r \in queued}
           s == SetToSeq(S)
<1>1. \A f \in File : ToSet(store[f]) \subseteq Line
  BY DEF ToSet
<1>2. {"session", "tasks", "board"} \subseteq File
  BY DEF File, Input
<1>3. WithTasks(Contents).tasks = store.tasks \/ WithTasks(Contents).tasks = store.board
  <2>1. Contents = [f \in Signed |-> store[f]]
    BY SheetIs DEF SheetOf
  <2>2. Contents.tasks = store.tasks /\ Contents.board = store.board /\ [Contents EXCEPT !.tasks = store.board].tasks = store.board
    BY <2>1 DEF Signed
  <2> QED
    BY <2>2 DEF WithTasks
<1>4. Candidates \subseteq Line
  BY <1>1, <1>2, <1>3 DEF Candidates
<1>5. S \in SUBSET Id
  BY <1>4 DEF Line
<1>6. IsFiniteSet(S)
  BY <1>5, LayersAssumption, FS_Subset
<1> HIDE DEF S
<1>7. Cardinality(S) \in Nat /\ s \in [1..Cardinality(S) -> S] /\ s \in Seq(S) /\ \A i, j \in 1..Cardinality(S) : s[i] = s[j] => i = j
  BY <1>6, SetToSeqIs
<1>8. s \in Seq(Id) /\ DOMAIN s = 1..Cardinality(S)
  BY <1>5, <1>7
<1>9. \A i \in DOMAIN s : s[i] \in S
  BY <1>7, <1>8
<1>10. \A i \in DOMAIN s : \E r \in queued : s[i] = r.id
  BY <1>9 DEF S
<1> QED
  BY <1>7, <1>8, <1>10 DEF S

LEMMA DreamStartKeeps ==
    ASSUME LayersInv, NEW p \in Process,
           DreamOpen(p) \/ DreamBusy(p) \/ DreamBreak(p) \/ DreamSign(p) \/ DreamDispose(p) \/ DreamDelete(p)
    PROVE  LayersInv'
<1>0. Shaped(Idle) /\ Idle.at = "idle" /\ <<>> \in Seq(Id)
  BY IdleIs, EmptySeq
<1>1. CASE DreamOpen(p)
  <2>1. UNCHANGED <<store, art, context>>
    BY <1>1 DEF DreamOpen
  <2>2. PICK x : /\ Go(p, x)
                 /\ \/ x = [Begins(p, "sign", Missing, Missing) EXCEPT !.lock = "held"]
                    \/ x = Begins(p, "busy", Missing, Missing)
    BY <1>1 DEF DreamOpen
  <2> DEFINE then == proc[p].then
  <2>3. \E at \in {"sign", "busy"} : \E lock :
           x = [at |-> at, sig |-> Missing, files |-> Missing, queue |-> <<>>, lock |-> lock, calm |-> TRUE, then |-> then]
    BY <2>2 DEF Begins
  <2> HIDE DEF then
  <2>4. Shaped(x) /\ x.at \in {"sign", "busy"}
    BY <1>0, <2>3 DEF Shaped
  <2> QED
    BY <2>1, <2>2, <2>4, EmptyHandedKeeps
<1>2. CASE DreamBusy(p)
  <2>1. UNCHANGED <<store, art, context>>
    BY <1>2 DEF DreamBusy
  <2>2. CASE Go(p, Idle)
    BY <1>0, <2>1, <2>2, EmptyHandedKeeps
  <2>3. CASE Go(p, Turns(p, "break"))
    <3> DEFINE x == Turns(p, "break")
    <3>1. Shaped(x) /\ x.at = "break" /\ Go(p, x)
      BY <2>3, TurnsIs
    <3> HIDE DEF x
    <3> QED
      BY <2>1, <3>1, EmptyHandedKeeps
  <2> QED
    BY <1>2, <2>2, <2>3 DEF DreamBusy
<1>3. CASE DreamBreak(p)
  <2>1. UNCHANGED <<store, art, context>>
    BY <1>3 DEF DreamBreak
  <2>2. CASE Go(p, Idle)
    BY <1>0, <2>1, <2>2, EmptyHandedKeeps
  <2>3. CASE proc' = [Unlinking EXCEPT ![p] = Gets(p, "sign", Missing, Missing, <<>>, "held")]
    <3> DEFINE x == Gets(p, "sign", Missing, Missing, <<>>, "held")
    <3>1. Shaped(x) /\ x.at = "sign" /\ proc' = [Unlinking EXCEPT ![p] = x]
      BY <1>0, <2>3 DEF Gets, Shaped
    <3> HIDE DEF x
    <3> QED
      BY <2>1, <3>1, UnlinkKeeps
  <2> QED
    BY <1>3, <2>2, <2>3 DEF DreamBreak
<1>4. CASE DreamSign(p)
  <2>1. UNCHANGED <<store, art, context>>
    BY <1>4 DEF DreamSign
  <2>2. CASE Go(p, Leaving(p))
    <3> DEFINE x == Leaving(p)
    <3>1. Shaped(x) /\ x.at = "dispose" /\ Go(p, x)
      BY <2>2, IdleIs
    <3> HIDE DEF x
    <3> QED
      BY <2>1, <3>1, EmptyHandedKeeps
  <2>3. CASE Go(p, Gets(p, "read", Signature, Missing, <<>>, proc[p].lock))
    <3> DEFINE x == Gets(p, "read", Signature, Missing, <<>>, proc[p].lock)
    <3>1. Shaped(x) /\ x.at = "read" /\ x.sig = Signature /\ Go(p, x)
      BY <1>0, <2>3 DEF Gets, Shaped
    <3> HIDE DEF x
    <3>2. Signature \in Sheets /\ Alike(Signature, SheetOf(store)) /\ Grown(Signature, SheetOf(store))
      BY SheetIs DEF LayersInv, Grown, Alike
    <3>3. Runs(x.at, x.sig, x.files, x.calm, store, art, context)
      BY <3>1, <3>2 DEF Runs, BuildRuns, ReportRuns
    <3> QED
      BY <2>1, <3>1, <3>3, QuietKeeps
  <2> QED
    BY <1>4, <2>2, <2>3 DEF DreamSign
<1>5. CASE DreamDispose(p)
  <2> DEFINE x == [Idle EXCEPT !.at = "delete"]
  <2>1. Go(p, x) /\ UNCHANGED <<store, art, context>>
    BY <1>5 DEF DreamDispose
  <2>4. x = [Idle EXCEPT !.at = "delete"]
    OBVIOUS
  <2> HIDE DEF x
  <2>2. x = [at |-> "delete", sig |-> Missing, files |-> Missing, queue |-> <<>>, lock |-> "none", calm |-> TRUE,
             then |-> <<>>]
    BY <2>4 DEF Idle
  <2>3. Shaped(x) /\ x.at = "delete"
    BY <2>2, EmptySeq DEF Shaped
  <2> QED
    BY <2>1, <2>3, EmptyHandedKeeps
<1>6. CASE DreamDelete(p)
  <2>1. UNCHANGED <<store, art, context>>
    BY <1>6 DEF DreamDelete
  <2>2. CASE Go(p, Idle)
    BY <1>0, <2>1, <2>2, EmptyHandedKeeps
  <2>3. CASE proc' = [Unlinking EXCEPT ![p] = Idle]
    BY <1>0, <2>1, <2>3, UnlinkKeeps
  <2> QED
    BY <1>6, <2>2, <2>3 DEF DreamDelete
<1> QED
  BY <1>1, <1>2, <1>3, <1>4, <1>5, <1>6

LEMMA DreamReadKeeps ==
    ASSUME LayersInv, NEW p \in Process, DreamRead(p)
    PROVE  LayersInv'
<1> DEFINE y == proc[p]
<1>1. /\ Runs("read", y.sig, y.files, y.calm, store, art, context)
      /\ UNCHANGED <<store, art, context>> /\ store \in [File -> Seq(Line)]
  BY DEF LayersInv, DreamRead, Doing
<1>2. CASE Go(p, Leaving(p))
  <2> DEFINE x == Leaving(p)
  <2>1. Shaped(x) /\ x.at = "dispose" /\ Go(p, x)
    BY <1>2, IdleIs
  <2> HIDE DEF x
  <2> QED
    BY <1>1, <2>1, EmptyHandedKeeps
<1>3. CASE ~Go(p, Leaving(p))
  <2>1. PICK order \in Orders : \E queued \in Selections(order), writeback \in BOOLEAN :
           Go(p, Gets(p, "write", y.sig, Contents, IF writeback THEN SetToSeq({r.id : r \in queued}) ELSE <<>>, y.lock))
    BY <1>3 DEF DreamRead
  <2>0. PICK queued \in Selections(order), writeback \in BOOLEAN :
           Go(p, Gets(p, "write", y.sig, Contents, IF writeback THEN SetToSeq({r.id : r \in queued}) ELSE <<>>, y.lock))
    BY <2>1
  <2> DEFINE queue == IF writeback THEN SetToSeq({r.id : r \in queued}) ELSE <<>>
             x == Gets(p, "write", y.sig, Contents, queue, y.lock)
  <2>2. queued \in SUBSET Candidates
    BY DEF Selections, Queueable, Fresh, Outdated
  <2>3. SetToSeq({r.id : r \in queued}) \in Seq(Id)
    BY <1>1, <2>2, QueueIs
  <2>4. queue \in Seq(Id)
    BY <2>3, EmptySeq
  <2>5. Go(p, x)
    BY <2>0
  <2> HIDE DEF queue
  <2>6. Shaped(x) /\ x.at = "write" /\ x.sig = y.sig /\ x.files = Contents /\ x.calm = y.calm
    BY <2>4 DEF Gets, Shaped
  <2> HIDE DEF x
  <2>7. Contents = SheetOf(store) /\ Contents \in Sheets /\ Grown(Contents, SheetOf(store))
    BY <1>1, SheetIs DEF Grown
  <2>8. Runs(x.at, x.sig, x.files, x.calm, store, art, context)
    BY <1>1, <2>6, <2>7 DEF Runs, BuildRuns, ReportRuns
  <2> QED
    BY <1>1, <2>5, <2>6, <2>8, QuietKeeps
<1> QED
  BY <1>2, <1>3
LEMMA DreamEndKeeps ==
    ASSUME LayersInv, NEW p \in Process, DreamWrite(p) \/ DreamAppend(p) \/ DreamReport(p)
    PROVE  LayersInv'
<1> DEFINE y == proc[p]
<1>0. /\ Runs(y.at, y.sig, y.files, y.calm, store, art, context)
      /\ store \in [File -> Seq(Line)] /\ Shaped(y) /\ y.queue \in Seq(Id) /\ "dream" \in File /\ "dream" \notin Signed
      /\ art = [n \in Artifact |-> art[n]] /\ context = [c \in Context |-> context[c]]
      /\ Told(art, store)
  BY DEF LayersInv, Shaped, File, Signed
<1>1. CASE DreamWrite(p)
  <2> DEFINE P == {i \in DOMAIN y.queue : y.queue[i] \notin DreamtOf}
             queue == Subsequence(y.queue, P)
             x == Gets(p, "append", y.sig, y.files, queue, y.lock)
  <2>1. Go(p, x) /\ UNCHANGED <<store, art, context>> /\ y.at = "write"
    BY <1>1 DEF DreamWrite, Filter, Doing
  <2>2. Len(y.queue) \in Nat /\ P \in SUBSET (1..Len(y.queue)) /\ \A i \in P : y.queue[i] \in Id
    BY <1>0
  <2> HIDE DEF P
  <2>3. queue \in Seq(Id)
    BY <2>2, SubsequenceTyped
  <2> HIDE DEF queue
  <2>4. Shaped(x) /\ x.at = "append" /\ x.sig = y.sig /\ x.files = y.files /\ x.calm = y.calm
    BY <2>3 DEF Gets, Shaped
  <2> HIDE DEF x
  <2>5. Runs(x.at, x.sig, x.files, x.calm, store, art, context)
    BY <1>0, <2>1, <2>4 DEF Runs, BuildRuns, ReportRuns
  <2> QED
    BY <2>1, <2>4, <2>5, QuietKeeps
<1>2. CASE DreamAppend(p)
  <2> DEFINE line == Dreamt(Head(y.queue))
             longer == Append(store["dream"], line)
             queue == Tail(y.queue)
             x == Gets(p, "append", y.sig, y.files, queue, y.lock)
  <2>1. GoWriting(p, x) /\ store' = [store EXCEPT !["dream"] = longer] /\ UNCHANGED <<art, context>> /\ y.at = "append"
    BY <1>2 DEF DreamAppend, Doing
  <2>2. y.queue # <<>>
    BY <1>2 DEF DreamAppend
  <2>3. Head(y.queue) \in Id /\ queue \in Seq(Id)
    BY <1>0, <2>2
  <2>4. line \in Line
    BY <2>3 DEF Line, Dreamt
  <2> HIDE DEF line, queue
  <2>5. longer \in Seq(Line)
    BY <1>0, <2>4
  <2> HIDE DEF longer
  <2>6. store' \in [File -> Seq(Line)] /\ Grown(SheetOf(store), SheetOf(store')) /\ Alike(SheetOf(store), SheetOf(store'))
    BY <1>0, <2>1, <2>5, GrownOf
  <2>7. \A f \in Signed : store'[f] = store[f]
    BY <1>0, <2>1, SheetIs
  <2>8. SheetOf(store') = SheetOf(store)
    BY <2>7 DEF SheetOf
  <2>9. Told(art, store')
    BY <1>0, <2>6, StillTold
  <2>10. Shaped(x) /\ x.at = "append" /\ x.sig = y.sig /\ x.files = y.files /\ x.calm = y.calm
    BY <2>3 DEF Gets, Shaped
  <2> HIDE DEF x
  <2>11. Runs(x.at, x.sig, x.files, x.calm, store', art', context')
    BY <1>0, <2>1, <2>8, <2>10 DEF Runs, BuildRuns, ReportRuns
  <2>12. Told(art', store') /\ art' = [n \in Artifact |-> art'[n]] /\ context' = [c \in Context |-> context'[c]]
    BY <1>0, <2>1, <2>9
  <2>13. IF FALSE THEN GoRewriting(p, x) ELSE GoWriting(p, x)
    BY <2>1
  <2> QED
    BY <2>6, <2>10, <2>11, <2>12, <2>13, WritingKeeps
<1>3. CASE DreamReport(p)
  <2> DEFINE x == Leaving(p)
             v == [sig |-> y.sig, calm |-> y.calm, body |-> Generated("dream", y.files)]
  <2>1. GoWriting(p, x) /\ art' = [art EXCEPT !["dream"] = v] /\ UNCHANGED <<store, context>> /\ y.at = "append"
    BY <1>3 DEF DreamReport, Doing
  <2>2. y.calm => /\ y.sig \in Sheets /\ y.files \in Sheets /\ Alike(y.sig, y.files) /\ Grown(y.sig, y.files)
                  /\ Grown(y.files, SheetOf(store))
    BY <1>0, <2>1 DEF Runs, ReportRuns
  <2>3. v.sig = y.sig /\ v.calm = y.calm /\ v.body = Generated("dream", y.files)
    OBVIOUS
  <2>4. Shaped(x) /\ x.at = "dispose"
    BY IdleIs
  <2> HIDE DEF x, v
  <2>5. v.calm => Tells(v, "dream", store)
    BY <2>2, <2>3 DEF Tells
  <2> QED
    BY <2>1, <2>4, <2>5, ReportKeeps
<1> QED
  BY <1>1, <1>2, <1>3

LEMMA RefreshKillKeep ==
    ASSUME LayersInv, NEW p \in Process, Refresh(p) \/ Kill(p)
    PROVE  LayersInv'
<1>1. UNCHANGED <<store, art, context>>
  BY DEF Refresh, Kill
<1>2. CASE Refresh(p)
  <2> DEFINE x == [Idle EXCEPT !.then = <<"build", "handoff", "dream">>]
  <2>1. Go(p, x)
    BY <1>2 DEF Refresh
  <2> DEFINE then == <<"build", "handoff", "dream">>
  <2>4. x = [Idle EXCEPT !.then = then]
    OBVIOUS
  <2> HIDE DEF x, then
  <2>2. x = [at |-> "idle", sig |-> Missing, files |-> Missing, queue |-> <<>>, lock |-> "none", calm |-> TRUE,
             then |-> then]
    BY <2>4 DEF Idle
  <2>3. Shaped(x) /\ x.at = "idle"
    BY <2>2, EmptySeq DEF Shaped
  <2> HIDE DEF x
  <2> QED
    BY <1>1, <2>1, <2>3, EmptyHandedKeeps
<1>3. CASE Kill(p)
  <2>1. Go(p, Idle) /\ Shaped(Idle) /\ Idle.at = "idle"
    BY <1>3, IdleIs DEF Kill
  <2> QED
    BY <1>1, <2>1, EmptyHandedKeeps
<1> QED
  BY <1>2, <1>3

\* What undisturbed processes have read, and what their artifacts show, is what
\* they sign or what the inputs have become since.
THEOREM LayersInductive == LayersSpec => []LayersInv
<1>1. ASSUME LayersInv, LayersNext PROVE LayersInv'
  <2>1. ASSUME NEW p \in Process, Dream(p) PROVE LayersInv'
    BY <1>1, <2>1, DreamStartKeeps, DreamReadKeeps, DreamEndKeeps DEF Dream
  <2> QED
    BY <1>1, <2>1, ArriveKeeps, BuildKeeps, ReportsKeep, RefreshKillKeep DEF LayersNext
<1>2. ASSUME LayersInv, UNCHANGED layersVars PROVE LayersInv'
  <2>1. UNCHANGED <<store, art, context, proc>>
    BY <1>2 DEF layersVars
  <2> QED
    BY <1>2, <2>1 DEF LayersInv
<1> QED
  BY InitialLayers, <1>1, <1>2, PTL DEF LayersSpec

\* An aligned artifact is the one its generator would make of the files as they
\* are now: what it shows lies between what it signs and what the inputs are,
\* which are the same, and of the layers is what it signs.
THEOREM AlignedShowsFiles == LayersSpec => []AlignedIsCurrent
<1>1. ASSUME LayersInv PROVE AlignedIsCurrent
  <2> SUFFICES ASSUME NEW n \in Artifact, Aligned(n), art[n].calm
               PROVE  art[n].body = Generated(n, Contents)
    BY DEF AlignedIsCurrent
  <2>1. /\ Signature = SheetOf(store) /\ Contents = SheetOf(store) /\ SheetOf(store) \in Sheets
        /\ Told(art, store) /\ art[n] # Missing /\ art[n].sig = SheetOf(store)
    BY <1>1, SheetIs DEF LayersInv, Aligned
  <2>2. CASE n \in {"layers", "handoff"}
    BY <2>1, <2>2 DEF Told
  <2>3. CASE n \in {"dream", "hygiene"}
    <3>1. Tells(art[n], n, store)
      BY <2>1, <2>3 DEF Told
    <3>2. PICK v \in Sheets : /\ art[n].body = Generated(n, v) /\ Alike(art[n].sig, v)
                              /\ Grown(art[n].sig, v) /\ Grown(v, SheetOf(store))
      BY <3>1 DEF Tells
    <3>3. v = SheetOf(store)
      BY <2>1, <3>2, GrownBack
    <3> QED
      BY <2>1, <3>2, <3>3
  <2> QED
    BY <2>2, <2>3 DEF Artifact, Script
<1> QED
  BY LayersInductive, <1>1, PTL

\* A rebuild that nobody disturbs leaves everything it wrote in agreement with
\* the layers it wrote.
THEOREM CalmBuildsAgree == LayersSpec => FinishedBuildAgrees
<1>1. ASSUME LayersInv, NEW p \in Process, BuildNav(p), proc[p].calm
      PROVE  /\ art.layers.sig = Signature' /\ art.layers.body = LayerSummary(LayersOf(Contents'))
             /\ context'.body = Body(LayersOf(Contents')) /\ context'.meta = Meta(LayersOf(Contents'))
             /\ context'.nav = Navigation(LayersOf(Contents'))
  <2> DEFINE y == proc[p]
  <2>1. Runs("nav", y.sig, y.files, y.calm, store, art, context) /\ context = [c \in Context |-> context[c]]
    BY <1>1 DEF LayersInv, BuildNav, BuildContext, Doing
  <2>2. /\ y.files = Shown(store) /\ art.layers.sig = SheetOf(store) /\ art.layers.body = LayerSummary(y.files)
        /\ context.body = Body(y.files) /\ context.meta = Meta(y.files)
    BY <1>1, <2>1 DEF Runs, BuildRuns
  <2>3. context' = [context EXCEPT !["nav"] = Navigation(y.files)] /\ store' = store
    BY <1>1 DEF BuildNav, BuildContext
  <2>4. context'.body = context.body /\ context'.meta = context.meta /\ context'.nav = Navigation(y.files)
    BY <2>1, <2>3 DEF Context
  <2>5. Signature = SheetOf(store) /\ Contents = SheetOf(store) /\ LayersOf(SheetOf(store)) = Shown(store)
    BY SheetIs DEF SheetOf, LayersOf, Shown, Signed
  <2>6. Signature' = Signature /\ Contents' = Contents
    BY <2>3 DEF Signature, Contents
  <2> QED
    BY <2>2, <2>4, <2>5, <2>6
<1>2. LayersInv => \A p \in Process : BuildNav(p) /\ proc[p].calm =>
          /\ art.layers.sig = Signature' /\ art.layers.body = LayerSummary(LayersOf(Contents'))
          /\ context'.body = Body(LayersOf(Contents')) /\ context'.meta = Meta(LayersOf(Contents'))
          /\ context'.nav = Navigation(LayersOf(Contents'))
  BY <1>1
<1> QED
  BY LayersInductive, <1>2, PTL DEF FinishedBuildAgrees
----------------------------------------------------------------------------
\* Promotions.

\* What is queued is different from what was promoted, and from one another.
Unpromoted(queue, dreams) ==
    /\ \A i, j \in DOMAIN queue : Text[queue[i]] = Text[queue[j]] => i = j
    /\ \A i \in DOMAIN queue, k \in DOMAIN dreams : Text[queue[i]] # Text[dreams[k].id]

\* A dream that writes holds the lock, and while it does nobody else writes
\* what dreams have promoted.
Dreams(x, dreams) ==
    /\ x.at \in {"sign", "read", "write", "append"} => x.lock = "held"
    /\ x.at \in {"write", "append"} => Unpromoted(x.queue, dreams)

PromotedInv ==
    ~unlinked =>
        /\ \A p, q \in Process : proc[p].lock = "held" /\ proc[q].lock = "held" => p = q
        /\ \A p \in Process : Dreams(proc[p], store.dream)
        /\ \A i, j \in DOMAIN store.dream : Text[store.dream[i].id] = Text[store.dream[j].id] => i = j

LEMMA StirredIs ==
    ASSUME LayersInv, NEW q \in Process, NEW rewriting \in BOOLEAN
    PROVE  LET x == Stirred(q, rewriting)
           IN  x.lock = proc[q].lock /\ x.at = proc[q].at /\ x.queue = proc[q].queue
<1> DEFINE y == proc[q]
           x == Stirred(q, rewriting)
<1>1. y = [at |-> y.at, sig |-> y.sig, files |-> y.files, queue |-> y.queue, lock |-> y.lock, calm |-> y.calm,
           then |-> y.then]
  BY DEF LayersInv, Shaped
<1>2. x = y \/ x = [y EXCEPT !.calm = FALSE]
  BY DEF Stirred
<1> HIDE DEF x
<1>3. ASSUME x = [y EXCEPT !.calm = FALSE] PROVE x.lock = y.lock /\ x.at = y.at /\ x.queue = y.queue
  <2>1. x = [at |-> y.at, sig |-> y.sig, files |-> y.files, queue |-> y.queue, lock |-> y.lock, calm |-> FALSE,
             then |-> y.then]
    BY <1>1, <1>3
  <2> QED
    BY <2>1
<1> QED
  BY <1>2, <1>3 DEF x

\* Process p goes on, keeps its lock or lets it go, and what was promoted stays.
LEMMA LockKept ==
    ASSUME LayersInv, PromotedInv, NEW p \in Process, NEW x, ~unlinked, ~unlinked',
           Go(p, x) \/ GoWriting(p, x) \/ GoRewriting(p, x), store'.dream = store.dream,
           x.lock = "held" => (proc[p].lock = "held" \/ Held = {}), Dreams(x, store.dream)
    PROVE  PromotedInv'
<1>1. proc'[p] = x /\ \A q \in Process \ {p} :
         proc'[q].lock = proc[q].lock /\ proc'[q].at = proc[q].at /\ proc'[q].queue = proc[q].queue
  <2>1. proc = [q \in Process |-> proc[q]] /\ \A q \in Process : Shaped(proc[q])
    BY DEF LayersInv
  <2>2. CASE Go(p, x)
    BY <2>1, <2>2 DEF Go
  <2>3. CASE GoWriting(p, x) \/ GoRewriting(p, x)
    <3>1. proc'[p] = x
      BY <2>3 DEF GoWriting, GoRewriting
    <3>2. ASSUME NEW q \in Process \ {p}
          PROVE  proc'[q].lock = proc[q].lock /\ proc'[q].at = proc[q].at /\ proc'[q].queue = proc[q].queue
      <4>1. proc'[q] = Stirred(q, FALSE) \/ proc'[q] = Stirred(q, TRUE)
        BY <2>3 DEF GoWriting, GoRewriting
      <4> QED
        BY <4>1, StirredIs
    <3> QED
      BY <3>1, <3>2
  <2> QED
    BY <2>2, <2>3
<1>2. /\ \A q, r \in Process : proc[q].lock = "held" /\ proc[r].lock = "held" => q = r
      /\ \A q \in Process : Dreams(proc[q], store.dream)
      /\ \A i, j \in DOMAIN store.dream : Text[store.dream[i].id] = Text[store.dream[j].id] => i = j
  BY DEF PromotedInv
<1>3. ASSUME NEW q \in Process PROVE Dreams(proc'[q], store.dream)
  BY <1>1, <1>2 DEF Dreams
<1>4. ASSUME NEW q \in Process, NEW r \in Process, proc'[q].lock = "held", proc'[r].lock = "held" PROVE q = r
  BY <1>1, <1>2, <1>4 DEF Held
<1> QED
  BY <1>2, <1>3, <1>4 DEF PromotedInv

\* Nobody holds the lock whose file goes away.
LEMMA UnlinkedIs ==
    ASSUME LayersInv, Held = {}, NEW p \in Process, NEW x, proc' = [Unlinking EXCEPT ![p] = x]
    PROVE  Go(p, x)
<1>1. proc = [q \in Process |-> proc[q]] /\ Unlinking = [q \in Process |-> proc[q]]
  BY DEF LayersInv, Unlinking
<1> QED
  BY <1>1 DEF Go

LEMMA DreamingIs ==
    ASSUME NEW x, NEW dreams, x.at \notin {"sign", "read", "write", "append"}
    PROVE  Dreams(x, dreams)
  BY DEF Dreams
LEMMA BuildPromotes ==
    ASSUME LayersInv, PromotedInv, NEW p \in Process, ~unlinked',
           Build(p) \/ HandoffRead(p) \/ HandoffWrite(p) \/ HygieneSign(p) \/ HygieneWrite(p)
    PROVE  PromotedInv'
<1>1. ~unlinked
  <2>1. CASE Build(p)
    BY <2>1 DEF Build, BuildRead, BuildInbox, BuildMerge, BuildSession, BuildTasks, BuildLayers, BuildBody,
                BuildMeta, BuildNav, BuildContext, Truncate, FillFile
  <2>2. CASE ~Build(p)
    BY <2>2 DEF HandoffRead, HandoffWrite, HygieneSign, HygieneWrite
  <2> QED
    BY <2>1, <2>2
<1>2. store \in [File -> Seq(Line)]
  BY DEF LayersInv
<1>3. store'.dream = store.dream
  BY <1>2 DEF Build, BuildRead, BuildInbox, BuildMerge, BuildSession, BuildTasks, BuildLayers, BuildBody, BuildMeta,
         BuildNav, BuildContext, Truncate, FillFile, HandoffRead, HandoffWrite, HygieneSign, HygieneWrite, File
<1>4. \E x : /\ Go(p, x) \/ GoWriting(p, x) \/ GoRewriting(p, x)
             /\ x.at \notin {"sign", "read", "write", "append"} /\ (x.lock = "held" => proc[p].lock = "held")
  <2>1. \A where, sig, files : Begins(p, where, sig, files).at = where /\ Begins(p, where, sig, files).lock = "none"
    BY DEF Begins
  <2>2. \A where : Turns(p, where).at = where /\ Turns(p, where).lock = proc[p].lock
    BY DEF Turns, Gets
  <2>3. \A files : Gets(p, "session", Missing, files, <<>>, "none").at = "session"
                   /\ Gets(p, "session", Missing, files, <<>>, "none").lock = "none"
    BY DEF Gets
  <2>4. Finished(p).at = "idle" /\ Finished(p).lock = "none"
    BY IdleIs
  <2>5. CASE BuildRead(p) \/ HandoffRead(p) \/ HygieneSign(p)
    <3>1. \E where \in {"inbox", "pack", "analyse"} : \E sig, files : Go(p, Begins(p, where, sig, files))
      BY <2>5 DEF BuildRead, HandoffRead, HygieneSign
    <3> QED
      BY <2>1, <3>1
  <2>6. CASE BuildMerge(p)
    <3>1. \E files : Go(p, Gets(p, "session", Missing, files, <<>>, "none"))
      BY <2>6 DEF BuildMerge
    <3> QED
      BY <2>3, <3>1
  <2>7. CASE BuildLayers(p) \/ BuildBody(p) \/ BuildMeta(p)
    <3>1. \E where \in {"body", "meta", "nav"} : GoWriting(p, Turns(p, where))
      BY <2>7 DEF BuildLayers, BuildBody, BuildMeta, BuildContext
    <3> QED
      BY <2>2, <3>1
  <2>9. CASE BuildInbox(p) \/ BuildSession(p) \/ BuildTasks(p)
    <3>1. \E where \in {"fill inbox", "merge", "fill session", "tasks", "fill tasks", "layers"} :
             GoRewriting(p, Turns(p, where))
      BY <2>9 DEF BuildInbox, BuildSession, BuildTasks, Truncate, FillFile
    <3>2. PICK where \in {"fill inbox", "merge", "fill session", "tasks", "fill tasks", "layers"} :
             GoRewriting(p, Turns(p, where))
      BY <3>1
    <3> DEFINE x == Turns(p, where)
    <3>3. x.at = where /\ x.lock = proc[p].lock
      BY <2>2
    <3>4. GoRewriting(p, x)
      BY <3>2
    <3>5. where \notin {"sign", "read", "write", "append"}
      BY <3>2
    <3> HIDE DEF x
    <3> QED
      BY <3>3, <3>4, <3>5
  <2>8. CASE BuildNav(p) \/ HandoffWrite(p) \/ HygieneWrite(p)
    <3>1. GoWriting(p, Finished(p))
      BY <2>8 DEF BuildNav, BuildContext, HandoffWrite, HygieneWrite
    <3> QED
      BY <2>4, <3>1
  <2> QED
    BY <2>5, <2>6, <2>7, <2>8, <2>9 DEF Build
<1>5. PICK x : /\ Go(p, x) \/ GoWriting(p, x) \/ GoRewriting(p, x)
               /\ x.at \notin {"sign", "read", "write", "append"} /\ (x.lock = "held" => proc[p].lock = "held")
  BY <1>4
<1>6. Dreams(x, store.dream)
  BY <1>5, DreamingIs
<1> QED
  BY <1>1, <1>3, <1>5, <1>6, LockKept

LEMMA DreamStartPromotes ==
    ASSUME LayersInv, PromotedInv, NEW p \in Process, ~unlinked',
           DreamOpen(p) \/ DreamBusy(p) \/ DreamBreak(p) \/ DreamSign(p) \/ DreamDispose(p) \/ DreamDelete(p)
           \/ Refresh(p) \/ Kill(p)
    PROVE  PromotedInv'
<1> DEFINE y == proc[p]
<1>1. store'.dream = store.dream
  BY DEF DreamOpen, DreamBusy, DreamBreak, DreamSign, DreamDispose, DreamDelete, Refresh, Kill
<1>2. ~unlinked
  BY DEF DreamOpen, DreamBusy, DreamBreak, DreamSign, DreamDispose, DreamDelete, Refresh, Kill
<1>3. Dreams(y, store.dream)
  BY <1>2 DEF PromotedInv
<1>4. \E x : /\ Go(p, x)
             /\ \/ x.at \notin {"sign", "read", "write", "append"} /\ x.lock # "held"
                \/ x.at \notin {"sign", "read", "write", "append"} /\ x.lock = y.lock
                \/ x.at \in {"sign", "read"} /\ x.lock = "held" /\ (y.lock = "held" \/ Held = {})
  <2>1. Idle.at = "idle" /\ Idle.lock = "none" /\ Leaving(p).at = "dispose" /\ Leaving(p).lock = y.lock
    BY IdleIs
  <2>2. CASE Go(p, Idle)
    BY <2>1, <2>2
  <2>3. CASE DreamOpen(p)
    <3>1. CASE Held = {}
      <4>1. Go(p, [Begins(p, "sign", Missing, Missing) EXCEPT !.lock = "held"])
        BY <2>3, <3>1 DEF DreamOpen
      <4>2. [Begins(p, "sign", Missing, Missing) EXCEPT !.lock = "held"].at = "sign"
            /\ [Begins(p, "sign", Missing, Missing) EXCEPT !.lock = "held"].lock = "held"
        BY DEF Begins
      <4> QED
        BY <3>1, <4>1, <4>2
    <3>2. CASE Held # {}
      <4>1. Go(p, Begins(p, "busy", Missing, Missing))
        BY <2>3, <3>2 DEF DreamOpen
      <4>2. Begins(p, "busy", Missing, Missing).at = "busy" /\ Begins(p, "busy", Missing, Missing).lock = "none"
        BY DEF Begins
      <4> QED
        BY <4>1, <4>2
    <3> QED
      BY <3>1, <3>2
  <2>4. CASE DreamBusy(p)
    <3>1. Turns(p, "break").at = "break" /\ Turns(p, "break").lock = y.lock
      BY DEF Turns, Gets
    <3> QED
      BY <2>2, <2>4, <3>1 DEF DreamBusy
  <2>5. CASE DreamBreak(p)
    <3>1. Gets(p, "sign", Missing, Missing, <<>>, "held").at = "sign" /\ Gets(p, "sign", Missing, Missing, <<>>, "held").lock = "held"
      BY DEF Gets
    <3>2. CASE Held = {}
      <4> DEFINE x == Gets(p, "sign", Missing, Missing, <<>>, "held")
      <4>1. proc' = [Unlinking EXCEPT ![p] = x]
        BY <2>5, <3>2 DEF DreamBreak
      <4> HIDE DEF x
      <4>2. Go(p, x)
        BY <3>2, <4>1, UnlinkedIs
      <4> QED
        BY <3>1, <3>2, <4>2 DEF x
    <3>3. CASE Held # {}
      BY <1>2, <2>2, <2>5, <3>3 DEF DreamBreak
    <3> QED
      BY <3>2, <3>3
  <2>6. CASE DreamSign(p)
    <3> DEFINE x == Gets(p, "read", Signature, Missing, <<>>, y.lock)
    <3>1. x.at = "read" /\ x.lock = y.lock
      BY DEF Gets
    <3>2. y.lock = "held"
      BY <1>3, <2>6 DEF DreamSign, Doing, Dreams
    <3>3. Go(p, x) \/ Go(p, Leaving(p))
      BY <2>6 DEF DreamSign
    <3> HIDE DEF x
    <3> QED
      BY <2>1, <3>1, <3>2, <3>3
  <2>7. CASE DreamDispose(p)
    <3> DEFINE x == [Idle EXCEPT !.at = "delete"]
    <3>1. x.at = "delete" /\ x.lock = "none"
      BY DEF Idle
    <3>2. Go(p, x)
      BY <2>7 DEF DreamDispose
    <3> HIDE DEF x
    <3> QED
      BY <3>1, <3>2
  <2>8. CASE DreamDelete(p)
    <3>1. CASE Held = {}
      <4>1. Go(p, Idle) \/ proc' = [Unlinking EXCEPT ![p] = Idle]
        BY <2>8 DEF DreamDelete
      <4>2. Go(p, Idle)
        BY <3>1, <4>1, UnlinkedIs
      <4> QED
        BY <2>2, <4>2
    <3>2. CASE Held # {}
      BY <2>2, <2>8, <3>2 DEF DreamDelete
    <3> QED
      BY <3>1, <3>2
  <2>9. CASE Refresh(p)
    <3> DEFINE then == <<"build", "handoff", "dream">>
               x == [Idle EXCEPT !.then = then]
    <3>2. Go(p, x)
      BY <2>9 DEF Refresh
    <3> HIDE DEF then
    <3>1. x.at = "idle" /\ x.lock = "none"
      BY DEF Idle
    <3> HIDE DEF x
    <3> QED
      BY <3>1, <3>2
  <2>10. CASE Kill(p)
    BY <2>2, <2>10 DEF Kill
  <2> QED
    BY <2>3, <2>4, <2>5, <2>6, <2>7, <2>8, <2>9, <2>10
<1>5. PICK x : /\ Go(p, x)
               /\ \/ x.at \notin {"sign", "read", "write", "append"} /\ x.lock # "held"
                  \/ x.at \notin {"sign", "read", "write", "append"} /\ x.lock = y.lock
                  \/ x.at \in {"sign", "read"} /\ x.lock = "held" /\ (y.lock = "held" \/ Held = {})
  BY <1>4
<1>6. Dreams(x, store.dream) /\ (x.lock = "held" => (y.lock = "held" \/ Held = {}))
  BY <1>5 DEF Dreams
<1> QED
  BY <1>1, <1>2, <1>5, <1>6, LockKept
LEMMA DreamReadPromotes ==
    ASSUME LayersInv, PromotedInv, NEW p \in Process, ~unlinked', DreamRead(p)
    PROVE  PromotedInv'
<1> DEFINE y == proc[p]
<1>1. store'.dream = store.dream /\ ~unlinked /\ store \in [File -> Seq(Line)]
  BY DEF DreamRead, LayersInv
<1>2. y.lock = "held"
  BY <1>1 DEF PromotedInv, DreamRead, Doing, Dreams
<1>3. CASE Go(p, Leaving(p))
  <2>1. Leaving(p).at = "dispose" /\ Leaving(p).lock = y.lock
    BY IdleIs
  <2>2. Dreams(Leaving(p), store.dream)
    BY <2>1, DreamingIs
  <2> QED
    BY <1>1, <1>2, <1>3, <2>2, LockKept
<1>4. CASE ~Go(p, Leaving(p))
  <2>1. PICK order \in Orders : \E queued \in Selections(order), writeback \in BOOLEAN :
           Go(p, Gets(p, "write", y.sig, Contents, IF writeback THEN SetToSeq({r.id : r \in queued}) ELSE <<>>, y.lock))
    BY <1>4 DEF DreamRead
  <2>0. PICK queued \in Selections(order), writeback \in BOOLEAN :
           Go(p, Gets(p, "write", y.sig, Contents, IF writeback THEN SetToSeq({r.id : r \in queued}) ELSE <<>>, y.lock))
    BY <2>1
  <2> DEFINE s == SetToSeq({r.id : r \in queued})
             queue == IF writeback THEN s ELSE <<>>
             x == Gets(p, "write", y.sig, Contents, queue, y.lock)
  <2>2. /\ queued \in SUBSET Queueable
        /\ \A r, q \in queued : r = q \/ (PromotionKey[r.id] # PromotionKey[q.id] /\ Text[r.id] # Text[q.id])
    BY DEF Selections, Fits
  <2>3. queued \in SUBSET Candidates /\ \A r \in queued : NewText(r)
    BY <2>2 DEF Queueable, Fresh, Outdated
  <2>4. /\ \A i \in DOMAIN s : \E r \in queued : s[i] = r.id
        /\ \A i, j \in DOMAIN s : s[i] = s[j] => i = j
    BY <1>1, <2>3, QueueIs
  <2>5. ASSUME NEW k \in DOMAIN store.dream, NEW r \in queued PROVE Text[r.id] # Text[store.dream[k].id]
    BY <2>3 DEF NewText, DreamtOf, ToSet
  <2>6. Go(p, x)
    BY <2>0
  <2> HIDE DEF s
  <2>7. Unpromoted(s, store.dream)
    BY <2>2, <2>4, <2>5 DEF Unpromoted
  <2>8. Unpromoted(queue, store.dream)
    BY <2>7 DEF Unpromoted
  <2> HIDE DEF queue
  <2>9. x.at = "write" /\ x.queue = queue /\ x.lock = y.lock
    BY DEF Gets
  <2> HIDE DEF x
  <2>10. Dreams(x, store.dream)
    BY <1>2, <2>8, <2>9 DEF Dreams
  <2> QED
    BY <1>1, <1>2, <2>6, <2>10, LockKept
<1> QED
  BY <1>3, <1>4

LEMMA DreamWritePromotes ==
    ASSUME LayersInv, PromotedInv, NEW p \in Process, ~unlinked', DreamWrite(p) \/ DreamReport(p)
    PROVE  PromotedInv'
<1> DEFINE y == proc[p]
<1>1. store'.dream = store.dream /\ ~unlinked /\ y.queue \in Seq(Id)
  BY DEF DreamWrite, DreamReport, LayersInv, Shaped
<1>2. y.lock = "held" /\ Unpromoted(y.queue, store.dream)
  BY <1>1 DEF PromotedInv, DreamWrite, DreamReport, Doing, Dreams
<1>3. CASE DreamReport(p)
  <2>1. Leaving(p).at = "dispose" /\ Leaving(p).lock = y.lock /\ GoWriting(p, Leaving(p))
    BY <1>3, IdleIs DEF DreamReport
  <2>2. Dreams(Leaving(p), store.dream)
    BY <2>1, DreamingIs
  <2> QED
    BY <1>1, <1>2, <2>1, <2>2, LockKept
<1>4. CASE DreamWrite(p)
  <2> DEFINE P == {i \in DOMAIN y.queue : y.queue[i] \notin DreamtOf}
             queue == Subsequence(y.queue, P)
             x == Gets(p, "append", y.sig, y.files, queue, y.lock)
  <2>1. Go(p, x)
    BY <1>4 DEF DreamWrite, Filter
  <2>2. Len(y.queue) \in Nat /\ P \in SUBSET (1..Len(y.queue)) /\ DOMAIN y.queue = 1..Len(y.queue)
    BY <1>1
  <2> HIDE DEF P
  <2>9. \A k \in 1..Cardinality(P) : Place(P, k) \in P /\ Cardinality({j \in P : j <= Place(P, k)}) = k
    BY <2>2, SubsequencePlaces
  <2>3. /\ queue = [k \in 1..Cardinality(P) |-> y.queue[Place(P, k)]]
        /\ \A k \in 1..Cardinality(P) : Place(P, k) \in P /\ Cardinality({j \in P : j <= Place(P, k)}) = k
    BY <2>9 DEF Subsequence
  <2> HIDE DEF queue
  <2>4. /\ DOMAIN queue = 1..Cardinality(P)
        /\ \A k \in DOMAIN queue : Place(P, k) \in DOMAIN y.queue /\ queue[k] = y.queue[Place(P, k)]
        /\ \A k, l \in DOMAIN queue : Place(P, k) = Place(P, l) => k = l
    BY <2>2, <2>3
  <2>5. Unpromoted(queue, store.dream)
    BY <1>2, <2>4 DEF Unpromoted
  <2>6. x.at = "append" /\ x.queue = queue /\ x.lock = y.lock
    BY DEF Gets
  <2> HIDE DEF x
  <2>7. Dreams(x, store.dream)
    BY <1>2, <2>5, <2>6 DEF Dreams
  <2> QED
    BY <1>1, <1>2, <2>1, <2>7, LockKept
<1> QED
  BY <1>3, <1>4

LEMMA DreamAppendPromotes ==
    ASSUME LayersInv, PromotedInv, NEW p \in Process, ~unlinked', DreamAppend(p)
    PROVE  PromotedInv'
<1> DEFINE y == proc[p]
           head == Head(y.queue)
           rest == Tail(y.queue)
           d == store.dream
           longer == Append(d, Dreamt(head))
           x == Gets(p, "append", y.sig, y.files, rest, y.lock)
<1>1. /\ ~unlinked /\ y.at = "append" /\ y.queue # <<>> /\ GoWriting(p, x)
      /\ store' = [store EXCEPT !["dream"] = longer]
  BY DEF DreamAppend, Doing
<1>2. /\ proc = [q \in Process |-> proc[q]] /\ y.queue \in Seq(Id) /\ d \in Seq(Line) /\ store'.dream = longer
      /\ \A q \in Process : Shaped(proc[q])
  BY <1>1 DEF LayersInv, Shaped, File
<1>3. /\ \A q, r \in Process : proc[q].lock = "held" /\ proc[r].lock = "held" => q = r
      /\ \A q \in Process : Dreams(proc[q], d)
      /\ \A i, j \in DOMAIN d : Text[d[i].id] = Text[d[j].id] => i = j
  BY <1>1 DEF PromotedInv
<1>4. y.lock = "held" /\ Unpromoted(y.queue, d)
  BY <1>1, <1>3 DEF Dreams
<1>5. head = y.queue[1] /\ 1 \in DOMAIN y.queue /\ \A i \in DOMAIN rest : i + 1 \in DOMAIN y.queue /\ rest[i] = y.queue[i + 1] /\ i \in Nat /\ i # 0
  BY <1>1, <1>2
<1>6. /\ DOMAIN longer = DOMAIN d \cup {Len(d) + 1} /\ Len(d) + 1 \notin DOMAIN d
      /\ \A k \in DOMAIN d : longer[k] = d[k]
      /\ longer[Len(d) + 1] = Dreamt(head)
  <2> DEFINE line == Dreamt(head)
  <2>1. head \in Id /\ line \in Line
    BY <1>2, <1>5 DEF Line, Dreamt
  <2> HIDE DEF line, d, head
  <2>2. /\ DOMAIN Append(d, line) = DOMAIN d \cup {Len(d) + 1} /\ Len(d) + 1 \notin DOMAIN d
        /\ \A k \in DOMAIN d : Append(d, line)[k] = d[k]
        /\ Append(d, line)[Len(d) + 1] = line
    BY <1>2, <2>1
  <2> QED
    BY <2>2 DEF line
<1> HIDE DEF d, longer, rest, head
<1>7. \A i \in DOMAIN d : Text[d[i].id] # Text[head]
  BY <1>4, <1>5 DEF Unpromoted
<1>8. Dreamt(head).id = head
  BY DEF Dreamt
<1>9. \A i, j \in DOMAIN longer : Text[longer[i].id] = Text[longer[j].id] => i = j
  BY <1>3, <1>6, <1>7, <1>8
<1>10. \A i, j \in DOMAIN rest : Text[rest[i]] = Text[rest[j]] => i = j
  <2>1. \A i, j \in DOMAIN rest : Text[rest[i]] = Text[rest[j]] => i + 1 = j + 1
    BY <1>4, <1>5 DEF Unpromoted
  <2> QED
    BY <1>5, <2>1
<1>11. \A i \in DOMAIN rest : Text[rest[i]] # Text[head]
  <2>1. \A i \in DOMAIN rest : i + 1 # 1
    BY <1>5
  <2> QED
    BY <1>4, <1>5, <2>1 DEF Unpromoted
<1>12. \A i \in DOMAIN rest, k \in DOMAIN longer : Text[rest[i]] # Text[longer[k].id]
  BY <1>4, <1>5, <1>6, <1>8, <1>11 DEF Unpromoted
<1>13. Unpromoted(rest, longer)
  BY <1>10, <1>12 DEF Unpromoted
<1>14. x.at = "append" /\ x.queue = rest /\ x.lock = y.lock
  BY DEF Gets
<1> HIDE DEF x
<1>15. proc'[p] = x /\ \A q \in Process \ {p} : proc'[q].lock = proc[q].lock /\ proc'[q].at = proc[q].at
  <2>1. proc'[p] = x
    BY <1>1, <1>2 DEF GoWriting
  <2>2. ASSUME NEW q \in Process \ {p} PROVE proc'[q].lock = proc[q].lock /\ proc'[q].at = proc[q].at
    <3>1. proc'[q] = Stirred(q, FALSE)
      BY <1>1 DEF GoWriting
    <3> QED
      BY <3>1, StirredIs
  <2> QED
    BY <2>1, <2>2
<1>16. ASSUME NEW q \in Process PROVE Dreams(proc'[q], longer)
  <2>1. CASE q = p
    BY <1>4, <1>13, <1>14, <1>15, <2>1 DEF Dreams
  <2>2. CASE q # p
    BY <1>3, <1>4, <1>15, <2>2 DEF Dreams
  <2> QED
    BY <2>1, <2>2
<1>17. \A q, r \in Process : proc'[q].lock = "held" /\ proc'[r].lock = "held" => q = r
  BY <1>3, <1>4, <1>14, <1>15
<1> QED
  BY <1>2, <1>9, <1>16, <1>17 DEF PromotedInv

LEMMA ArrivePromotes ==
    ASSUME LayersInv, PromotedInv, NEW id \in Id, Arrive(id), ~unlinked'
    PROVE  PromotedInv'
<1>1. /\ ~unlinked /\ store \in [File -> Seq(Line)]
      /\ store' = [store EXCEPT ![HomeOf(id)] = Append(store[HomeOf(id)], Plain(id))]
      /\ proc' = [q \in Process |-> Stirred(q, FALSE)]
  BY DEF LayersInv, Arrive
<1>2. store'.dream = store.dream
  BY <1>1 DEF File, Input, HomeOf
<1>3. ASSUME NEW q \in Process
      PROVE  proc'[q].lock = proc[q].lock /\ proc'[q].at = proc[q].at /\ proc'[q].queue = proc[q].queue
  <2>1. proc'[q] = Stirred(q, FALSE)
    BY <1>1
  <2> QED
    BY <2>1, StirredIs
<1>4. /\ \A q, r \in Process : proc[q].lock = "held" /\ proc[r].lock = "held" => q = r
      /\ \A q \in Process : Dreams(proc[q], store.dream)
      /\ \A i, j \in DOMAIN store.dream : Text[store.dream[i].id] = Text[store.dream[j].id] => i = j
  BY <1>1 DEF PromotedInv
<1>5. \A q \in Process : Dreams(proc'[q], store.dream)
  BY <1>3, <1>4 DEF Dreams
<1> QED
  BY <1>2, <1>3, <1>4, <1>5 DEF PromotedInv

LEMMA InitialPromotions == LayersInit => PromotedInv
<1> SUFFICES ASSUME LayersInit PROVE PromotedInv
  OBVIOUS
<1>1. \A p \in Process : proc[p].lock = "none" /\ proc[p].at = "idle"
  BY DEF LayersInit, Idle
<1>2. DOMAIN store.dream = {}
  BY DEF LayersInit, File
<1> QED
  BY <1>1, <1>2 DEF PromotedInv, Dreams

\* Unless a dream lost its lock file, only its holder writes, and what it has
\* queued is not among what was promoted.
THEOREM PromotionsInductive == LayersSpec => []PromotedInv
<1>1. ASSUME LayersInv, PromotedInv, LayersNext PROVE PromotedInv'
  <2>1. CASE unlinked'
    BY <2>1 DEF PromotedInv
  <2>2. CASE ~unlinked'
    <3>1. ASSUME NEW p \in Process, Dream(p) PROVE PromotedInv'
      BY <1>1, <2>2, <3>1, DreamStartPromotes, DreamReadPromotes, DreamWritePromotes, DreamAppendPromotes DEF Dream
    <3>2. ASSUME NEW p \in Process, Refresh(p) \/ Kill(p) PROVE PromotedInv'
      BY <1>1, <2>2, <3>2, DreamStartPromotes
    <3> QED
      BY <1>1, <2>2, <3>1, <3>2, ArrivePromotes, BuildPromotes DEF LayersNext
  <2> QED
    BY <2>1, <2>2
<1>2. ASSUME PromotedInv, UNCHANGED layersVars PROVE PromotedInv'
  BY <1>2 DEF layersVars, PromotedInv, Dreams, Unpromoted
<1> QED
  BY InitialPromotions, LayersInductive, <1>1, <1>2, PTL DEF LayersSpec

\* No memory and no text is promoted twice, unless a dream lost its lock.
THEOREM PromotionsAreOnce == LayersSpec => []PromotedOnce
<1>1. PromotedInv => PromotedOnce
  BY DEF PromotedInv, PromotedOnce
<1> QED
  BY PromotionsInductive, <1>1, PTL
=============================================================================
