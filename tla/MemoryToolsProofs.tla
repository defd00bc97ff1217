--------------------------- MODULE MemoryToolsProofs ---------------------------
(***************************************************************************)
(* Proofs about SearchWorker, for every finite number of processes and any *)
(* number of calls; about MemoryTools: the tools implement the worker, so  *)
(* that what is proved of the worker holds under them; and about           *)
(* RetrievalServer, the process that the worker is.                        *)
(***************************************************************************)
EXTENDS MemoryTools, RetrievalServer, FiniteSetTheorems, SequenceTheorems, TLAPS

ProcState == {"unborn", "starting", "running", "dead", "gone"}
Phase == {"new", "waiting", "ready", "pending", "answered", "failed"}

\* The types of all variables but the counters.
Types ==
    /\ up \in BOOLEAN
    /\ searchWorker \in Child \cup {None}
    /\ startup \in Child \cup {None}
    /\ proc \in [Child -> ProcState]
    /\ killed \subseteq Child
    /\ stopping \subseteq Child
    /\ circuitOpen \in BOOLEAN
    /\ phase \in [Request -> Phase]
    /\ target \in [Request -> Child \cup {None}]

Gone == {c \in Child : proc[c] = "gone"}

\* Exits are counted once for each child.
CountersBounded ==
    /\ restartCount \in Nat /\ restartCount <= Cardinality(Gone)
    /\ timers \in Nat /\ timers <= Cardinality(Gone)

\* The current child has a process, and only children that had one are stopped.
ProcessesKnown ==
    /\ searchWorker # None => proc[searchWorker] \in {"running", "dead"}
    /\ stopping \subseteq killed

\* A call in the table or about to be has a child.
CallsHaveChild == \A r \in In("pending") \cup In("ready") : target[r] \in Child

IInv ==
    /\ Types /\ CountersBounded /\ ProcessesKnown /\ CallsHaveChild
    /\ NoStrandedCall /\ SingleStartup /\ OneWorkerUnlessStopped

-----------------------------------------------------------------------------
(* Counting the children that are gone *)

LEMMA GoneIsFinite ==
    IsFiniteSet(Gone) /\ Cardinality(Gone) \in Nat /\ Cardinality(Gone) <= Cardinality(Child)
BY SearchAssumption, FS_Subset, FS_CardinalityType DEF Gone

\* Burying a child adds one to those that are gone.
LEMMA GoneGrows ==
    ASSUME Types, NEW c \in Child, proc[c] # "gone", proc' = [proc EXCEPT ![c] = "gone"]
    PROVE  Cardinality(Gone') = Cardinality(Gone) + 1
<1>1. Gone' = Gone \cup {c} /\ c \notin Gone
  BY DEF Gone, Types
<1>2. QED BY <1>1, GoneIsFinite, FS_AddElement

\* Other changes of a process leave their number alone.
LEMMA GoneStays ==
    ASSUME Types, NEW c \in Child, NEW p \in ProcState \ {"gone"},
           proc[c] # "gone", proc' = [proc EXCEPT ![c] = p]
    PROVE  Gone' = Gone
BY DEF Gone, Types

LEMMA TypesImplyTypeOK == Types /\ CountersBounded => TypeOK
<1> SUFFICES ASSUME Types, CountersBounded PROVE TypeOK
  OBVIOUS
<1>1. Cardinality(Child) \in Nat
  BY SearchAssumption, FS_CardinalityType
<1>2. restartCount \in 0..Cardinality(Child) /\ timers \in 0..Cardinality(Child)
  BY <1>1, GoneIsFinite DEF CountersBounded
<1>3. QED BY <1>2 DEF Types, TypeOK, ProcState, Phase

-----------------------------------------------------------------------------
(* The inductive invariant *)

LEMMA IInit == Init => IInv
<1> SUFFICES ASSUME Init PROVE IInv
  OBVIOUS
<1>1. Types
  BY DEF Init, Types, ProcState, Phase
<1>2. CountersBounded
  BY GoneIsFinite DEF Init, CountersBounded
<1>3. ProcessesKnown /\ CallsHaveChild /\ NoStrandedCall /\ SingleStartup
  BY SearchAssumption DEF Init, ProcessesKnown, CallsHaveChild, NoStrandedCall, SingleStartup, In
<1>4. OneWorkerUnlessStopped
  BY DEF Init, OneWorkerUnlessStopped
<1>5. QED BY <1>1, <1>2, <1>3, <1>4 DEF IInv

\* The parts that are about processes hold while those stay as they are.
LEMMA ProcessesStay ==
    ASSUME IInv, UNCHANGED <<searchWorker, startup, proc, killed, stopping>>
    PROVE  ProcessesKnown' /\ OneWorkerUnlessStopped' /\ Gone' = Gone
BY DEF IInv, ProcessesKnown, OneWorkerUnlessStopped, Gone

\* A call that takes a step of its own.
LEMMA CallMoves ==
    ASSUME IInv, NEW r \in Request, NEW p \in Phase, NEW t \in Child \cup {None},
           phase' = [phase EXCEPT ![r] = p], target' = [target EXCEPT ![r] = t],
           UNCHANGED <<up, searchWorker, startup, childVars, stopping>>,
           circuitOpen' \in BOOLEAN,
           restartCount' \in Nat, restartCount' <= restartCount,
           timers' \in Nat, timers' <= timers,
           p = "waiting" => startup # None,
           p \in {"ready", "pending"} =>
               /\ t \in Child /\ proc[t] \in {"running", "dead"}
               /\ up => t = searchWorker \/ t \in killed
    PROVE  IInv'
<1> USE DEF IInv
<1>1. Types'
  BY DEF Types, childVars
<1>2. ProcessesKnown' /\ OneWorkerUnlessStopped' /\ Gone' = Gone
  BY ProcessesStay DEF childVars
<1>3. CountersBounded'
  BY <1>2, GoneIsFinite DEF CountersBounded
<1>4. \A q \in Request \ {r} : phase'[q] = phase[q] /\ target'[q] = target[q]
  BY DEF Types
<1>5. phase'[r] = p /\ target'[r] = t
  BY DEF Types
<1>6. CallsHaveChild'
  BY <1>4, <1>5 DEF CallsHaveChild, In
<1>7. NoStrandedCall'
  BY <1>4, <1>5 DEF NoStrandedCall, In, childVars
<1>8. SingleStartup'
  BY <1>4, <1>5 DEF SingleStartup, In, Alive, childVars
<1>9. QED BY <1>1, <1>2, <1>3, <1>6, <1>7, <1>8

LEMMA CheckEffect ==
    ASSUME IInv
    PROVE  CountAfterCheck \in Nat /\ CountAfterCheck <= restartCount
BY DEF IInv, CountersBounded, CountAfterCheck

LEMMA CallSteps ==
    ASSUME IInv, NEW r \in Request,
           \/ Refuse(r) \/ UseRunning(r) \/ JoinStartup(r)
           \/ Send(r) \/ Answer(r) \/ Timeout(r)
    PROVE  IInv'
<1> USE DEF IInv
<1>1. /\ restartCount \in Nat /\ timers \in Nat /\ circuitOpen \in BOOLEAN
      /\ target[r] \in Child \cup {None}
      /\ {"waiting", "ready", "pending", "answered", "failed"} \subseteq Phase
  BY DEF Types, CountersBounded, Phase
<1>2. CASE Refuse(r)
  <2>1. /\ phase' = [phase EXCEPT ![r] = "failed"]
        /\ target' = [target EXCEPT ![r] = target[r]]
        /\ UNCHANGED <<up, searchWorker, startup, childVars, stopping, timers>>
    BY <1>2 DEF Refuse, Types
  <2>2. /\ circuitOpen' \in BOOLEAN
        /\ restartCount' \in Nat /\ restartCount' <= restartCount
    <3>1. PICK windowOver \in BOOLEAN :
            \/ UNCHANGED <<restartCount, circuitOpen>>
            \/ restartCount' = CountAfterCheck /\ circuitOpen' = FALSE
      BY <1>2 DEF Refuse
    <3>2. restartCount' \in Nat /\ restartCount' <= restartCount
      BY <3>1, <1>1, CheckEffect
    <3>3. circuitOpen' \in BOOLEAN
      BY <3>1, <1>1
    <3>4. QED BY <3>2, <3>3
  <2>3. timers' \in Nat /\ timers' <= timers
    BY <2>1, <1>1
  <2>4. QED BY <2>1, <2>2, <2>3, <1>1, CallMoves
<1>3. CASE UseRunning(r)
  <2>1. /\ phase' = [phase EXCEPT ![r] = "ready"]
        /\ target' = [target EXCEPT ![r] = searchWorker]
        /\ UNCHANGED <<up, searchWorker, startup, childVars, stopping, timers>>
        /\ Alive(searchWorker)
    BY <1>3 DEF UseRunning
  <2>2. /\ circuitOpen' \in BOOLEAN
        /\ restartCount' \in Nat /\ restartCount' <= restartCount
    BY <1>3, CheckEffect DEF UseRunning, Admitted, CircuitAllows
  <2>3. /\ timers' \in Nat /\ timers' <= timers
        /\ searchWorker \in Child /\ proc[searchWorker] \in {"running", "dead"}
    BY <2>1, <1>1 DEF Types, Alive
  <2>4. QED BY <2>1, <2>2, <2>3, <1>1, CallMoves
<1>4. CASE JoinStartup(r)
  <2>1. /\ phase' = [phase EXCEPT ![r] = "waiting"]
        /\ target' = [target EXCEPT ![r] = target[r]]
        /\ UNCHANGED <<up, searchWorker, startup, childVars, stopping, timers>>
        /\ startup # None
    BY <1>4 DEF JoinStartup, Types
  <2>2. /\ circuitOpen' \in BOOLEAN
        /\ restartCount' \in Nat /\ restartCount' <= restartCount
    BY <1>4, CheckEffect DEF JoinStartup, Admitted, CircuitAllows
  <2>3. timers' \in Nat /\ timers' <= timers
    BY <2>1, <1>1
  <2>4. QED BY <2>1, <2>2, <2>3, <1>1, CallMoves
<1>5. CASE Send(r)
  <2>1. /\ phase' = [phase EXCEPT ![r] = "pending"]
        /\ target' = [target EXCEPT ![r] = target[r]]
        /\ UNCHANGED <<up, searchWorker, startup, childVars, stopping, healthVars>>
        /\ up /\ r \in In("ready")
    BY <1>5 DEF Send, Types, In
  <2>2. /\ target[r] \in Child /\ proc[target[r]] \in {"running", "dead"}
        /\ target[r] = searchWorker \/ target[r] \in killed
    BY <2>1 DEF CallsHaveChild, NoStrandedCall
  <2>3. /\ circuitOpen' \in BOOLEAN
        /\ restartCount' \in Nat /\ restartCount' <= restartCount
        /\ timers' \in Nat /\ timers' <= timers
    BY <2>1, <1>1 DEF healthVars
  <2>4. QED BY <2>1, <2>2, <2>3, <1>1, CallMoves
<1>6. CASE Answer(r)
  <2>0. PICK p \in {"answered", "failed"} : phase' = [phase EXCEPT ![r] = p]
    BY <1>6 DEF Answer
  <2>1. /\ p \in Phase /\ p \notin {"waiting", "ready", "pending"}
        /\ target' = [target EXCEPT ![r] = target[r]]
        /\ UNCHANGED <<up, searchWorker, startup, childVars, stopping, timers>>
    BY <1>6, <1>1 DEF Answer, Types, healthVars
  <2>2. /\ circuitOpen' \in BOOLEAN
        /\ restartCount' \in Nat /\ restartCount' <= restartCount
    <3>1. restartCount' = restartCount \/ restartCount' = 0
      BY <1>6 DEF Answer, healthVars
    <3>2. restartCount' \in Nat /\ restartCount' <= restartCount
      BY <3>1, <1>1
    <3>3. circuitOpen' = circuitOpen \/ circuitOpen' = FALSE
      BY <1>6 DEF Answer, healthVars
    <3>4. circuitOpen' \in BOOLEAN
      BY <3>3, <1>1
    <3>5. QED BY <3>2, <3>4
  <2>3. timers' \in Nat /\ timers' <= timers
    BY <2>1, <1>1
  <2>4. QED BY <2>0, <2>1, <2>2, <2>3, <1>1, CallMoves
<1>7. CASE Timeout(r)
  <2>1. /\ phase' = [phase EXCEPT ![r] = "failed"]
        /\ target' = [target EXCEPT ![r] = target[r]]
        /\ UNCHANGED <<up, searchWorker, startup, childVars, stopping, healthVars>>
    BY <1>7 DEF Timeout, Types
  <2>2. /\ circuitOpen' \in BOOLEAN
        /\ restartCount' \in Nat /\ restartCount' <= restartCount
        /\ timers' \in Nat /\ timers' <= timers
    BY <2>1, <1>1 DEF healthVars
  <2>3. QED BY <2>1, <2>2, <1>1, CallMoves
<1>8. QED BY <1>2, <1>3, <1>4, <1>5, <1>6, <1>7

LEMMA SpawnForStep == ASSUME IInv, NEW r \in Request, SpawnFor(r) PROVE IInv'
<1> USE DEF IInv
<1>1. PICK c \in Child : /\ proc[c] = "unborn"
                         /\ proc' = [proc EXCEPT ![c] = "starting"]
                         /\ startup' = c
  BY DEF SpawnFor
<1>2. /\ phase' = [phase EXCEPT ![r] = "waiting"]
      /\ UNCHANGED <<up, searchWorker, killed, stopping, timers, target>>
      /\ ~Alive(searchWorker) /\ startup = None
      /\ circuitOpen' \in BOOLEAN
      /\ restartCount' \in Nat /\ restartCount' <= restartCount
  BY CheckEffect DEF SpawnFor, MustSpawn, Admitted, CircuitAllows
<1>3. Types'
  BY <1>1, <1>2 DEF Types, ProcState, Phase
<1>4. CountersBounded'
  <2>1. Gone' = Gone
    BY <1>1, GoneStays DEF ProcState
  <2>2. QED BY <2>1, <1>2, GoneIsFinite DEF CountersBounded
<1>5. ProcessesKnown'
  BY <1>1, <1>2 DEF ProcessesKnown, Types
<1>6. CallsHaveChild' /\ NoStrandedCall'
  BY <1>1, <1>2 DEF CallsHaveChild, NoStrandedCall, In, Types
<1>7. SingleStartup'
  BY <1>1, <1>2, SearchAssumption DEF SingleStartup, In, Alive, Types, ProcessesKnown
<1>8. OneWorkerUnlessStopped'
  BY <1>1, <1>2, SearchAssumption DEF OneWorkerUnlessStopped, Alive, Types
<1>9. QED BY <1>3, <1>4, <1>5, <1>6, <1>7, <1>8

LEMMA SpawnedStep == ASSUME IInv, NEW c \in Child, Spawned(c) PROVE IInv'
<1> USE DEF IInv
<1>1. /\ up /\ In("ready") = {} /\ startup = c /\ proc[c] = "starting"
      /\ proc' = [proc EXCEPT ![c] = "running"]
      /\ searchWorker' = c /\ startup' = None
      /\ phase' = [q \in Request |-> IF phase[q] = "waiting" THEN "ready" ELSE phase[q]]
      /\ target' = [q \in Request |-> IF phase[q] = "waiting" THEN c ELSE target[q]]
      /\ UNCHANGED <<up, killed, stopping, restartCount, circuitOpen, timers>>
  BY DEF Spawned, Event, healthVars
<1>2. c # None /\ ~Alive(searchWorker)
  BY <1>1, SearchAssumption DEF SingleStartup
<1>3. Types'
  BY <1>1 DEF Types, ProcState, Phase
<1>4. CountersBounded'
  <2>1. Gone' = Gone
    BY <1>1, GoneStays DEF ProcState
  <2>2. QED BY <2>1, <1>1 DEF CountersBounded
<1>5. ProcessesKnown'
  BY <1>1 DEF ProcessesKnown, Types
<1>6. CallsHaveChild'
  BY <1>1 DEF CallsHaveChild, In, Types
<1>7. NoStrandedCall'
  <2>1. ASSUME NEW q \in Request, phase'[q] \in {"pending", "ready"}
        PROVE  /\ proc'[target'[q]] \in {"running", "dead"}
               /\ target'[q] = searchWorker' \/ target'[q] \in killed'
    <3>1. CASE phase[q] = "waiting"
      BY <3>1, <1>1 DEF Types
    <3>2. CASE phase[q] # "waiting"
      <4>1. q \in In("pending") /\ target'[q] = target[q]
        BY <3>2, <2>1, <1>1 DEF In, Types
      <4>2. /\ target[q] \in Child /\ proc[target[q]] \in {"running", "dead"}
            /\ target[q] = searchWorker \/ target[q] \in killed
        BY <4>1, <1>1 DEF CallsHaveChild, NoStrandedCall
      <4>3. target[q] \in killed
        BY <4>2, <1>2, SearchAssumption DEF Alive
      <4>4. proc'[target[q]] = proc[target[q]]
        BY <4>2, <1>1 DEF Types
      <4>5. QED BY <4>1, <4>2, <4>3, <4>4, <1>1
    <3>3. QED BY <3>1, <3>2
  <2>2. QED BY <2>1 DEF NoStrandedCall, In
<1>8. SingleStartup'
  BY <1>1, SearchAssumption DEF SingleStartup, In, Types
<1>9. OneWorkerUnlessStopped'
  BY <1>1, <1>2 DEF OneWorkerUnlessStopped, Types
<1>10. QED BY <1>3, <1>4, <1>5, <1>6, <1>7, <1>8, <1>9

\* Forgetting the worker fails all calls that no continuation holds.
LEMMA ResetCalls ==
    ASSUME IInv, In("ready") = {}, Reset, UNCHANGED target
    PROVE  /\ phase' \in [Request -> Phase]
           /\ In("pending")' = {} /\ In("ready")' = {}
           /\ In("waiting")' = In("waiting")
           /\ searchWorker' = None
BY DEF IInv, Types, Reset, In, Phase

LEMMA SpawnErrorStep == ASSUME IInv, NEW c \in Child, SpawnError(c) PROVE IInv'
<1> USE DEF IInv
<1>1. /\ up /\ In("ready") = {} /\ startup = c /\ proc[c] = "starting"
      /\ proc' = [proc EXCEPT ![c] = "gone"]
      /\ searchWorker' = None /\ startup' = None
      /\ phase' = [q \in Request |-> IF phase[q] \in {"waiting", "pending"}
                                     THEN "failed" ELSE phase[q]]
      /\ UNCHANGED <<up, killed, stopping, restartCount, circuitOpen, timers, target>>
  BY DEF SpawnError, Event, healthVars
<1>2. Types'
  BY <1>1 DEF Types, ProcState, Phase
<1>3. CountersBounded'
  <2>1. Cardinality(Gone') = Cardinality(Gone) + 1
    BY <1>1, GoneGrows
  <2>2. QED BY <2>1, <1>1, GoneIsFinite DEF CountersBounded
<1>4. ProcessesKnown'
  BY <1>1 DEF ProcessesKnown
<1>5. In("pending")' = {} /\ In("ready")' = {} /\ In("waiting")' = {}
  BY <1>1 DEF In, Types
<1>6. CallsHaveChild' /\ NoStrandedCall'
  BY <1>5 DEF CallsHaveChild, NoStrandedCall
<1>7. SingleStartup'
  BY <1>1, <1>5, SearchAssumption DEF SingleStartup, Types
<1>8. OneWorkerUnlessStopped'
  BY <1>1, SearchAssumption DEF OneWorkerUnlessStopped, Types
<1>9. QED BY <1>2, <1>3, <1>4, <1>6, <1>7, <1>8

LEMMA DieStep == ASSUME IInv, NEW c \in Child, Die(c) PROVE IInv'
<1> USE DEF IInv
<1>1. /\ proc[c] = "running" /\ proc' = [proc EXCEPT ![c] = "dead"]
      /\ UNCHANGED <<up, searchWorker, startup, killed, stopping, restartCount,
                     circuitOpen, timers, phase, target>>
  BY DEF Die, healthVars, callVars
<1>2. Types'
  BY <1>1 DEF Types, ProcState
<1>3. CountersBounded'
  <2>1. Gone' = Gone
    BY <1>1, GoneStays DEF ProcState
  <2>2. QED BY <2>1, <1>1 DEF CountersBounded
<1>4. \A d \in Child : /\ proc'[d] \in {"running", "dead"} <=> proc[d] \in {"running", "dead"}
                       /\ proc'[d] = "starting" <=> proc[d] = "starting"
  BY <1>1 DEF Types
<1>5. ProcessesKnown'
  BY <1>1, <1>4 DEF ProcessesKnown, Types
<1>6. CallsHaveChild' /\ NoStrandedCall'
  BY <1>1, <1>4 DEF CallsHaveChild, NoStrandedCall, In
<1>7. SingleStartup'
  BY <1>1, <1>4 DEF SingleStartup, In, Alive, Types
<1>8. OneWorkerUnlessStopped'
  BY <1>1, <1>4 DEF OneWorkerUnlessStopped
<1>9. QED BY <1>2, <1>3, <1>5, <1>6, <1>7, <1>8

LEMMA ExitStep == ASSUME IInv, NEW c \in Child, Exit(c) PROVE IInv'
<1> USE DEF IInv
<1>1. /\ up /\ In("ready") = {} /\ proc[c] = "dead"
      /\ proc' = [proc EXCEPT ![c] = "gone"]
      /\ Reset /\ stopping' = stopping \ {c}
      /\ UNCHANGED <<up, startup, killed, target>>
  BY DEF Exit, Event
<1>2. /\ circuitOpen' \in BOOLEAN
      /\ restartCount' \in Nat /\ restartCount' <= restartCount + 1
      /\ timers' \in Nat /\ timers' <= timers + 1
  <2>1. PICK windowOver \in BOOLEAN :
          IF CircuitRefuses(windowOver)
          THEN UNCHANGED healthVars
          ELSE /\ restartCount' = CountAfterCheck + 1
               /\ circuitOpen' = FALSE
               /\ timers' = timers + 1
    BY DEF Exit
  <2>2. CASE UNCHANGED healthVars
    BY <2>2 DEF healthVars, Types, CountersBounded
  <2>3. CASE restartCount' = CountAfterCheck + 1 /\ circuitOpen' = FALSE /\ timers' = timers + 1
    <3>1. CountAfterCheck \in Nat /\ CountAfterCheck <= restartCount
      BY CheckEffect
    <3>2. restartCount \in Nat /\ timers \in Nat
      BY DEF CountersBounded
    <3>3. /\ restartCount' \in Nat /\ restartCount' <= restartCount + 1
          /\ timers' \in Nat /\ timers' <= timers + 1
      BY <2>3, <3>1, <3>2
    <3>4. circuitOpen' \in BOOLEAN
      BY <2>3
    <3>5. QED BY <3>3, <3>4
  <2>4. QED BY <2>1, <2>2, <2>3
<1>3. /\ phase' \in [Request -> Phase]
      /\ In("pending")' = {} /\ In("ready")' = {}
      /\ In("waiting")' = In("waiting")
      /\ searchWorker' = None
  BY <1>1, ResetCalls
<1>4. Types'
  BY <1>1, <1>2, <1>3 DEF Types, ProcState
<1>5. CountersBounded'
  <2>1. Cardinality(Gone') = Cardinality(Gone) + 1
    BY <1>1, GoneGrows
  <2>2. QED BY <2>1, <1>2, GoneIsFinite DEF CountersBounded
<1>6. ProcessesKnown'
  BY <1>1, <1>3 DEF ProcessesKnown
<1>7. CallsHaveChild' /\ NoStrandedCall'
  BY <1>3 DEF CallsHaveChild, NoStrandedCall
<1>8. SingleStartup'
  BY <1>1, <1>3 DEF SingleStartup, Alive, Types
<1>9. OneWorkerUnlessStopped'
  BY <1>1 DEF OneWorkerUnlessStopped, Types
<1>10. QED BY <1>4, <1>5, <1>6, <1>7, <1>8, <1>9

LEMMA StopTimeoutStep == ASSUME IInv, NEW c \in Child, StopTimeout(c) PROVE IInv'
<1> USE DEF IInv
<1>1. /\ up /\ In("ready") = {} /\ c \in stopping
      /\ Reset /\ stopping' = stopping \ {c}
      /\ UNCHANGED <<up, startup, proc, killed, restartCount, circuitOpen, timers, target>>
  BY DEF StopTimeout, Event, childVars, healthVars
<1>2. /\ phase' \in [Request -> Phase]
      /\ In("pending")' = {} /\ In("ready")' = {}
      /\ In("waiting")' = In("waiting")
      /\ searchWorker' = None
  BY <1>1, ResetCalls
<1>3. Types'
  BY <1>1, <1>2 DEF Types
<1>4. CountersBounded'
  BY <1>1 DEF CountersBounded, Gone
<1>5. ProcessesKnown'
  BY <1>1, <1>2 DEF ProcessesKnown
<1>6. CallsHaveChild' /\ NoStrandedCall'
  BY <1>2 DEF CallsHaveChild, NoStrandedCall
<1>7. SingleStartup'
  BY <1>1, <1>2 DEF SingleStartup, Alive
<1>8. OneWorkerUnlessStopped'
  BY <1>1 DEF OneWorkerUnlessStopped, ProcessesKnown
<1>9. QED BY <1>3, <1>4, <1>5, <1>6, <1>7, <1>8

\* Signalling the current child, or the end of the server.
LEMMA SignalStep ==
    ASSUME IInv, Restart \/ ServerExit
    PROVE  IInv'
<1> USE DEF IInv
<1>1. /\ UNCHANGED <<searchWorker, startup, proc, restartCount, circuitOpen, timers,
                     phase, target>>
      /\ up' \in BOOLEAN /\ (up' => up)
      /\ killed \subseteq killed' /\ killed' \subseteq killed \cup ({searchWorker} \cap Child)
      /\ stopping' \subseteq killed'
  BY SearchAssumption DEF Restart, ServerExit, healthVars, callVars, Alive, Types, ProcessesKnown
<1>2. Types'
  BY <1>1 DEF Types
<1>3. CountersBounded' /\ ProcessesKnown'
  BY <1>1 DEF CountersBounded, Gone, ProcessesKnown
<1>4. CallsHaveChild' /\ NoStrandedCall'
  BY <1>1 DEF CallsHaveChild, NoStrandedCall, In
<1>5. SingleStartup'
  BY <1>1 DEF SingleStartup, In, Alive
<1>6. OneWorkerUnlessStopped'
  BY <1>1 DEF OneWorkerUnlessStopped
<1>7. QED BY <1>2, <1>3, <1>4, <1>5, <1>6

\* A timer, or nothing at all.
LEMMA QuietStep ==
    ASSUME IInv, TimerFires \/ UNCHANGED vars
    PROVE  IInv'
<1> USE DEF IInv
<1>1. /\ UNCHANGED <<up, searchWorker, startup, proc, killed, stopping, restartCount,
                     circuitOpen, phase, target>>
      /\ timers' \in Nat /\ timers' <= timers
  BY DEF TimerFires, vars, childVars, healthVars, callVars, CountersBounded
<1>2. CountersBounded'
  BY <1>1, GoneIsFinite DEF CountersBounded, Gone
<1>3. Types' /\ ProcessesKnown' /\ CallsHaveChild'
  BY <1>1 DEF Types, ProcessesKnown, CallsHaveChild, In
<1>4. NoStrandedCall' /\ SingleStartup' /\ OneWorkerUnlessStopped'
  BY <1>1 DEF NoStrandedCall, SingleStartup, OneWorkerUnlessStopped, In, Alive
<1>5. QED BY <1>2, <1>3, <1>4

LEMMA IStep == IInv /\ [Next]_vars => IInv'
<1> SUFFICES ASSUME IInv, [Next]_vars PROVE IInv'
  OBVIOUS
<1>1. ASSUME NEW r \in Request,
             \/ Refuse(r) \/ UseRunning(r) \/ JoinStartup(r)
             \/ Send(r) \/ Answer(r) \/ Timeout(r)
      PROVE  IInv'
  BY <1>1, CallSteps
<1>2. ASSUME NEW r \in Request, SpawnFor(r) PROVE IInv'
  BY <1>2, SpawnForStep
<1>3. ASSUME NEW c \in Child, Spawned(c) PROVE IInv'
  BY <1>3, SpawnedStep
<1>4. ASSUME NEW c \in Child, SpawnError(c) PROVE IInv'
  BY <1>4, SpawnErrorStep
<1>5. ASSUME NEW c \in Child, Die(c) PROVE IInv'
  BY <1>5, DieStep
<1>6. ASSUME NEW c \in Child, Exit(c) PROVE IInv'
  BY <1>6, ExitStep
<1>7. ASSUME NEW c \in Child, StopTimeout(c) PROVE IInv'
  BY <1>7, StopTimeoutStep
<1>8. CASE Restart \/ ServerExit
  BY <1>8, SignalStep
<1>9. CASE TimerFires \/ UNCHANGED vars
  BY <1>9, QuietStep
<1>10. QED
  BY <1>1, <1>2, <1>3, <1>4, <1>5, <1>6, <1>7, <1>8, <1>9 DEF Next

-----------------------------------------------------------------------------

\* The inductive invariant holds.
THEOREM SearchIInv == Spec => []IInv
BY IInit, IStep, PTL DEF Spec

\* The lifecycle state keeps its types, its counters bounded by the children.
THEOREM SearchTypeOK == Spec => []TypeOK
<1>1. IInv => TypeOK
  BY TypesImplyTypeOK DEF IInv
<1>2. QED BY <1>1, SearchIInv, PTL

\* One startup at most, shared by the waiting calls.
THEOREM SearchSingleStartup == Spec => []SingleStartup
<1>1. IInv => SingleStartup
  BY DEF IInv
<1>2. QED BY <1>1, SearchIInv, PTL

\* No call outlives the child it waits for.
THEOREM SearchNoStrandedCall == Spec => []NoStrandedCall
<1>1. IInv => NoStrandedCall
  BY DEF IInv
<1>2. QED BY <1>1, SearchIInv, PTL

\* Without a stop there is one worker process at most.
THEOREM SearchOneWorkerUnlessStopped == Spec => []OneWorkerUnlessStopped
<1>1. IInv => OneWorkerUnlessStopped
  BY DEF IInv
<1>2. QED BY <1>1, SearchIInv, PTL

----------------------------------------------------------------------------
\* The tools.

\* The steps of the tools that call no worker leave it alone.
LEMMA OwnSteps ==
    ASSUME NEW r \in Request,
           \/ \E k \in Kinds : CallHidden(r, k)
           \/ CallRebuild(r) \/ WorkerAnswers(r) \/ WorkerFails(r)
           \/ SearchOnce(r) \/ OnceEnds(r) \/ OnceTimesOut(r)
           \/ RefineRecords(r) \/ ModelReplies(r) \/ ModelFails(r)
           \/ \E how \in {"done", "failed", "signalled"} : RebuildEnds(r, how)
    PROVE  UNCHANGED vars
  BY DEF CallHidden, CallRebuild, WorkerAnswers, WorkerFails, SearchOnce, OnceEnds, OnceTimesOut,
         RefineRecords, ModelReplies, ModelFails, RebuildEnds

\* A step of the tools is a step of the worker or none at all.
LEMMA ToolStep == [ToolNext]_allVars => [Next]_vars
<1> SUFFICES ASSUME [ToolNext]_allVars PROVE Next \/ UNCHANGED vars
  OBVIOUS
<1>1. CASE WorkerStep
  BY <1>1 DEF WorkerStep, Next
<1>2. ASSUME NEW r \in Request, NEW k \in Kinds, CallWorker(r, k) PROVE Next
  BY <1>2 DEF CallWorker, Next
<1>3. CASE UNCHANGED allVars
  BY <1>3 DEF allVars
<1> QED
  BY <1>1, <1>2, <1>3, OwnSteps DEF ToolNext

\* omni-handlers.js and the handlers reach the worker through
\* requestSearchWorker only: they implement what SearchWorker specifies.
THEOREM ToolsImplementWorker == ToolSpec => Spec
<1>1. ToolInit => Init
  BY DEF ToolInit
<1> QED
  BY <1>1, ToolStep, PTL DEF ToolSpec, Spec

\* Under every tool, too, a call in the table waits for a child whose end
\* rejects it.
THEOREM ToolsNoStrandedCall == ToolSpec => []NoStrandedCall
  BY ToolsImplementWorker, SearchNoStrandedCall, PTL
-----------------------------------------------------------------------------
(* What a refinement returns. *)

WereAsked(ids) ==
    /\ ids \in Seq(STRING) /\ Len(ids) <= MaxResults
    /\ \A i \in DOMAIN ids : \E j \in DOMAIN Asked : Asked[j] = ids[i]

LEMMA FirstsAsked ==
    ASSUME NEW ids \in Seq(STRING), \A i \in DOMAIN ids : \E j \in DOMAIN Asked : Asked[j] = ids[i]
    PROVE  WereAsked(Firsts(ids))
<1> DEFINE n == Len(ids)
           cut == IF n < MaxResults THEN n ELSE MaxResults
           firsts == SubSeq(ids, 1, cut)
<1>1. n \in Nat /\ MaxResults \in Nat /\ DOMAIN ids = 1..n /\ \A i \in 1..n : ids[i] \in STRING
  BY ToolAssumption
<1>2. Firsts(ids) = firsts
  BY DEF Firsts
<1> HIDE DEF n
<1>3. cut \in 0..n /\ cut <= MaxResults
  BY <1>1
<1> HIDE DEF cut
<1>4. firsts \in Seq(STRING) /\ Len(firsts) = cut /\ \A i \in 1..cut : firsts[i] = ids[i]
  BY <1>1, <1>3, SubSeqProperties
<1> HIDE DEF firsts
<1>5. DOMAIN firsts = 1..cut /\ \A i \in 1..cut : i \in DOMAIN ids
  BY <1>1, <1>3, <1>4
<1> QED
  BY <1>2, <1>3, <1>4, <1>5 DEF WereAsked

LEMMA EachWasAsked ==
    /\ WereAsked(<<>>) /\ WereAsked(Firsts(Asked))
    /\ \A reply \in Replies : WereAsked(ValidSelection(reply))
<1>1. WereAsked(<<>>)
  <2>1. <<>> \in Seq(STRING) /\ Len(<<>>) = 0 /\ DOMAIN <<>> = {} /\ MaxResults \in Nat
    BY ToolAssumption
  <2> QED
    BY <2>1 DEF WereAsked
<1>2. WereAsked(Firsts(Asked))
  BY ToolAssumption, FirstsAsked
<1>3. ASSUME NEW reply \in Replies PROVE WereAsked(ValidSelection(reply))
  <2> DEFINE n == Len(reply)
             P == {i \in DOMAIN reply : \E j \in DOMAIN Asked : Asked[j] = reply[i]}
             valid == Subsequence(reply, P)
             m == Cardinality(P)
  <2>1. reply \in Seq(STRING) /\ n \in Nat /\ DOMAIN reply = 1..n
    BY ToolAssumption
  <2>2. P \in SUBSET (1..n) /\ \A i \in P : reply[i] \in STRING /\ \E j \in DOMAIN Asked : Asked[j] = reply[i]
    BY <2>1
  <2>3. ValidSelection(reply) = Firsts(valid)
    BY DEF ValidSelection, Filter
  <2> HIDE DEF P, n
  <2>4. valid \in Seq(STRING) /\ Len(valid) = m
    BY <2>1, <2>2, SubsequenceTyped
  <2>5. m \in Nat /\ \A k \in 1..m : Place(P, k) \in P
    BY <2>1, <2>2, SubsequencePlaces
  <2>7. valid = [k \in 1..m |-> reply[Place(P, k)]]
    BY DEF Subsequence
  <2> HIDE DEF m, valid
  <2>6. \A i \in DOMAIN valid : \E j \in DOMAIN Asked : Asked[j] = valid[i]
    BY <2>2, <2>5, <2>7
  <2> QED
    BY <2>3, <2>4, <2>6, FirstsAsked
<1> QED
  BY <1>1, <1>2, <1>3

SelectedInv == selected \in [Request -> Seq(STRING)] /\ \A r \in Request : WereAsked(selected[r])

LEMMA SelectedStep ==
    ASSUME SelectedInv, [ToolNext]_allVars
    PROVE  SelectedInv'
<1>1. ASSUME NEW r \in Request, NEW how, NEW ids, Returns(r, how, ids), WereAsked(ids) PROVE SelectedInv'
  <2>1. ids \in Seq(STRING) /\ selected' = [selected EXCEPT ![r] = ids]
    BY <1>1 DEF Returns, WereAsked
  <2>2. selected' \in [Request -> Seq(STRING)] /\ \A q \in Request : WereAsked(selected'[q])
    BY <1>1, <2>1 DEF SelectedInv
  <2> QED
    BY <2>2 DEF SelectedInv, WereAsked
<1>2. CASE UNCHANGED selected
  BY <1>2 DEF SelectedInv, WereAsked
<1>3. CASE WorkerStep
  BY <1>2, <1>3 DEF WorkerStep, toolVars
<1>4. ASSUME NEW r \in Request, NEW k \in Kinds, CallWorker(r, k) \/ CallHidden(r, k) PROVE SelectedInv'
  BY <1>1, <1>2, <1>4, EachWasAsked DEF CallWorker, CallHidden
<1>5. ASSUME NEW r \in Request, CallRebuild(r) \/ SearchOnce(r) PROVE SelectedInv'
  BY <1>2, <1>5 DEF CallRebuild, SearchOnce
<1>6. ASSUME NEW r \in Request,
             WorkerAnswers(r) \/ WorkerFails(r) \/ OnceEnds(r) \/ OnceTimesOut(r) \/ RefineRecords(r) \/ ModelFails(r)
      PROVE  SelectedInv'
  BY <1>1, <1>2, <1>6, EachWasAsked
  DEF WorkerAnswers, WorkerFails, OnceEnds, OnceTimesOut, RefineRecords, ModelFails
<1>7. ASSUME NEW r \in Request, ModelReplies(r) PROVE SelectedInv'
  <2>1. PICK reply \in Replies : Returns(r, "degraded", Firsts(Asked)) \/ Returns(r, "ok", ValidSelection(reply))
    BY <1>7 DEF ModelReplies
  <2> QED
    BY <1>1, <2>1, EachWasAsked
<1>8. ASSUME NEW r \in Request, NEW how, RebuildEnds(r, how) PROVE SelectedInv'
  BY <1>1, <1>8, EachWasAsked DEF RebuildEnds
<1>9. CASE UNCHANGED allVars
  BY <1>2, <1>9 DEF allVars, toolVars
<1> QED
  BY <1>3, <1>4, <1>5, <1>6, <1>7, <1>8, <1>9 DEF ToolNext

\* handleRefineMemorySelection returns ids that were asked about, as many as
\* were asked for at most, whatever a language model names.
THEOREM RefinementsWereAsked == ToolSpec => []ChosenWereAsked
<1>1. ToolInit => SelectedInv
  <2> SUFFICES ASSUME ToolInit PROVE SelectedInv
    OBVIOUS
  <2>1. selected = [r \in Request |-> <<>>] /\ <<>> \in Seq(STRING)
    BY EmptySeq DEF ToolInit
  <2> QED
    BY <2>1, EachWasAsked DEF SelectedInv
<1>2. SelectedInv /\ [ToolNext]_allVars => SelectedInv'
  BY SelectedStep
<1>3. SelectedInv => ChosenWereAsked
  BY DEF SelectedInv, WereAsked, ChosenWereAsked
<1> QED
  BY <1>1, <1>2, <1>3, PTL DEF ToolSpec

----------------------------------------------------------------------------
(* The search server: what its caches know of the files. *)

\* Version v of f had not been replaced one MemoTTL before t.
Shown(f, v, t) == v \in 1..Version(f) /\ (v < Version(f) => t - MemoTTL < disk[f][v + 1])

DiskOK ==
    /\ now \in Nat /\ disk \in [File -> Seq(Nat)]
    /\ \A f \in File :
          /\ Len(disk[f]) # 0
          /\ \A i, j \in 1..Len(disk[f]) : i <= j => disk[f][i] <= disk[f][j]
          /\ \A i \in 1..Len(disk[f]) : disk[f][i] <= now

\* A stamp was taken when the version was there, not longer than a MemoTTL ago.
MemoOf(f, m) ==
    /\ m.stamp \in 1..Version(f) /\ m.at \in 0..now /\ now < m.at + MemoTTL
    /\ m.stamp < Version(f) => m.at <= disk[f][m.stamp + 1]
MemoOK == /\ memo = [f \in File |-> memo[f]]
          /\ \A f \in File : memo[f] # Nothing => MemoOf(f, memo[f])

\* The entries are at least as new as the stamp they go by, and a result as the
\* stamps in its key.
EntriesOK ==
    entries.data # Nothing =>
        /\ entries.sig \in 1..Version("structured")
        /\ entries.data.version \in entries.sig..Version("structured")
ResultOf(k, r) ==
    /\ k[1] \in 1..Version("structured") /\ k[2] \in 1..Version("embeddings")
    /\ r.data.version \in k[1]..Version("structured") /\ r.index \in k[2]..Version("embeddings")
ResultsOK == \A k \in DOMAIN results : ResultOf(k, results[k])

\* A request has the stamps of when it came, and, once they are loaded, entries
\* that are as new, and fresh.
RequestOK ==
    /\ request.at \in {"idle", "load", "dense", "open"}
    /\ request.at # "idle" =>
          /\ request = [at |-> request.at, key |-> request.key, asked |-> request.asked, since |-> request.since]
          /\ request.asked \in 0..now
          /\ request.key[1] \in 1..Version("structured") /\ request.key[2] \in 1..Version("embeddings")
    /\ request.at = "load" /\ memo["structured"] # Nothing => request.key[1] <= memo["structured"].stamp
    /\ request.at \in {"dense", "open"} =>
          /\ entries.data.version \in request.key[1]..Version("structured")
          /\ Shown("structured", entries.data.version, request.asked)

FreshInv == DiskOK /\ MemoOK /\ EntriesOK /\ ResultsOK /\ RequestOK

LEMMA FreshInit == ServerInit => FreshInv /\ Freshness
<1> SUFFICES ASSUME ServerInit PROVE FreshInv /\ Freshness
  OBVIOUS
<1>1. <<0>> \in Seq(Nat) /\ Len(<<0>>) = 1 /\ <<0>>[1] = 0
  OBVIOUS
<1>2. DiskOK
  BY <1>1 DEF DiskOK, ServerInit
<1>3. MemoOK /\ EntriesOK /\ ResultsOK /\ RequestOK /\ Freshness
  BY DEF MemoOK, EntriesOK, ResultsOK, RequestOK, Freshness, ServerInit, NoResults
<1> QED
  BY <1>2, <1>3 DEF FreshInv

\* What is newer is shown as well, and at an earlier time.
LEMMA ShownAlso ==
    ASSUME DiskOK, NEW f \in File, NEW v, NEW t \in Nat, Shown(f, v, t),
           NEW w \in v..Version(f), NEW u \in 0..t
    PROVE  Shown(f, w, u)
<1>1. disk[f] \in Seq(Nat) /\ Version(f) \in Nat /\ v \in 1..Version(f) /\ MemoTTL \in Nat
  BY ServerAssumption DEF DiskOK, Version, Shown
<1>2. ASSUME w < Version(f) PROVE u - MemoTTL < disk[f][w + 1]
  <2>1. v + 1 \in 1..Version(f) /\ w + 1 \in 1..Version(f) /\ v + 1 <= w + 1 /\ v < Version(f)
    BY <1>1, <1>2
  <2>2. disk[f][v + 1] <= disk[f][w + 1] /\ disk[f][v + 1] \in Nat /\ disk[f][w + 1] \in Nat
    BY <1>1, <2>1 DEF DiskOK, Version
  <2>3. t - MemoTTL < disk[f][v + 1]
    BY <2>1 DEF Shown
  <2> DEFINE a == disk[f][v + 1]
             b == disk[f][w + 1]
  <2>4. a <= b /\ a \in Nat /\ b \in Nat /\ t - MemoTTL < a
    BY <2>2, <2>3
  <2> HIDE DEF a, b
  <2>5. u - MemoTTL < b
    BY <1>1, <2>4
  <2> QED
    BY <2>5 DEF b
<1> QED
  BY <1>1, <1>2 DEF Shown

\* The stamp in use is of a version that is shown now, and so stays a memo of it.
LEMMA StampIs ==
    ASSUME FreshInv, NEW f \in File
    PROVE  MemoOf(f, Memoized(f)) /\ Sig(f) \in 1..Version(f) /\ Shown(f, Sig(f), now)
<1>1. disk[f] \in Seq(Nat) /\ Version(f) \in Nat \ {0} /\ now \in Nat /\ MemoTTL \in Nat \ {0}
  BY ServerAssumption DEF FreshInv, DiskOK, Version
<1>2. MemoOf(f, Memoized(f))
  <2>1. CASE memo[f] # Nothing
    BY <2>1 DEF FreshInv, MemoOK, Memoized
  <2>2. CASE memo[f] = Nothing
    BY <1>1, <2>2 DEF MemoOf, Memoized
  <2> QED
    BY <2>1, <2>2
<1> DEFINE m == Memoized(f)
<1>3. m.stamp < Version(f) => now - MemoTTL < disk[f][m.stamp + 1]
  <2>1. ASSUME m.stamp < Version(f) PROVE now - MemoTTL < disk[f][m.stamp + 1]
    <3>1. m.stamp + 1 \in 1..Version(f) /\ m.at \in Nat /\ now < m.at + MemoTTL /\ m.at <= disk[f][m.stamp + 1]
      BY <1>1, <1>2, <2>1 DEF MemoOf
    <3>2. disk[f][m.stamp + 1] \in Nat
      BY <1>1, <3>1 DEF Version
    <3> HIDE DEF m
    <3> QED
      BY <1>1, <3>1, <3>2
  <2> QED
    BY <2>1
<1> QED
  BY <1>2, <1>3 DEF Sig, Shown, MemoOf

\* Taking the stamps.
LEMMA SignIs ==
    ASSUME FreshInv, UNCHANGED <<now, disk>>, Sign
    PROVE  MemoOK' /\ memo'["structured"].stamp = Sig("structured")
<1>1. memo' = [f \in File |-> Memoized(f)]
  BY DEF Sign
<1>2. memo' = [f \in File |-> memo'[f]]
  BY <1>1
<1>3. ASSUME NEW f \in File PROVE MemoOf(f, memo[f])'
  <2>1. MemoOf(f, memo'[f])
    BY <1>1, StampIs
  <2>2. now' = now /\ disk' = disk
    OBVIOUS
  <2> HIDE DEF Sign
  <2> QED
    BY <2>1, <2>2 DEF MemoOf, Version
<1>4. MemoOK'
  BY <1>2, <1>3 DEF MemoOK
<1> QED
  BY <1>1, <1>4 DEF Sig, File

\* Loading the entries.
LEMMA EntriesAre ==
    ASSUME FreshInv, UNCHANGED <<now, disk>>, LoadEntries
    PROVE  /\ EntriesOK' /\ ResultsOK'
           /\ entries'.data.version \in Sig("structured")..Version("structured")
           /\ Shown("structured", entries'.data.version, now)
<1>0. "structured" \in File
  BY DEF File
<1>1. Sig("structured") \in 1..Version("structured") /\ Shown("structured", Sig("structured"), now)
  BY <1>0, StampIs
<1>2. Version("structured") \in Nat /\ now \in Nat
  BY <1>0 DEF FreshInv, DiskOK, Version
<1>3. CASE entries.data # Nothing /\ entries.sig = Sig("structured") /\ UNCHANGED <<entries, results>>
  <2>1. EntriesOK' /\ ResultsOK'
    BY <1>3 DEF FreshInv, EntriesOK, ResultsOK, ResultOf, Version
  <2>2. entries'.data.version \in Sig("structured")..Version("structured")
    BY <1>3 DEF FreshInv, EntriesOK
  <2> QED
    BY <1>0, <1>1, <1>2, <2>1, <2>2, ShownAlso DEF FreshInv
<1>4. CASE entries' = [sig |-> Sig("structured"), data |-> Read] /\ Invalidate
  <2>1. entries'.data.version = Version("structured") /\ entries'.sig = Sig("structured")
    BY <1>4 DEF Read
  <2>2. EntriesOK' /\ ResultsOK'
    BY <1>1, <1>2, <1>4, <2>1 DEF EntriesOK, ResultsOK, Invalidate, NoResults, Version
  <2> QED
    BY <1>0, <1>1, <1>2, <2>1, <2>2, ShownAlso DEF FreshInv
<1> QED
  BY <1>3, <1>4 DEF LoadEntries

\* A result is added to those there are, of which only some may be left.
LEMMA StoredIs ==
    ASSUME NEW cache, NEW k, NEW r
    PROVE  LET s == Stored(cache, k, r)
           IN  DOMAIN s \subseteq DOMAIN cache \cup {k} /\ \A j \in DOMAIN s : s[j] = IF j = k THEN r ELSE cache[j]
  BY DEF Stored, Pruned

\* An answer that shows what was shown when it was asked for is fresh.
LEMMA ShownIsFresh ==
    ASSUME DiskOK, disk' = disk,
           answer' # Nothing => /\ answer'.asked \in Nat
                                /\ Shown("structured", answer'.data.version, answer'.asked)
                                /\ Shown("embeddings", answer'.index, answer'.asked)
    PROVE  Freshness'
<1>1. ASSUME NEW f \in File, NEW v, answer' # Nothing, Shown(f, v, answer'.asked), answer'.asked \in Nat
      PROVE  ~(v < Version(f) /\ disk[f][v + 1] <= answer'.asked - MemoTTL)
  <2> SUFFICES ASSUME v < Version(f), disk[f][v + 1] <= answer'.asked - MemoTTL PROVE FALSE
    OBVIOUS
  <2>1. disk[f] \in Seq(Nat) /\ Version(f) \in Nat /\ v \in 1..Version(f) /\ MemoTTL \in Nat
    BY <1>1, ServerAssumption DEF DiskOK, Version, Shown
  <2>2. v + 1 \in 1..Len(disk[f])
    BY <2>1 DEF Version
  <2> DEFINE a == disk[f][v + 1]
             t == answer'.asked
  <2>3. a \in Nat /\ t \in Nat /\ t - MemoTTL < a /\ a <= t - MemoTTL
    BY <1>1, <2>1, <2>2 DEF Shown
  <2> HIDE DEF a, t
  <2> QED
    BY <2>1, <2>3
<1> QED
  BY <1>1 DEF Freshness, Overlooked, Version, File

\* What there is now is shown.
LEMMA LatestIsShown ==
    ASSUME DiskOK, NEW f \in File, NEW t
    PROVE  Shown(f, Version(f), t)
<1>1. Version(f) \in Nat \ {0}
  BY DEF DiskOK, Version
<1> QED
  BY <1>1 DEF Shown

LEMMA SearchFresh ==
    ASSUME FreshInv, Search
    PROVE  FreshInv' /\ Freshness'
<1>1. now' = now /\ disk' = disk /\ entries' = entries /\ Sign /\ request.at = "idle"
  BY DEF Search, files
<1>2. DiskOK' /\ EntriesOK' /\ MemoOK' /\ memo'["structured"].stamp = Sig("structured")
  BY <1>1, SignIs DEF FreshInv, DiskOK, EntriesOK, Version
<1>3. /\ Version("structured") \in Nat /\ Version("embeddings") \in Nat /\ now \in Nat
      /\ Sig("structured") \in 1..Version("structured") /\ Shown("structured", Sig("structured"), now)
      /\ Sig("embeddings") \in 1..Version("embeddings") /\ Shown("embeddings", Sig("embeddings"), now)
  BY StampIs DEF FreshInv, DiskOK, Version, File
<1> DEFINE k == Key(Sig("structured"), Sig("embeddings"))
<1>4. k = <<Sig("structured"), Sig("embeddings")>>
  BY DEF Key
<1>5. CASE /\ k \in DOMAIN results /\ results' = results /\ request' = request
           /\ answer'.data = results[k].data /\ answer'.index = results[k].index /\ answer'.asked = now
  <2>1. ResultOf(k, results[k])
    BY <1>5 DEF FreshInv, ResultsOK
  <2>2. /\ results[k].data.version \in Sig("structured")..Version("structured")
        /\ results[k].index \in Sig("embeddings")..Version("embeddings")
    BY <1>4, <2>1 DEF ResultOf
  <2>3. /\ Shown("structured", results[k].data.version, now)
        /\ Shown("embeddings", results[k].index, now)
    BY <1>3, <2>2, ShownAlso DEF FreshInv, File
  <2>4. Freshness'
    BY <1>1, <1>3, <1>5, <2>3, ShownIsFresh DEF FreshInv
  <2>5. ResultsOK' /\ RequestOK'
    BY <1>1, <1>5 DEF FreshInv, ResultsOK, ResultOf, RequestOK, Version
  <2> QED
    BY <1>2, <2>4, <2>5 DEF FreshInv
<1>6. CASE /\ request' = [at |-> "load", key |-> k, asked |-> now, since |-> now]
           /\ answer' = Nothing /\ results' = results
  <2>1. ResultsOK'
    BY <1>1, <1>6 DEF FreshInv, ResultsOK, ResultOf, Version
  <2>2. RequestOK'
    BY <1>1, <1>2, <1>3, <1>4, <1>6 DEF RequestOK, Version
  <2> QED
    BY <1>2, <1>6, <2>1, <2>2 DEF FreshInv, Freshness
<1> QED
  BY <1>5, <1>6 DEF Search, Hit

LEMMA LoadFresh ==
    ASSUME FreshInv, Load
    PROVE  FreshInv' /\ Freshness'
<1>1. /\ now' = now /\ disk' = disk /\ Sign /\ LoadEntries /\ request.at = "load" /\ answer' = Nothing
      /\ request' = [request EXCEPT !.at = IF Admits THEN "dense" ELSE "open", !.since = now]
  BY DEF Load, files
<1>2. DiskOK' /\ EntriesOK' /\ ResultsOK' /\ MemoOK'
  BY <1>1, SignIs, EntriesAre DEF FreshInv, DiskOK
<1> DEFINE v == entries'.data.version
<1>3. /\ Sig("structured") \in 1..Version("structured") /\ Version("structured") \in Nat /\ now \in Nat
      /\ v \in Sig("structured")..Version("structured") /\ Shown("structured", v, now)
  BY <1>1, StampIs, EntriesAre DEF FreshInv, DiskOK, Version, File
<1>4. /\ request = [at |-> "load", key |-> request.key, asked |-> request.asked, since |-> request.since]
      /\ request.asked \in 0..now
      /\ request.key[1] \in 1..Version("structured") /\ request.key[2] \in 1..Version("embeddings")
  BY <1>1 DEF FreshInv, RequestOK
<1>5. request.key[1] <= Sig("structured")
  BY <1>1, <1>3, <1>4 DEF FreshInv, RequestOK, Sig, Memoized
<1>6. v \in request.key[1]..Version("structured")
  <2> DEFINE s == Sig("structured")
             n == Version("structured")
             w == request.key[1]
  <2>1. v \in s..n /\ s \in 1..n /\ n \in Nat /\ w \in 1..n /\ w <= s
    BY <1>3, <1>4, <1>5
  <2> HIDE DEF v, s, n, w
  <2>2. v \in w..n
    BY <2>1
  <2> QED
    BY <2>2 DEF n, w
<1>7. Shown("structured", v, request.asked)
  <2>1. "structured" \in File /\ v \in v..Version("structured")
    BY <1>3 DEF File
  <2> HIDE DEF v
  <2> QED
    BY <1>3, <1>4, <2>1, ShownAlso DEF FreshInv
<1>8. PICK to \in {"dense", "open"} :
         request' = [at |-> to, key |-> request.key, asked |-> request.asked, since |-> now]
  BY <1>1, <1>4
<1>9. RequestOK'
  BY <1>1, <1>4, <1>6, <1>7, <1>8 DEF RequestOK, Shown, Version
<1> QED
  BY <1>1, <1>2, <1>9 DEF FreshInv, Freshness

LEMMA FinishFresh ==
    ASSUME FreshInv, request.at \in {"dense", "open"}, NEW fallback, NEW kept, Finish(fallback, kept)
    PROVE  FreshInv' /\ Freshness'
<1> DEFINE r == [at |-> now, data |-> entries.data, index |-> Version("embeddings"), fallback |-> fallback]
           old == IF Outdated THEN NoResults ELSE results
<1>1. /\ now' = now /\ disk' = disk /\ entries' = entries /\ Sign
      /\ results' = Stored(old, request.key, r) /\ request' = [at |-> "idle"]
      /\ answer'.data = entries.data /\ answer'.index = Version("embeddings") /\ answer'.asked = request.asked
  BY DEF Finish, files
<1>2. DiskOK' /\ EntriesOK' /\ MemoOK' /\ RequestOK'
  BY <1>1, SignIs DEF FreshInv, DiskOK, EntriesOK, RequestOK, Version
<1>3. /\ Version("embeddings") \in Nat /\ request.asked \in Nat
      /\ request.key[1] \in 1..Version("structured") /\ request.key[2] \in 1..Version("embeddings")
      /\ entries.data.version \in request.key[1]..Version("structured")
      /\ Shown("structured", entries.data.version, request.asked)
  BY DEF FreshInv, DiskOK, RequestOK, Version, File
<1>4. Freshness'
  BY <1>1, <1>3, LatestIsShown, ShownIsFresh DEF FreshInv, File
<1>5. ResultOf(request.key, r)
  BY <1>3 DEF ResultOf
<1>6. \A k \in DOMAIN old : ResultOf(k, old[k])
  BY DEF FreshInv, ResultsOK, NoResults
<1>7. \A k \in DOMAIN results' : ResultOf(k, results'[k])
  <2> HIDE DEF r, old
  <2> QED
    BY <1>1, <1>5, <1>6, StoredIs
<1>8. ResultsOK'
  BY <1>1, <1>7 DEF ResultsOK, ResultOf, Version
<1> QED
  BY <1>2, <1>4, <1>8 DEF FreshInv

LEMMA RecordsFresh ==
    ASSUME FreshInv, GetRecords
    PROVE  FreshInv' /\ Freshness'
<1>1. /\ now' = now /\ disk' = disk /\ LoadEntries /\ request' = request
      /\ memo' = [memo EXCEPT !["structured"] = Memoized("structured")] /\ request.at = "idle"
      /\ answer'.data = entries'.data /\ answer'.index = Version("embeddings") /\ answer'.asked = now
  BY DEF GetRecords, files
<1>2. DiskOK' /\ EntriesOK' /\ ResultsOK' /\ RequestOK'
  BY <1>1, EntriesAre DEF FreshInv, DiskOK, RequestOK, Version
<1>3. MemoOK'
  <2>1. memo' = [f \in File |-> memo'[f]]
    BY <1>1 DEF FreshInv, MemoOK
  <2>2. ASSUME NEW f \in File, memo'[f] # Nothing PROVE MemoOf(f, memo[f])'
    <3>1. MemoOf(f, memo'[f])
      BY <1>1, <2>2, StampIs DEF FreshInv, MemoOK
    <3> QED
      BY <1>1, <3>1 DEF MemoOf, Version
  <2> QED
    BY <2>1, <2>2 DEF MemoOK
<1>4. now \in Nat /\ Shown("structured", entries'.data.version, now)
  BY <1>1, EntriesAre DEF FreshInv, DiskOK
<1>5. Freshness'
  BY <1>1, <1>4, LatestIsShown, ShownIsFresh DEF FreshInv, File
<1> QED
  BY <1>2, <1>3, <1>5 DEF FreshInv

LEMMA ClearFresh ==
    ASSUME FreshInv, Health \/ \E all \in BOOLEAN : ClearCache(all)
    PROVE  FreshInv' /\ Freshness'
<1>1. /\ now' = now /\ disk' = disk /\ Sign /\ request' = request /\ request.at = "idle" /\ answer' = Nothing
      /\ entries' = entries \/ entries' = [sig |-> Nothing, data |-> Nothing]
      /\ results' = results \/ results' = NoResults
  BY DEF Health, ClearCache, files, caches
<1>2. DiskOK' /\ MemoOK' /\ RequestOK'
  BY <1>1, SignIs DEF FreshInv, DiskOK, RequestOK
<1>3. EntriesOK' /\ ResultsOK'
  BY <1>1 DEF FreshInv, EntriesOK, ResultsOK, ResultOf, NoResults, Version
<1> QED
  BY <1>1, <1>2, <1>3 DEF FreshInv, Freshness

LEMMA TickFresh ==
    ASSUME FreshInv, Tick
    PROVE  FreshInv' /\ Freshness'
<1>1. /\ now' = now + 1 /\ disk' = disk /\ entries' = entries /\ request' = request /\ answer' = Nothing
      /\ memo' = [f \in File |-> IF memo[f] # Nothing /\ now' - memo[f].at < MemoTTL THEN memo[f] ELSE Nothing]
      /\ results' = [k \in {k \in DOMAIN results : now' - results[k].at < ResultTTL} |-> results[k]]
  BY DEF Tick
<1>2. now \in Nat /\ MemoTTL \in Nat
  BY ServerAssumption DEF FreshInv, DiskOK
<1>3. DiskOK'
  <2>1. \A f \in File : \A i \in 1..Len(disk[f]) : disk[f][i] \in Nat /\ disk[f][i] <= now
    BY DEF FreshInv, DiskOK
  <2>2. \A f \in File : \A i \in 1..Len(disk[f]) : disk[f][i] <= now + 1
    BY <1>2, <2>1
  <2> QED
    BY <1>1, <1>2, <2>2 DEF FreshInv, DiskOK
<1>4. MemoOK'
  <2>1. memo' = [f \in File |-> memo'[f]]
    BY <1>1
  <2>2. ASSUME NEW f \in File, memo'[f] # Nothing PROVE MemoOf(f, memo[f])'
    <3> DEFINE m == memo[f]
    <3>1. memo'[f] = m /\ m # Nothing /\ now' - m.at < MemoTTL
      BY <1>1, <2>2
    <3>2. MemoOf(f, m)
      BY <3>1 DEF FreshInv, MemoOK
    <3>3. m.at \in 0..now' /\ now' < m.at + MemoTTL
      BY <1>1, <1>2, <3>1, <3>2 DEF MemoOf
    <3> QED
      BY <1>1, <3>1, <3>2, <3>3 DEF MemoOf, Version
  <2> QED
    BY <2>1, <2>2 DEF MemoOK
<1>5. EntriesOK' /\ ResultsOK'
  BY <1>1 DEF FreshInv, EntriesOK, ResultsOK, ResultOf, Version
<1>6. RequestOK'
  <2>1. request.at # "idle" => request.asked \in 0..now'
    BY <1>1, <1>2 DEF FreshInv, RequestOK
  <2>2. memo'["structured"] # Nothing => memo'["structured"] = memo["structured"]
    BY <1>1 DEF File
  <2> QED
    BY <1>1, <2>1, <2>2 DEF FreshInv, RequestOK, Version, Shown
<1> QED
  BY <1>1, <1>3, <1>4, <1>5, <1>6 DEF FreshInv, Freshness
\* A version that is replaced was replaced now.
LEMMA ReplacedIs ==
    ASSUME FreshInv, NEW f \in File, Replace(f), NEW g \in File
    PROVE  /\ Version(g) \in Nat /\ Version(g)' \in Version(g)..(Version(g) + 1)
           /\ disk'[g] \in Seq(Nat)
           /\ \A i \in 1..Version(g)' : disk'[g][i] = IF i <= Version(g) THEN disk[g][i] ELSE now
<1>1. disk[g] \in Seq(Nat) /\ now \in Nat /\ disk \in [File -> Seq(Nat)] /\ disk' = [disk EXCEPT ![f] = Append(@, now)]
  BY DEF FreshInv, DiskOK, Replace
<1>2. CASE g = f
  <2>1. disk'[g] = Append(disk[g], now)
    BY <1>1, <1>2
  <2>2. disk'[g] \in Seq(Nat) /\ Len(disk'[g]) = Len(disk[g]) + 1
    BY <1>1, <2>1
  <2>3. \A i \in 1..Len(disk'[g]) : disk'[g][i] = IF i <= Len(disk[g]) THEN disk[g][i] ELSE now
    BY <1>1, <2>1
  <2> QED
    BY <1>1, <2>2, <2>3 DEF Version
<1>3. CASE g # f
  BY <1>1, <1>3 DEF Version
<1> QED
  BY <1>2, <1>3

LEMMA ReplaceFresh ==
    ASSUME FreshInv, NEW f \in File, Replace(f)
    PROVE  FreshInv' /\ Freshness'
<1>1. /\ now' = now /\ entries' = entries /\ request' = request /\ answer' = Nothing
      /\ memo' = memo /\ results' = results /\ now \in Nat /\ MemoTTL \in Nat \ {0}
  BY ServerAssumption DEF FreshInv, DiskOK, Replace, caches
<1>2. \A g \in File : /\ Version(g) \in Nat \ {0} /\ disk[g] \in Seq(Nat)
                      /\ \A i, j \in 1..Version(g) : i <= j => disk[g][i] <= disk[g][j]
                      /\ \A i \in 1..Version(g) : disk[g][i] <= now
  BY DEF FreshInv, DiskOK, Version
<1>3. DiskOK'
  <2>1. disk' \in [File -> Seq(Nat)]
    BY <1>1 DEF FreshInv, DiskOK, Replace
  <2>2. ASSUME NEW g \in File
        PROVE  /\ Version(g)' # 0
               /\ \A i, j \in 1..Version(g)' : i <= j => disk'[g][i] <= disk'[g][j]
               /\ \A i \in 1..Version(g)' : disk'[g][i] <= now
    <3>1. Version(g)' \in Nat /\ Version(g)' # 0
      BY <1>2, ReplacedIs
    <3>2. \A i \in 1..Version(g)' : disk'[g][i] = IF i <= Version(g) THEN disk[g][i] ELSE now
      BY ReplacedIs
    <3>3. \A i \in 1..Version(g)' : disk'[g][i] <= now
      BY <1>1, <1>2, <3>1, <3>2
    <3>4. \A i, j \in 1..Version(g)' : i <= j => disk'[g][i] <= disk'[g][j]
      BY <1>1, <1>2, <3>1, <3>2, <3>3
    <3> QED
      BY <3>1, <3>3, <3>4
  <2> QED
    BY <1>1, <2>1, <2>2 DEF DiskOK, Version
<1>4. \A g \in File : 1..Version(g) \subseteq 1..Version(g)'
  BY <1>2, ReplacedIs
<1>5. \A g \in File : \A v, u : v \in u..Version(g) => v \in u..Version(g)'
  BY ReplacedIs
<1>6. MemoOK'
  <2>1. ASSUME NEW g \in File, memo[g] # Nothing PROVE MemoOf(g, memo[g])'
    <3> DEFINE m == memo[g]
    <3>1. MemoOf(g, m)
      BY <2>1 DEF FreshInv, MemoOK
    <3>2. m.stamp \in 1..Version(g)' /\ m.at \in 0..now
      BY <1>4, <3>1 DEF MemoOf
    <3>3. ASSUME m.stamp < Version(g)' PROVE m.at <= disk'[g][m.stamp + 1]
      <4>1. m.stamp + 1 \in 1..Version(g)'
        BY <3>2, <3>3, ReplacedIs
      <4>2. disk'[g][m.stamp + 1] = IF m.stamp + 1 <= Version(g) THEN disk[g][m.stamp + 1] ELSE now
        BY <4>1, ReplacedIs
      <4>3. CASE m.stamp + 1 <= Version(g)
        BY <1>2, <3>1, <4>2, <4>3 DEF MemoOf
      <4>4. CASE ~(m.stamp + 1 <= Version(g))
        BY <1>1, <3>2, <4>2, <4>4
      <4> QED
        BY <4>3, <4>4
    <3> QED
      BY <1>1, <3>1, <3>2, <3>3 DEF MemoOf, Version
  <2> QED
    BY <1>1, <2>1 DEF FreshInv, MemoOK
<1>7. EntriesOK' /\ ResultsOK'
  <2>1. Version("structured") \in Nat /\ "structured" \in File /\ "embeddings" \in File
    BY <1>2 DEF File
  <2>2. EntriesOK'
    BY <1>1, <1>4, <1>5, <2>1 DEF FreshInv, EntriesOK
  <2>3. ASSUME NEW k, NEW r, ResultOf(k, r) PROVE ResultOf(k, r)'
    BY <1>4, <1>5, <2>1, <2>3 DEF ResultOf
  <2>4. ResultsOK'
    BY <1>1, <2>3 DEF FreshInv, ResultsOK
  <2> QED
    BY <2>2, <2>4
<1>8. ASSUME NEW g \in File, NEW v, NEW t \in 0..now, Shown(g, v, t) PROVE Shown(g, v, t)'
  <2>1. v \in 1..Version(g)'
    BY <1>4, <1>8 DEF Shown
  <2>2. ASSUME v < Version(g)' PROVE t - MemoTTL < disk'[g][v + 1]
    <3>1. v + 1 \in 1..Version(g)'
      BY <2>1, <2>2, ReplacedIs
    <3>2. disk'[g][v + 1] = IF v + 1 <= Version(g) THEN disk[g][v + 1] ELSE now
      BY <3>1, ReplacedIs
    <3>3. CASE v + 1 <= Version(g)
      BY <1>2, <1>8, <2>1, <3>2, <3>3, ReplacedIs DEF Shown
    <3>4. CASE ~(v + 1 <= Version(g))
      BY <1>1, <3>2, <3>4
    <3> QED
      BY <3>3, <3>4
  <2> QED
    BY <2>1, <2>2 DEF Shown, Version
<1>9. RequestOK'
  <2>1. "structured" \in File /\ "embeddings" \in File
    BY DEF File
  <2>2. request.at # "idle" =>
            request.key[1] \in 1..Version("structured")' /\ request.key[2] \in 1..Version("embeddings")'
    BY <1>4, <2>1 DEF FreshInv, RequestOK
  <2>3. request.at \in {"dense", "open"} =>
            /\ entries.data.version \in request.key[1]..Version("structured")'
            /\ Shown("structured", entries.data.version, request.asked)'
    BY <1>1, <1>5, <1>8, <2>1 DEF FreshInv, RequestOK
  <2> QED
    BY <1>1, <2>2, <2>3 DEF FreshInv, RequestOK
<1> QED
  BY <1>1, <1>3, <1>6, <1>7, <1>9 DEF FreshInv, Freshness

\* Every version of a file that was there one MemoTTL before a request came is in
\* the answer to it, through the memo of the stamps, the entries and the results.
THEOREM AnswersAreFresh == ServerSpec => []Freshness
<1>1. ASSUME FreshInv, Freshness, [ServerNext]_serverVars PROVE FreshInv' /\ Freshness'
  <2>1. CASE Search
    BY <1>1, <2>1, SearchFresh
  <2>2. CASE Load
    BY <1>1, <2>2, LoadFresh
  <2>3. CASE DenseWell \/ DenseFails \/ DenseRaises \/ DenseOpen
    <3>1. PICK fallback, kept : Finish(fallback, kept) /\ request.at \in {"dense", "open"}
      BY <2>3 DEF DenseWell, DenseFails, DenseRaises, DenseOpen
    <3> QED
      BY <1>1, <3>1, FinishFresh
  <2>4. CASE GetRecords
    BY <1>1, <2>4, RecordsFresh
  <2>5. CASE Health \/ \E all \in BOOLEAN : ClearCache(all)
    BY <1>1, <2>5, ClearFresh
  <2>6. CASE Tick
    BY <1>1, <2>6, TickFresh
  <2>7. CASE \E f \in File : Replace(f)
    BY <1>1, <2>7, ReplaceFresh
  <2>8. CASE Lock \/ \E h \in {"well", "failing", "raising"} : Trouble(h)
    <3>1. UNCHANGED <<now, disk, memo, entries, results, request>> /\ answer' = Nothing
      BY <2>8 DEF Lock, Trouble, caches
    <3> QED
      BY <1>1, <3>1 DEF FreshInv, DiskOK, MemoOK, MemoOf, EntriesOK, ResultsOK, ResultOf, RequestOK,
                        Shown, Version, Freshness
  <2>9. CASE UNCHANGED serverVars
    BY <1>1, <2>9 DEF FreshInv, DiskOK, MemoOK, MemoOf, EntriesOK, ResultsOK, ResultOf, RequestOK,
                      Shown, Version, Freshness, Overlooked, serverVars, files, caches
  <2> QED
    BY <1>1, <2>1, <2>2, <2>3, <2>4, <2>5, <2>6, <2>7, <2>8, <2>9 DEF ServerNext, Receive
<1> QED
  BY <1>1, FreshInit, PTL DEF ServerSpec
----------------------------------------------------------------------------
(* The search server: how long a trouble with the dense scores is felt. *)

\* The last trouble was not later than now, and is now as long as it lasts.
TroubleOK ==
    /\ now \in Nat /\ (bad # Nothing => bad \in 0..now)
    /\ health # "well" => bad = now /\ bad # Nothing

\* At t, the last trouble was less than d ago.
Since(t, d) == bad # Nothing /\ t - bad < d

BreakerOK ==
    /\ breaker = [state |-> breaker.state, failures |-> breaker.failures, last |-> breaker.last]
    /\ breaker.state = "open" => breaker.last \in Nat /\ bad # Nothing /\ breaker.last <= bad

WaitOK ==
    /\ request.at # "idle" =>
          /\ request = [at |-> request.at, key |-> request.key, asked |-> request.asked, since |-> request.since]
          /\ request.asked \in 0..now /\ now - request.asked <= MaxCall
    /\ request.at = "open" => Since(request.asked, RecoveryTimeout)

\* A result that is kept is not old, nor was the trouble when it was made.
ResultSince(r) ==
    /\ r.at \in 0..now /\ now - r.at < ResultTTL
    /\ r.fallback => Since(r.at, RecoveryTimeout + MaxCall)
KeptOK == \A k \in DOMAIN results : ResultSince(results[k])

HealthInv == TroubleOK /\ BreakerOK /\ WaitOK /\ KeptOK

LEMMA HealthInit == ServerInit => HealthInv /\ HealthyAgain
  BY ServerAssumption DEF ServerInit, HealthInv, TroubleOK, BreakerOK, WaitOK, KeptOK, NoResults, HealthyAgain

LEMMA BoundsTyped == /\ RecoveryTimeout \in Nat \ {0} /\ MaxCall \in Nat \ {0} /\ ResultTTL \in Nat \ {0}
                     /\ Nothing \notin Nat
  BY ServerAssumption

LEMMA SearchFelt ==
    ASSUME HealthInv, Search
    PROVE  HealthInv' /\ HealthyAgain'
<1>1. /\ now' = now /\ bad' = bad /\ health' = health /\ breaker' = breaker /\ results' = results
      /\ request.at = "idle" /\ now \in Nat
  BY DEF Search, files, Hit, HealthInv, TroubleOK
<1>2. TroubleOK' /\ BreakerOK' /\ KeptOK'
  BY <1>1 DEF HealthInv, TroubleOK, BreakerOK, KeptOK, ResultSince, Since
<1> DEFINE k == Key(Sig("structured"), Sig("embeddings"))
<1>3. CASE /\ k \in DOMAIN results /\ request' = request
           /\ answer'.fallback = results[k].fallback /\ answer'.asked = now
  <2>1. ASSUME results[k].fallback PROVE Since(now, RecoveryTimeout + MaxCall + ResultTTL)
    <3> DEFINE t == results[k].at
    <3>1. t \in 0..now /\ now - t < ResultTTL /\ Since(t, RecoveryTimeout + MaxCall)
      BY <1>3, <2>1 DEF HealthInv, KeptOK, ResultSince
    <3>2. bad # Nothing /\ bad \in Nat /\ t - bad < RecoveryTimeout + MaxCall
      BY <1>1, <3>1 DEF Since, HealthInv, TroubleOK
    <3> HIDE DEF t
    <3>3. now - bad < RecoveryTimeout + MaxCall + ResultTTL
      BY <1>1, <3>1, <3>2, BoundsTyped
    <3> QED
      BY <3>2, <3>3 DEF Since
  <2>2. HealthyAgain'
    BY <1>1, <1>3, <2>1 DEF HealthyAgain, Since
  <2>3. WaitOK'
    BY <1>1, <1>3 DEF HealthInv, WaitOK, Since
  <2> QED
    BY <1>2, <2>2, <2>3 DEF HealthInv
<1>4. CASE request' = [at |-> "load", key |-> k, asked |-> now, since |-> now] /\ answer' = Nothing
  BY <1>1, <1>2, <1>4, BoundsTyped DEF HealthInv, WaitOK, HealthyAgain
<1> QED
  BY <1>3, <1>4 DEF Search

LEMMA LoadFelt ==
    ASSUME HealthInv, Load
    PROVE  HealthInv' /\ HealthyAgain'
<1>1. /\ now' = now /\ bad' = bad /\ health' = health /\ answer' = Nothing
      /\ results' = results \/ results' = NoResults
      /\ request' = [request EXCEPT !.at = IF Admits THEN "dense" ELSE "open", !.since = now] /\ request.at = "load"
      /\ breaker' = breaker \/ breaker' = [breaker EXCEPT !.state = "half-open"]
  BY DEF Load, LoadEntries, Invalidate, Admit, files
<1>2. TroubleOK' /\ KeptOK'
  BY <1>1 DEF HealthInv, TroubleOK, KeptOK, ResultSince, Since, NoResults
<1>3. BreakerOK'
  BY <1>1 DEF HealthInv, BreakerOK
<1>4. /\ request = [at |-> "load", key |-> request.key, asked |-> request.asked, since |-> request.since]
      /\ request.asked \in 0..now /\ now - request.asked <= MaxCall /\ now \in Nat
  BY <1>1 DEF HealthInv, WaitOK, TroubleOK
<1>5. ASSUME ~Admits PROVE Since(request.asked, RecoveryTimeout)
  <2> DEFINE t == request.asked
             l == breaker.last
  <2>1. l \in Nat /\ bad # Nothing /\ l <= bad /\ bad \in Nat /\ ~(now - l >= RecoveryTimeout)
    BY <1>5 DEF Admits, Reopens, HealthInv, BreakerOK, TroubleOK
  <2>2. t \in 0..now /\ now \in Nat
    BY <1>4
  <2> HIDE DEF t, l
  <2>3. t - bad < RecoveryTimeout
    BY <2>1, <2>2, BoundsTyped
  <2> QED
    BY <2>1, <2>3 DEF Since, t
<1>6. PICK to \in {"dense", "open"} :
         /\ request' = [at |-> to, key |-> request.key, asked |-> request.asked, since |-> now]
         /\ to = "open" => ~Admits
  BY <1>1, <1>4
<1>7. WaitOK'
  BY <1>1, <1>4, <1>5, <1>6 DEF WaitOK, Since
<1> QED
  BY <1>1, <1>2, <1>3, <1>7 DEF HealthInv, HealthyAgain

LEMMA FinishFelt ==
    ASSUME HealthInv, NEW fallback \in BOOLEAN, NEW kept, Finish(fallback, kept), request.at # "idle",
           fallback => request.at = "open" \/ health # "well",
           bad' \in {bad, now}, BreakerOK'
    PROVE  HealthInv' /\ HealthyAgain'
<1> DEFINE r == [at |-> now, data |-> entries.data, index |-> Version("embeddings"), fallback |-> fallback]
           old == IF Outdated THEN NoResults ELSE results
<1>1. /\ now' = now /\ health' = health
      /\ results' = Stored(old, request.key, r) /\ request' = [at |-> "idle"]
      /\ answer'.fallback = fallback /\ answer'.asked = request.asked
  BY DEF Finish, files
<1>2. /\ TroubleOK' /\ WaitOK' /\ now \in Nat /\ (bad # Nothing => bad \in 0..now)
      /\ request.asked \in 0..now /\ now - request.asked <= MaxCall
  BY <1>1, BoundsTyped DEF HealthInv, TroubleOK, WaitOK
<1>3. ASSUME NEW t \in Nat, NEW d \in Nat, Since(t, d) PROVE Since(t, d)'
  BY <1>2, <1>3, BoundsTyped DEF Since
<1>4. ASSUME fallback
      PROVE  Since(now, RecoveryTimeout + MaxCall) /\ Since(request.asked, RecoveryTimeout + MaxCall + ResultTTL)
  <2> DEFINE t == request.asked
  <2>1. bad # Nothing /\ bad \in 0..now /\ (bad = now \/ t - bad < RecoveryTimeout)
    BY <1>2, <1>4 DEF HealthInv, TroubleOK, WaitOK, Since
  <2>2. t \in 0..now /\ now \in Nat /\ now - t <= MaxCall
    BY <1>2
  <2> HIDE DEF t
  <2>3. now - bad < RecoveryTimeout + MaxCall /\ t - bad < RecoveryTimeout + MaxCall + ResultTTL
    BY <2>1, <2>2, BoundsTyped
  <2> QED
    BY <2>1, <2>3 DEF Since, t
<1>5. HealthyAgain'
  <2> DEFINE t == request.asked
             d == RecoveryTimeout + MaxCall + ResultTTL
  <2>1. t \in Nat /\ d \in Nat /\ (fallback => Since(t, d))
    BY <1>2, <1>4, BoundsTyped
  <2> HIDE DEF t, d
  <2>2. fallback => bad' # Nothing /\ t - bad' < d
    BY <1>2, <2>1, BoundsTyped DEF Since
  <2> QED
    BY <1>1, <2>2 DEF HealthyAgain, t, d
<1>6. ResultSince(r)
  BY <1>2, <1>4, BoundsTyped DEF ResultSince
<1>7. \A k \in DOMAIN old : ResultSince(old[k])
  BY DEF HealthInv, KeptOK, NoResults
<1>8. \A k \in DOMAIN results' : ResultSince(results'[k])
  <2> HIDE DEF r, old
  <2> QED
    BY <1>1, <1>6, <1>7, StoredIs
<1>9. KeptOK'
  <2>1. ASSUME NEW k \in DOMAIN results' PROVE ResultSince(results[k])'
    <3> DEFINE q == results'[k]
    <3>1. ResultSince(q)
      BY <1>8, <2>1
    <3>2. q.at \in 0..now /\ now - q.at < ResultTTL /\ q.at \in Nat /\ RecoveryTimeout + MaxCall \in Nat
      BY <1>2, <3>1, BoundsTyped DEF ResultSince
    <3>3. q.fallback => Since(q.at, RecoveryTimeout + MaxCall)
      BY <3>1 DEF ResultSince
    <3>4. q.fallback => bad' # Nothing /\ q.at - bad' < RecoveryTimeout + MaxCall
      BY <1>2, <3>2, <3>3, BoundsTyped DEF Since
    <3> QED
      BY <1>1, <3>2, <3>4 DEF ResultSince, Since
  <2> QED
    BY <2>1 DEF KeptOK
<1> QED
  BY <1>2, <1>5, <1>9 DEF HealthInv

\* The circuit opens only in a trouble or after a slow call.
LEMMA BreakerIs ==
    ASSUME HealthInv, now' = now, bad' \in {bad, now}, NEW slow,
           (Succeed(slow) /\ (slow => bad' = now)) \/ (Fail /\ health # "well")
    PROVE  BreakerOK'
<1>1. /\ now \in Nat /\ now # Nothing /\ (health # "well" => bad = now)
      /\ bad # Nothing => bad \in 0..now
  BY BoundsTyped DEF HealthInv, TroubleOK
<1>2. CASE breaker' = Trip /\ bad' = now
  BY <1>1, <1>2 DEF BreakerOK, Trip
<1>3. CASE Succeed(slow) /\ ~slow
  BY <1>1, <1>3 DEF Succeed, HealthInv, BreakerOK
<1>4. CASE Succeed(slow) /\ slow /\ bad' = now
  BY <1>1, <1>2, <1>4 DEF Succeed, HealthInv, BreakerOK
<1>5. CASE Fail /\ health # "well"
  <2>1. CASE breaker' = [breaker EXCEPT !.failures = @ + 1, !.last = now]
    <3>1. breaker' = [state |-> breaker.state, failures |-> breaker.failures + 1, last |-> now]
      BY <2>1 DEF HealthInv, BreakerOK
    <3>2. breaker'.last \in Nat /\ bad' # Nothing /\ breaker'.last <= bad'
      BY <1>1, <1>5, <3>1
    <3> QED
      BY <3>1, <3>2 DEF BreakerOK
  <2> QED
    BY <1>1, <1>2, <1>5, <2>1 DEF Fail
<1> QED
  BY <1>3, <1>4, <1>5

LEMMA TickFelt ==
    ASSUME HealthInv, Tick
    PROVE  HealthInv' /\ HealthyAgain'
<1>1. /\ now' = now + 1 /\ bad' = IF health = "well" THEN bad ELSE now'
      /\ (request.at # "idle" => now - request.asked < MaxCall)
      /\ results' = [k \in {k \in DOMAIN results : now' - results[k].at < ResultTTL} |-> results[k]]
      /\ health' = health /\ breaker' = breaker /\ request' = request /\ answer' = Nothing
  BY DEF Tick
<1>2. now \in Nat /\ (bad # Nothing => bad \in 0..now) /\ TroubleOK'
  BY <1>1, BoundsTyped DEF HealthInv, TroubleOK
<1>3. bad # Nothing => bad' # Nothing /\ bad' \in Nat /\ bad <= bad'
  BY <1>1, <1>2, BoundsTyped
<1>4. ASSUME NEW t \in Nat, NEW d \in Nat, Since(t, d) PROVE Since(t, d)'
  BY <1>2, <1>3, <1>4 DEF Since
<1>5. BreakerOK'
  BY <1>1, <1>2, <1>3 DEF HealthInv, BreakerOK
<1>6. WaitOK'
  <2>1. request.at # "idle" => /\ request.asked \in 0..now' /\ now' - request.asked <= MaxCall
                               /\ request.asked \in Nat
    BY <1>1, <1>2, BoundsTyped DEF HealthInv, WaitOK
  <2> QED
    BY <1>1, <1>4, <2>1, BoundsTyped DEF HealthInv, WaitOK
<1>7. KeptOK'
  <2>1. ASSUME NEW k \in DOMAIN results' PROVE ResultSince(results[k])'
    <3>1. results'[k] = results[k] /\ now' - results[k].at < ResultTTL /\ ResultSince(results[k])
      BY <1>1, <2>1 DEF HealthInv, KeptOK
    <3>2. results[k].at \in 0..now' /\ results[k].at \in Nat /\ RecoveryTimeout + MaxCall \in Nat
      BY <1>1, <1>2, <3>1, BoundsTyped DEF ResultSince
    <3> QED
      BY <1>1, <1>4, <3>1, <3>2 DEF ResultSince
  <2> QED
    BY <2>1 DEF KeptOK
<1> QED
  BY <1>1, <1>2, <1>5, <1>6, <1>7 DEF HealthInv, HealthyAgain

\* The dense scores get into a trouble, or out of it.
LEMMA TroubleFelt ==
    ASSUME HealthInv, NEW h, Trouble(h)
    PROVE  HealthInv' /\ HealthyAgain'
<1>1. /\ now' = now /\ bad' = now /\ answer' = Nothing /\ UNCHANGED <<breaker, request, results>>
  BY DEF Trouble, caches
<1>2. now \in Nat /\ (bad # Nothing => bad \in 0..now) /\ TroubleOK'
  BY <1>1, BoundsTyped DEF HealthInv, TroubleOK
<1>3. ASSUME NEW t \in Nat, NEW d \in Nat, Since(t, d) PROVE Since(t, d)'
  BY <1>1, <1>2, <1>3, BoundsTyped DEF Since
<1>4. BreakerOK'
  BY <1>1, <1>2, BoundsTyped DEF HealthInv, BreakerOK
<1>5. WaitOK'
  BY <1>1, <1>2, <1>3, BoundsTyped DEF HealthInv, WaitOK
<1>6. KeptOK'
  <2>1. \A k \in DOMAIN results : results[k].at \in Nat
    BY <1>2 DEF HealthInv, KeptOK, ResultSince
  <2> QED
    BY <1>1, <1>2, <1>3, <2>1, BoundsTyped DEF HealthInv, KeptOK, ResultSince
<1> QED
  BY <1>1, <1>2, <1>4, <1>5, <1>6 DEF HealthInv, HealthyAgain

\* A search is answered without dense scores only for so long after the last
\* trouble, or slow call, as the circuit stays open, a call lasts and a result is kept.
THEOREM TroublesEnd == ServerSpec => []HealthyAgain
<1>1. ASSUME HealthInv, HealthyAgain, [ServerNext]_serverVars PROVE HealthInv' /\ HealthyAgain'
  <2>1. CASE Search
    BY <1>1, <2>1, SearchFelt
  <2>2. CASE Load
    BY <1>1, <2>2, LoadFelt
  <2>3. CASE DenseWell
    <3>1. now' = now /\ bad' \in {bad, now} /\ (Slow => bad' = now)
      BY <2>3 DEF DenseWell, Felt, Finish
    <3>2. BreakerOK'
      BY <1>1, <2>3, <3>1, BreakerIs DEF DenseWell
    <3> QED
      BY <1>1, <2>3, <3>1, <3>2, FinishFelt DEF DenseWell
  <2>4. CASE DenseFails
    <3>1. now' = now /\ bad' \in {bad, now} /\ (Slow => bad' = now)
      BY <2>4 DEF DenseFails, Felt, Finish
    <3>2. BreakerOK'
      BY <1>1, <2>4, <3>1, BreakerIs DEF DenseFails
    <3> QED
      BY <1>1, <2>4, <3>1, <3>2, FinishFelt DEF DenseFails
  <2>5. CASE DenseRaises
    <3>1. now' = now /\ bad' = bad
      BY <2>5 DEF DenseRaises, Finish
    <3>2. BreakerOK'
      BY <1>1, <2>5, <3>1, BreakerIs DEF DenseRaises
    <3> QED
      BY <1>1, <2>5, <3>1, <3>2, FinishFelt DEF DenseRaises
  <2>6. CASE DenseOpen
    <3>1. BreakerOK' /\ bad' = bad
      BY <1>1, <2>6 DEF DenseOpen, Finish, HealthInv, BreakerOK
    <3> QED
      BY <1>1, <2>6, <3>1, FinishFelt DEF DenseOpen
  <2>7. CASE GetRecords \/ Health \/ \E all \in BOOLEAN : ClearCache(all)
    <3>1. /\ UNCHANGED <<now, bad, health, breaker, request>> /\ results' \in {results, NoResults}
          /\ answer' # Nothing => answer'.fallback = FALSE
      BY <2>7 DEF GetRecords, LoadEntries, Invalidate, Health, ClearCache, files, caches
    <3> QED
      BY <1>1, <3>1 DEF HealthInv, TroubleOK, BreakerOK, WaitOK, KeptOK, ResultSince, Since, NoResults,
                        HealthyAgain
  <2>8. CASE Tick
    BY <1>1, <2>8, TickFelt
  <2>9. CASE \E h \in {"well", "failing", "raising"} : Trouble(h)
    BY <1>1, <2>9, TroubleFelt
  <2>10. CASE Lock \/ \E f \in File : Replace(f)
    BY <1>1, <2>10 DEF Lock, Replace, caches, HealthInv, TroubleOK, BreakerOK, WaitOK, KeptOK, ResultSince,
                       Since, HealthyAgain
  <2>11. CASE UNCHANGED serverVars
    BY <1>1, <2>11 DEF serverVars, files, caches, HealthInv, TroubleOK, BreakerOK, WaitOK, KeptOK, ResultSince,
                       Since, HealthyAgain
  <2> QED
    BY <1>1, <2>1, <2>2, <2>3, <2>4, <2>5, <2>6, <2>7, <2>8, <2>9, <2>10, <2>11 DEF ServerNext, Receive
<1> QED
  BY <1>1, HealthInit, PTL DEF ServerSpec

----------------------------------------------------------------------------
(* The search server: the ranking model. *)

\* The positions of the scores are positions of the entries they are taken for:
\* the ranking model in use was made of the entries that are searched.
THEOREM ScoresFit == ServerSpec => []ModelMatches
<1> DEFINE MadeOfEntries == model # Nothing => model = entries.data
<1>1. ServerInit => MadeOfEntries /\ ModelMatches
  BY DEF ServerInit, ModelMatches
<1>2. ASSUME MadeOfEntries, ModelMatches, [ServerNext]_serverVars PROVE MadeOfEntries' /\ ModelMatches'
  <2>1. CASE Search
    BY <1>2, <2>1 DEF Search, ModelMatches
  <2>2. CASE Load \/ GetRecords
    BY <1>2, <2>2 DEF Load, GetRecords, LoadEntries, Invalidate, ModelMatches
  <2>3. CASE DenseWell \/ DenseFails \/ DenseRaises \/ DenseOpen
    <3>1. PICK fallback, kept : Finish(fallback, kept)
      BY <2>3 DEF DenseWell, DenseFails, DenseRaises, DenseOpen
    <3> QED
      BY <1>2, <3>1 DEF Finish, Model, ModelMatches
  <2>4. CASE Health \/ \E all \in BOOLEAN : ClearCache(all)
    BY <1>2, <2>4 DEF Health, ClearCache, caches, ModelMatches
  <2>5. CASE Tick \/ Lock \/ (\E f \in File : Replace(f)) \/ \E h \in {"well", "failing", "raising"} : Trouble(h)
    BY <1>2, <2>5 DEF Tick, Lock, Replace, Trouble, caches, ModelMatches
  <2>6. CASE UNCHANGED serverVars
    BY <1>2, <2>6 DEF serverVars, caches, ModelMatches
  <2> QED
    BY <1>2, <2>1, <2>2, <2>3, <2>4, <2>5, <2>6 DEF ServerNext, Receive
<1> QED
  BY <1>1, <1>2, PTL DEF ServerSpec

=============================================================================
