-------------------------- MODULE GeneratedLayers --------------------------
(***************************************************************************)
(* What is generated from the structured files, and by whom: the rebuild   *)
(* of the memory layers, the handoff pack, the hygiene report and the      *)
(* dream are separate operating system processes over the same files.  All *)
(* but the rebuild leave the layers alone; the dream appends what it       *)
(* promotes to a file that the next rebuild merges into the shared inbox.  *)
(* Each artifact carries a signature of the files it claims to describe.   *)
(*                                                                         *)
(* A rebuild truncates each layer and then writes it, at its start; an     *)
(* artifact is written in one step, for one that is cut short is not       *)
(* aligned with anything.  A generator's readings of several files are one *)
(* step, its signature another.  SharedStore has the other writers,        *)
(* DailyLog the logs, KnowledgeGraph the graph.                            *)
(* One file stands for each kind of input: "imports" for the sessions of   *)
(* other agents, "board" for the four task files; the shared events are    *)
(* rebuilt like the tasks and left out, and so is generated/MEMORY.md, to  *)
(* which a dream appends what it has promoted and which nothing reads.     *)
(***************************************************************************)
EXTENDS Integers, FiniteSets, Subsequence

CONSTANTS Process,
          Setting,    \* the situations to look at: [jobs, ids], see LayersInit
          Mortal,     \* bounds which processes are killed
          Notes, Imports, Projects, Tasks,  \* ids, by the file they arrive in
          Scope,      \* the scope of each id
          Target,     \* where its promotion would lead, "" if nowhere
          PromotionKey, \* its promotion key
          Text,       \* its content
          Born,       \* its timestamp
          Budget,     \* CONTEXT_LIMITS, the limits of highlights and packs
          PromoteMax, \* promotions per scope and dream
          RefreshMax, \* refreshes per scope and dream
          MinRecords, \* a dream over fewer records is skipped
          MaxSession, \* bounds the growth of session-memory.jsonl
          MaxDreams,  \* bounds what dreams append
          Missing     \* an artifact that was never generated

Id == Notes \cup Imports \cup Projects \cup Tasks
Input == {"notes", "imports", "projects", "board"}
File == Input \cup {"dream", "inbox", "session", "tasks"}
Artifact == {"layers", "handoff", "dream", "hygiene"}
Context == {"body", "meta", "nav"}
Script == {"build", "handoff", "dream", "hygiene"}
Job == Script \cup {"refresh", "refresh --force"}

ASSUME LayersAssumption ==
    /\ IsFiniteSet(Id) /\ Born \in [Id -> Nat] /\ \A i, j \in Id : Born[i] = Born[j] => i = j
    /\ Setting \subseteq [jobs : [Process -> SUBSET Job], ids : SUBSET Id]
    /\ Mortal \subseteq Process
    /\ \A i, j \in Id : Text[i] = Text[j] /\ Target[i] = Target[j] => PromotionKey[i] = PromotionKey[j]

VARIABLES
    setting,   \* who does what in this behaviour, and which records arrive
    store,     \* the lines of each file
    art,       \* MEMORY-LAYERS, HANDOFF, AUTO-DREAM and the hygiene report
    context,   \* GLOBAL-CONTEXT.body.md, its meta file and MEMORY-INDEX.md
    digest,    \* the signature in auto-dream-state.json
    proc,      \* what each process is doing
    unlinked   \* history: a dream's lock file was removed by another process

layersVars == <<setting, store, art, context, digest, proc, unlinked>>

\* A line: a memory, or what a dream wrote of one.
Line == [id : Id, dream : BOOLEAN]
Plain(id) == [id |-> id, dream |-> FALSE]
Dreamt(id) == [id |-> id, dream |-> TRUE]
HomeOf(id) == IF id \in Notes THEN "notes" ELSE IF id \in Imports THEN "imports"
              ELSE IF id \in Projects THEN "projects" ELSE "board"

\* What a dream writes is dated by the clock, after everything it read.
Newest == Cardinality(Id) + Max({0} \cup {Born[i] : i \in Id})
When(r) == IF r.dream THEN Newest + Born[r.id] ELSE Born[r.id]
ScopeOf(r) == IF r.dream THEN Target[r.id] ELSE Scope[r.id]

\* projects/*.jsonl holds projections without title, type or metadata.
Bare(r) == r.id \in Projects

----------------------------------------------------------------------------
\* What the generators make of the lines.

LayersOf(files) == [inbox |-> files.inbox, session |-> files.session, tasks |-> files.tasks]
Lines(layers) == layers.inbox \o layers.session \o layers.tasks
Latest(s, n) == SubSeq(s, Max({1, Len(s) - n + 1}), Len(s))

\* The places of the n newest of those in a set of places, first come first.
Leading(s, places, n) ==
    {i \in places : Cardinality({j \in places : \/ When(s[j]) > When(s[i])
                                                \/ When(s[j]) = When(s[i]) /\ j < i}) < n}

\* The segments of the context.
Segment(scope) == CASE scope \in {"event", "task", "run", "job", "journal"} -> "event_task"
                    [] OTHER -> scope
Segments == {"user", "feedback", "project", "reference", "event_task"}

\* buildScopedSummaries: per segment how many there are and which are shown.
Summaries(layers) ==
    LET all == Lines(layers)
        Of(seg) == {i \in DOMAIN all : Segment(ScopeOf(all[i])) = seg}
    IN  [seg \in Segments |-> [total |-> Cardinality(Of(seg)),
                               shown |-> {all[i] : i \in Leading(all, Of(seg), Budget)}]]
Truncated(summary) == IF summary.total > Budget THEN summary.total - Budget ELSE 0

\* buildGlobalContext: the text, which ends with what the segments leave out,
\* and its meta data.  A scope outside the segments is in neither.
Body(layers) ==
    LET segs == Summaries(layers)
    IN  [shown |-> [seg \in Segments |-> segs[seg].shown],
         remaining |-> [seg \in {g \in Segments : Truncated(segs[g]) > 0} |-> Truncated(segs[seg])]]
Meta(layers) ==
    LET segs == Summaries(layers)
    IN  [records |-> MapThenSumSet(LAMBDA seg : segs[seg].total, Segments), segments |-> segs,
         truncated |-> \E seg \in Segments : Truncated(segs[seg]) > 0]

\* buildMemoryIndex: by scope in the order of the layers, without tasks.
Navigation(layers) ==
    LET all == Filter(Lines(layers), LAMBDA r : ScopeOf(r) \notin {"task", "event"})
        Of(scope) == {i \in DOMAIN all : ScopeOf(all[i]) = scope}
    IN  [scope \in {ScopeOf(all[i]) : i \in DOMAIN all} |->
            [total |-> Cardinality(Of(scope)),
             shown |-> {all[i] : i \in {k \in Of(scope) : Cardinality({j \in Of(scope) : j < k}) < Budget}}]]

\* The durable memories by scope: how many, and the newest.
ScopeCounts(s) ==
    [scope \in {ScopeOf(s[i]) : i \in DOMAIN s} |-> Cardinality({i \in DOMAIN s : ScopeOf(s[i]) = scope})]
ScopedHighlights(s) ==
    [scope \in {ScopeOf(s[i]) : i \in DOMAIN s} |->
        {s[i] : i \in Leading(s, {k \in DOMAIN s : ScopeOf(s[k]) = scope}, Budget)}]

\* buildLayerSummary: how much each layer holds and what came last.
LayerSummary(layers) ==
    [counts |-> [f \in {"inbox", "session", "tasks"} |-> Len(layers[f])],
     latest |-> [f \in {"inbox", "session", "tasks"} |-> Latest(layers[f], Budget)],
     byScope |-> ScopeCounts(layers.inbox), highlights |-> ScopedHighlights(layers.inbox)]

\* buildPack: the newest as they are, and of the open tasks and of the rules the
\* newest of what reads alike.
PackOf(layers) ==
    LET all == Lines(layers)
        Alike(i, places) == {j \in places : Text[all[j].id] = Text[all[i].id]}
        Unique(places) == {i \in places : i \in Leading(all, Alike(i, places), 1)}
        Select(places) == {all[i] : i \in Leading(all, Unique(places), Budget)}
    IN  [sources |-> {all[i] : i \in Leading(all, DOMAIN all, Budget)},
         threads |-> Select({i \in DOMAIN all : Segment(ScopeOf(all[i])) = "event_task"}),
         rules |-> Select({i \in DOMAIN all : ScopeOf(all[i]) \in {"user", "feedback"}})]

\* The task layer, or the files it is built from while it is empty.
WithTasks(files) == IF files.tasks = <<>> THEN [files EXCEPT !.tasks = files.board] ELSE files

\* Select-RecentUniqueRecords, for each of a dream's highlights.
Highlights(layers) ==
    LET Newest1(s) == {i \in DOMAIN s : i \in Leading(s, {j \in DOMAIN s : PromotionKey[s[j].id] = PromotionKey[s[i].id]}, 1)}
    IN  [f \in {"inbox", "session", "tasks"} |-> {layers[f][i] : i \in Leading(layers[f], Newest1(layers[f]), Budget)}]

\* The duplicate ids of the integrity report, by layer and line: an id seen
\* before, except in a layer after the file it was derived from, or the other
\* way round.
Reported == <<"inbox", "session", "tasks", "imports", "board">>
Derived(f, g) == {f, g} \in {{"session", "imports"}, {"tasks", "board"}}
Duplicates(files) ==
    LET places == UNION {{k} \X DOMAIN files[Reported[k]] : k \in DOMAIN Reported}
        Found(p) == files[Reported[p[1]]][p[2]]
        Before(p) == {q \in places : /\ q[1] < p[1] \/ (q[1] = p[1] /\ q[2] < p[2])
                                     /\ Found(q) = Found(p)}
        First(p) == Min({q[1] : q \in Before(p)})
    IN  {p \in places : Before(p) # {} /\ ~Derived(Reported[First(p)], Reported[p[1]])}

GradeFromScore(score) ==
    CASE score >= 90 -> "A" [] score \in 75..89 -> "B" [] score \in 60..74 -> "C" [] score \in 40..59 -> "D"
      [] OTHER -> "F"

Recommendations(untitled, duplicates) ==
    (IF untitled > 0 THEN {"backfill titles"} ELSE {}) \cup (IF duplicates > 0 THEN {"deduplicate"} ELSE {})

\* The hygiene report counts records without title and the duplicates; the
\* ages, the files that are gone and the vectors' index are left out.
Health(files) ==
    LET untitled == Cardinality({i \in DOMAIN files.session : Bare(files.session[i])})
        twice == Cardinality(Duplicates(files))
        score == 100 - Min({5 * untitled, 10}) - Min({3 * twice, 15})
    IN  [untitled |-> untitled, duplicates |-> twice, score |-> score,
         grade |-> GradeFromScore(score), recommendations |-> Recommendations(untitled, twice)]

----------------------------------------------------------------------------
\* Signatures.

\* Fault: a layer's source is missing from the list of files.
SignedWithoutBoard == {"inbox", "session", "tasks", "imports"}
\* STRUCTURED_LAYER_DEFINITIONS: neither the notes and projects, nor what
\* dreams wrote.
Signed == {"inbox", "session", "tasks", "imports", "board"}
Signature == [f \in Signed |-> store[f]]
\* The lines the generators read.
Contents == [f \in {Reported[k] : k \in DOMAIN Reported} |-> store[f]]

\* analyzeGeneratedArtifact, given that all agree on the versions.  It reads
\* all but the hygiene report, which signs the same files in a format of its
\* own and is compared here with what it would sign now.
Aligned(a) == art[a] # Missing /\ art[a].sig = Signature

Generated(a, files) ==
    CASE a = "layers" -> LayerSummary(LayersOf(files))
      [] a = "handoff" -> PackOf(WithTasks(files))
      [] a = "dream" -> Highlights(WithTasks(files))
      [] OTHER -> Health(files)

----------------------------------------------------------------------------
\* at: the next step; sig and files: the signature and the lines it has read;
\* queue: what a dream promotes; lock: its lock file, "held" or "unlinked";
\* calm: nobody has disturbed it; then: the scripts a refresh has still to run,
\* the current one first.
Idle == [at |-> "idle", sig |-> Missing, files |-> Missing, queue |-> <<>>, lock |-> "none", calm |-> TRUE,
         then |-> <<>>]

LayersInit ==
    /\ setting \in Setting
    /\ store = [f \in File |-> <<>>]
    /\ art = [a \in Artifact |-> Missing] /\ context = [c \in Context |-> Missing]
    /\ digest = Missing /\ unlinked = FALSE
    /\ proc = [p \in Process |-> Idle]

Doing(p, where) == proc[p].at = where
Refreshing(p) == proc[p].then # <<>>
Starts(p, job) == Doing(p, "idle") /\ IF Refreshing(p) THEN job = Head(proc[p].then) ELSE job \in setting.jobs[p]

\* A script begins, and ends well; one that fails ends the refresh too.
Begins(p, where, sig, files) ==
    [at |-> where, sig |-> sig, files |-> files, queue |-> <<>>, lock |-> "none", calm |-> TRUE, then |-> proc[p].then]
Finished(p) == [Idle EXCEPT !.then = IF Refreshing(p) THEN Tail(proc[p].then) ELSE <<>>]

\* Who signs what it has read before is disturbed by whatever anybody else
\* writes; who has signed and will read, by a rebuild that rewrites a layer.
Rebuilding == {"inbox", "fill inbox", "merge", "session", "fill session", "tasks", "fill tasks",
               "layers", "body", "meta", "nav"}
Disturbs(at, rewriting) == at \in Rebuilding \cup {"pack"} \/ (rewriting /\ at \in {"read", "analyse"})
Stirred(q, rewriting) ==
    IF Disturbs(proc[q].at, rewriting) THEN [proc[q] EXCEPT !.calm = FALSE] ELSE proc[q]

\* Process p goes on as next, and perhaps it writes, or rewrites a layer.
Go(p, next) == proc' = [proc EXCEPT ![p] = next]
GoWriting(p, next) == proc' = [q \in Process |-> IF q = p THEN next ELSE Stirred(q, FALSE)]
GoRewriting(p, next) == proc' = [q \in Process |-> IF q = p THEN next ELSE Stirred(q, TRUE)]
Gets(p, where, sig, files, queue, lock) ==
    [at |-> where, sig |-> sig, files |-> files, queue |-> queue, lock |-> lock,
     calm |-> proc[p].calm, then |-> proc[p].then]
Turns(p, where) == Gets(p, where, proc[p].sig, proc[p].files, proc[p].queue, proc[p].lock)

Arrive(id) ==
    /\ id \in setting.ids /\ Plain(id) \notin ToSet(store[HomeOf(id)])
    /\ store' = [store EXCEPT ![HomeOf(id)] = Append(@, Plain(id))]
    /\ proc' = [q \in Process |-> Stirred(q, FALSE)]
    /\ UNCHANGED <<setting, art, context, digest, unlinked>>

----------------------------------------------------------------------------
\* build-memory-layers.js.

\* deduplicateSharedInbox: what dreams wrote follows the notes, each id once;
\* the window of 30 seconds is SharedStore's.
InboxOf(notes, dreams) ==
    notes \o Subsequence(dreams, {i \in DOMAIN dreams : /\ dreams[i] \notin ToSet(notes)
                                                      /\ \A j \in 1..(i - 1) : dreams[j] # dreams[i]})

\* Before its first write the build has read all its sources.
BuildRead(p) ==
    /\ Starts(p, "build") /\ Len(store.session) + Len(store.imports) + Len(store.projects) <= MaxSession
    /\ Go(p, Begins(p, "inbox", Missing,
             [inbox |-> InboxOf(store.notes, store.dream), session |-> store.imports,
              projects |-> store.projects, tasks |-> store.board, imports |-> store.imports, board |-> store.board]))
    /\ UNCHANGED <<setting, store, art, context, digest, unlinked>>

\* writeText: the file is empty first, and what is then written at its start
\* leaves what another process has written beyond it, as if all lines were of
\* one length.
Over(new, old) == new \o SubSeq(old, Len(new) + 1, Len(old))
Truncate(p, f, next) ==
    /\ Doing(p, f) /\ GoRewriting(p, Turns(p, next))
    /\ store' = [store EXCEPT ![f] = <<>>]
    /\ UNCHANGED <<setting, art, context, digest, unlinked>>
FillFile(p, f, here, next) ==
    /\ Doing(p, here) /\ GoRewriting(p, Turns(p, next))
    /\ store' = [store EXCEPT ![f] = Over(proc[p].files[f], store[f])]
    /\ UNCHANGED <<setting, art, context, digest, unlinked>>

BuildInbox(p) == Truncate(p, "inbox", "fill inbox") \/ FillFile(p, "inbox", "fill inbox", "merge")

\* The layer grows: what is in it, all the imports again, and the projections
\* that are new.
Merged(existing, files) ==
    existing \o files.session \o Filter(files.projects, LAMBDA r : r \notin ToSet(existing))

\* What the session layer holds is read in between.
BuildMerge(p) ==
    /\ Doing(p, "merge")
    /\ Go(p, Gets(p, "session", Missing,
                  [inbox |-> proc[p].files.inbox, session |-> Merged(store.session, proc[p].files),
                   tasks |-> proc[p].files.tasks], <<>>, "none"))
    /\ UNCHANGED <<setting, store, art, context, digest, unlinked>>

BuildSession(p) == Truncate(p, "session", "fill session") \/ FillFile(p, "session", "fill session", "tasks")
BuildTasks(p) == Truncate(p, "tasks", "fill tasks") \/ FillFile(p, "tasks", "fill tasks", "layers")

\* Fault: the summary describes the imports instead of the merged layer.
BuildLayersUnmirrored(p) ==
    /\ Doing(p, "layers") /\ GoWriting(p, Turns(p, "body"))
    /\ art' = [art EXCEPT !.layers = [sig |-> Signature, calm |-> proc[p].calm,
                    body |-> LayerSummary([proc[p].files EXCEPT !.session = store.imports])]]
    /\ UNCHANGED <<setting, store, context, digest, unlinked>>
\* The signature is taken only now, over whatever the files hold.
BuildLayers(p) ==
    /\ Doing(p, "layers") /\ GoWriting(p, Turns(p, "body"))
    /\ art' = [art EXCEPT !.layers = [sig |-> Signature, calm |-> proc[p].calm,
                                      body |-> LayerSummary(proc[p].files)]]
    /\ UNCHANGED <<setting, store, context, digest, unlinked>>

BuildContext(p, c, next, what) ==
    /\ Doing(p, c) /\ context' = [context EXCEPT ![c] = what]
    /\ GoWriting(p, IF next = "idle" THEN Finished(p) ELSE Turns(p, next))
    /\ UNCHANGED <<setting, store, art, digest, unlinked>>

BuildBody(p) == BuildContext(p, "body", "meta", Body(proc[p].files))
BuildMeta(p) == BuildContext(p, "meta", "nav", Meta(proc[p].files))
BuildNav(p) == BuildContext(p, "nav", "idle", Navigation(proc[p].files))

Build(p) ==
    \/ BuildRead(p) \/ BuildInbox(p) \/ BuildMerge(p) \/ BuildSession(p) \/ BuildTasks(p)
    \/ BuildLayers(p) \/ BuildBody(p) \/ BuildMeta(p) \/ BuildNav(p)

----------------------------------------------------------------------------
\* build-handoff-pack.js reads, then signs; the hygiene report the reverse.

HandoffRead(p) ==
    /\ Starts(p, "handoff")
    /\ Go(p, Begins(p, "pack", Missing, Contents))
    /\ UNCHANGED <<setting, store, art, context, digest, unlinked>>

HandoffWrite(p) ==
    /\ Doing(p, "pack") /\ GoWriting(p, Finished(p))
    /\ art' = [art EXCEPT !.handoff = [sig |-> Signature, calm |-> proc[p].calm,
                                       body |-> Generated("handoff", proc[p].files)]]
    /\ UNCHANGED <<setting, store, context, digest, unlinked>>

HygieneSign(p) ==
    /\ Starts(p, "hygiene")
    /\ Go(p, Begins(p, "analyse", Signature, Missing))
    /\ UNCHANGED <<setting, store, art, context, digest, unlinked>>

HygieneWrite(p) ==
    /\ Doing(p, "analyse") /\ GoWriting(p, Finished(p))
    /\ art' = [art EXCEPT !.hygiene = [sig |-> proc[p].sig, calm |-> proc[p].calm,
                                       body |-> Generated("hygiene", Contents)]]
    /\ UNCHANGED <<setting, store, context, digest, unlinked>>

----------------------------------------------------------------------------
\* run-memory-dream.ps1.

Held == {p \in Process : proc[p].lock = "held"}

\* Acquire-DreamLock: an exclusive open, which creates the file if need be.
DreamOpen(p) ==
    /\ Starts(p, "dream")
    /\ Go(p, IF Held = {} THEN [Begins(p, "sign", Missing, Missing) EXCEPT !.lock = "held"]
             ELSE Begins(p, "busy", Missing, Missing))
    /\ UNCHANGED <<setting, store, art, context, digest, unlinked>>

\* When the open failed, the file can be read only once it has been released;
\* it is then broken if its holder had it for an hour.
DreamBusy(p) ==
    /\ Doing(p, "busy")
    /\ Go(p, Idle) \/ (Held = {} /\ Go(p, Turns(p, "break")))
    /\ UNCHANGED <<setting, store, art, context, digest, unlinked>>

\* Remove-Item takes the file from whoever has opened it meanwhile; on Windows
\* it fails.
Unlinking == [q \in Process |-> IF q \in Held THEN [proc[q] EXCEPT !.lock = "unlinked"] ELSE proc[q]]

DreamBreak(p) ==
    /\ Doing(p, "break")
    /\ \/ /\ unlinked' = (unlinked \/ Held # {})
          /\ proc' = [Unlinking EXCEPT ![p] = Gets(p, "sign", Missing, Missing, <<>>, "held")]
       \/ Held # {} /\ Go(p, Idle) /\ UNCHANGED unlinked
    /\ UNCHANGED <<setting, store, art, context, digest>>

\* Whatever happens, the lock is released in the end.
Leaving(p) ==
    [at |-> "dispose", sig |-> Missing, files |-> Missing, queue |-> <<>>, lock |-> proc[p].lock, calm |-> TRUE,
     then |-> <<>>]

\* Without -Force, which a refresh gives, an unchanged store is not dreamt of
\* again for a day.
DreamSign(p) ==
    /\ Doing(p, "sign")
    /\ \/ Go(p, Gets(p, "read", Signature, Missing, <<>>, proc[p].lock))
       \/ digest = Signature /\ ~Refreshing(p) /\ Go(p, Leaving(p))
    /\ UNCHANGED <<setting, store, art, context, digest, unlinked>>

\* New-KeyRecordMap: the newest durable memory of each key.
Baseline(r) == {d \in ToSet(store.inbox) : PromotionKey[d.id] = PromotionKey[r.id] /\ Target[d.id] # ""}

\* Fault: what is known is looked up in the shared inbox.
DreamtOfInbox == {d.id : d \in ToSet(store.inbox)}
\* What dreams have written, which a rebuild has perhaps not merged yet.
DreamtOf == {d.id : d \in ToSet(store.dream)}

Candidates == {r \in ToSet(store.session) \cup ToSet(WithTasks(Contents).tasks) : Target[r.id] # ""}
NewText(r) == Text[r.id] \notin {Text[i] : i \in DreamtOf}
Fresh == {r \in Candidates : Baseline(r) = {} /\ NewText(r)}
Outdated == {r \in Candidates : Baseline(r) # {} /\ NewText(r) /\ \A d \in Baseline(r) : When(r) > When(d)}

\* New-TypedDurableQueueItems takes the candidates in some order (of their ids,
\* which say nothing): each that fits with those it has taken, one of each key
\* and of each text, up to a number of promotions and of refreshes per scope.
Queueable == Fresh \cup Outdated
Orders == {order \in [Candidates -> 1..Cardinality(Candidates)] :
              \A r, q \in Candidates : order[r] = order[q] => r = q}
Fits(s) ==
    LET Few(part, limit) == \A r \in part : Cardinality({q \in part : Target[q.id] = Target[r.id]}) <= limit
    IN  /\ \A r, q \in s : r = q \/ (PromotionKey[r.id] # PromotionKey[q.id] /\ Text[r.id] # Text[q.id])
        /\ Few(s \cap Fresh, PromoteMax) /\ Few(s \cap Outdated, RefreshMax)
Selections(order) ==
    {s \in SUBSET Queueable :
        Fits(s) /\ \A r \in Queueable \ s : ~Fits({q \in s : order[q] < order[r]} \cup {r})}

\* A record without metadata, and one with the key of one that has been taken
\* for promotion before it, stop the script: strict mode refuses the property
\* it asks for.
Throws(order, promoted) ==
    \/ \E r \in ToSet(store.session) : Bare(r)
    \/ \E r \in promoted :
          \/ \E q \in Candidates : order[q] > order[r] /\ PromotionKey[q.id] = PromotionKey[r.id]
          \/ Cardinality({i \in DOMAIN store.session : store.session[i] = r}) > 1

\* The highlights and the queue; without -Writeback, which a refresh does not
\* give, the queue is only shown.
DreamRead(p) ==
    /\ Doing(p, "read")
    /\ \E order \in Orders : \E queued \in Selections(order) :
         IF Throws(order, queued \cap Fresh) \/ Len(Lines(WithTasks(Contents))) < MinRecords
         THEN Go(p, Leaving(p))
         ELSE \E writeback \in BOOLEAN :
                /\ writeback => ~Refreshing(p) /\ Cardinality(queued) + Len(store.dream) <= MaxDreams
                /\ Go(p, Gets(p, "write", proc[p].sig, Contents,
                              IF writeback THEN SetToSeq({r.id : r \in queued}) ELSE <<>>, proc[p].lock))
    /\ UNCHANGED <<setting, store, art, context, digest, unlinked>>

\* Write-TypedDurableJsonl reads the file once more and skips what it finds.
DreamWrite(p) ==
    /\ Doing(p, "write")
    /\ Go(p, Gets(p, "append", proc[p].sig, proc[p].files, Filter(proc[p].queue, LAMBDA id : id \notin DreamtOf),
                  proc[p].lock))
    /\ UNCHANGED <<setting, store, art, context, digest, unlinked>>

DreamAppend(p) ==
    /\ Doing(p, "append") /\ proc[p].queue # <<>>
    /\ store' = [store EXCEPT !.dream = Append(@, Dreamt(Head(proc[p].queue)))]
    /\ GoWriting(p, Gets(p, "append", proc[p].sig, proc[p].files, Tail(proc[p].queue), proc[p].lock))
    /\ UNCHANGED <<setting, art, context, digest, unlinked>>

DreamReport(p) ==
    /\ Doing(p, "append") /\ proc[p].queue = <<>>
    /\ art' = [art EXCEPT !.dream = [sig |-> proc[p].sig, calm |-> proc[p].calm,
                                     body |-> Generated("dream", proc[p].files)]]
    /\ digest' = proc[p].sig
    /\ GoWriting(p, Leaving(p))
    /\ UNCHANGED <<setting, store, context, unlinked>>

\* Release-DreamLock closes the file, then removes it by its name.
DreamDispose(p) ==
    /\ Doing(p, "dispose") /\ Go(p, [Idle EXCEPT !.at = "delete"])
    /\ UNCHANGED <<setting, store, art, context, digest, unlinked>>

DreamDelete(p) ==
    /\ Doing(p, "delete")
    /\ \/ unlinked' = (unlinked \/ Held # {}) /\ proc' = [Unlinking EXCEPT ![p] = Idle]
       \/ Held # {} /\ Go(p, Idle) /\ UNCHANGED unlinked
    /\ UNCHANGED <<setting, store, art, context, digest>>

Dream(p) ==
    \/ DreamOpen(p) \/ DreamBusy(p) \/ DreamBreak(p) \/ DreamSign(p) \/ DreamRead(p) \/ DreamWrite(p)
    \/ DreamAppend(p) \/ DreamReport(p) \/ DreamDispose(p) \/ DreamDelete(p)

----------------------------------------------------------------------------
\* refresh-generated-artifacts.cjs runs three scripts, one after the other, when
\* the integrity report complains of an artifact.
Problems == {a \in {"layers", "handoff", "dream"} : ~Aligned(a)}

Refresh(p) ==
    /\ Doing(p, "idle") /\ ~Refreshing(p)
    /\ \/ "refresh --force" \in setting.jobs[p]
       \/ "refresh" \in setting.jobs[p] /\ Problems # {}
    /\ Go(p, [Idle EXCEPT !.then = <<"build", "handoff", "dream">>])
    /\ UNCHANGED <<setting, store, art, context, digest, unlinked>>

\* The system closes the files of a killed process; a refresh ends with it.
Kill(p) ==
    /\ p \in Mortal /\ proc[p].at # "idle" /\ Go(p, Idle)
    /\ UNCHANGED <<setting, store, art, context, digest, unlinked>>

LayersNext ==
    \/ \E id \in Id : Arrive(id)
    \/ \E p \in Process : \/ Build(p) \/ HandoffRead(p) \/ HandoffWrite(p)
                          \/ HygieneSign(p) \/ HygieneWrite(p) \/ Dream(p) \/ Refresh(p) \/ Kill(p)

LayersSpec == LayersInit /\ [][LayersNext]_layersVars

----------------------------------------------------------------------------
\* Properties.

\* An artifact the integrity report calls aligned is the one its generator
\* would make of the files as they are now, whatever has been rewritten, cut
\* short or lost since, if it was made undisturbed.  The dream and the hygiene
\* report sign before they read, and are disturbed only by a rebuild at work on
\* the layers in between: inputs may grow meanwhile, and what was read after a
\* file had grown is not aligned any more.  The layers and the handoff pack sign
\* what they have read before, and are right only if nobody wrote in between.
AlignedIsCurrent ==
    \A a \in Artifact : Aligned(a) /\ art[a].calm => art[a].body = Generated(a, Contents)

\* A rebuild that nobody disturbs leaves everything it writes in agreement with
\* the layers it wrote.
FinishedBuildAgrees ==
    [][\A p \in Process : BuildNav(p) /\ proc[p].calm =>
          /\ art.layers.sig = Signature' /\ art.layers.body = LayerSummary(LayersOf(Contents'))
          /\ context'.body = Body(LayersOf(Contents')) /\ context'.meta = Meta(LayersOf(Contents'))
          /\ context'.nav = Navigation(LayersOf(Contents'))]_layersVars

\* No memory and no text is promoted twice, however long the rebuild takes to
\* merge what was promoted, unless a dream lost its lock to another one.
PromotedOnce ==
    unlinked \/ \A i, j \in DOMAIN store.dream :
                    Text[store.dream[i].id] = Text[store.dream[j].id] => i = j
=============================================================================
